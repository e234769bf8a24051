--------------------------- MODULE PaymentsProofs ---------------------------
(***************************************************************************)
(* Payments and their expenses for any number of requests, payments, expenses *)
(* and amounts: what a payment says it was paid with is in the ledger, and the *)
(* ledger holds no expense of a payment that does not say so.                   *)
(***************************************************************************)
EXTENDS Payments, Sums, TLAPS

\* Validations, payments, and the edition, removal and absorption of an expense overlap as
\* they like; what takes a payment back, edits it or repairs it is asked for alone.
Overlapping == {"validate", "pay", "spend", "editExpense", "removeExpense", "absorb"}
Separate    == Together \subseteq Overlapping

-----------------------------------------------------------------------------
(* The inductive invariant                                                    *)

Repairing == {"isLive", "unlink", "find", "save", "recreate"}
OnRow     == Repairing \cup {"setStatus", "load", "drop", "write", "answer", "reload"}
Steps     == OnRow \cup {"idle", "saveExpense", "sync", "softRemove"}

Memory == [op : AllOps, id : Ids \cup {None}, m : Expenses \cup {None},
           amount : Nat, row : Payment, requested : Status]

\* The operations that come to a step.
StepOf(op, step) ==
    CASE step = "setStatus"                     -> op = "create"
      [] step \in {"answer", "drop"}            -> op = "create"
      [] step = "load"                          -> op \in OnPayment \cup {"create"}
      [] step = "write"                         -> op \in (OnPayment \cup {"create"}) \ {"read"}
      [] step = "reload"                        -> op = "update"
      [] step \in {"isLive", "unlink"}          -> op = "read"
      [] step \in {"find", "save", "recreate"}  -> op \in {"update", "read"}
      [] step \in {"saveExpense", "sync"}       -> op = "editExpense"
      [] step = "softRemove"                    -> op = "removeExpense"
      [] OTHER                                  -> TRUE

\* What is asked for alone runs alone.
RunsAlone ==
    \A p, q \in Requests :
        p # q /\ pc[p] # "idle" /\ pc[q] # "idle" => req[p].op \in Together /\ req[q].op \in Together

\* An expense has one payment, of its own debt; one written by hand has none.
LinksMatch ==
    /\ \A i \in Ids : payment[i].exists => payment[i].debt # None
    /\ \A i \in Ids : payment[i].movementId # None =>
          /\ payment[i].debt # None
          /\ expense[payment[i].movementId].state # "none"
          /\ expense[payment[i].movementId].debt = payment[i].debt
    /\ \A i, j \in Ids : payment[i].movementId # None /\ payment[i].movementId = payment[j].movementId => i = j

\* A paid payment answers for the expense of a debt.
Backed(m) == expense[m].debt # None => \E i \in Payers(m) : payment[i].debt = expense[m].debt

\* What a request that is at `step' and remembers r may count on.
Knows(r, step) ==
    LET row == payment[r.id] IN
    /\ step \in OnRow => r.id \in Ids
    /\ step \in {"setStatus", "load", "write"} /\ r.op = "create" => row.status # "PAID"
    /\ step = "write" => /\ r.row.debt # None /\ row.debt = r.row.debt
                         /\ r.op \in {"pay", "create"} => r.amount \in Nat \ {0} /\ r.amount <= r.row.amount
                         /\ r.op \notin Overlapping \cup {"create"} => row = r.row /\ Accepts(r.op, r.row)
    /\ step \in Repairing => row = r.row /\ row.exists /\ row.active /\ row.status = "PAID"
    /\ step \in {"isLive", "unlink", "save"} => r.row.movementId # None
    /\ step = "unlink" => ~Live(r.row.movementId)
    /\ step = "save"   => Live(r.row.movementId)
    /\ step = "recreate" => r.row.movementId = None \/ ~Live(r.row.movementId)
    /\ step \in {"saveExpense", "sync"} => r.m \in Expenses /\ expense[r.m].state # "none" /\ Backed(r.m)
    /\ step = "softRemove" => r.m \in Expenses /\ expense[r.m].state # "none" /\ Linked(r.m) = {}

Remembers(p) == StepOf(req[p].op, pc[p]) /\ Knows(req[p], pc[p])

\* The tables agree with one another.
TablesAgree == LinksMatch /\ PaidHasExpense /\ \A m \in Expenses : Live(m) => Backed(m)

PaymentsInv == TypeOK /\ RunsAlone /\ TablesAgree /\ \A p \in Requests : Remembers(p)

-----------------------------------------------------------------------------
(* What steps have in common                                                  *)

\* What others that run at the same time rely on: rows keep their debt, expenses that are
\* answered for stay so, and those that no payment links find none.
Gentle ==
    /\ \A i \in Ids : payment[i].debt # None => payment'[i].debt = payment[i].debt
    /\ \A m \in Expenses : expense[m].state # "none" =>
          /\ expense'[m].state # "none" /\ expense'[m].debt = expense[m].debt
          /\ Backed(m) => Backed(m)'
          /\ Linked(m) = {} => Linked(m)' = {}

\* Everybody else is idle, or overlaps with operation op.
Others(p, op) ==
    \A q \in Requests \ {p} : pc[q] = "idle" \/ (op \in Together /\ req[q].op \in Together)

\* Who is at work has nobody beside him, or overlaps with operations that may.
LEMMA Company ==
    ASSUME PaymentsInv, NEW p \in Requests, pc[p] # "idle"
    PROVE  Others(p, req[p].op)
BY DEF PaymentsInv, RunsAlone, Others

\* Rows and memories that are empty are well formed, and an idle request knows nothing.
LEMMA Nothing ==
    /\ NoPayment \in Payment /\ NoRequest \in Memory /\ NoExpense \in Expense
    /\ \A op : StepOf(op, "idle")
    /\ \A r : Knows(r, "idle")
BY DEF NoPayment, NoRequest, NoExpense, Payment, Expense, Memory, Status, AllOps, OnPayment, StepOf, Knows,
       OnRow, Repairing

\* A request moves to `step', remembering r: what is left to show is about it and the tables.
LEMMA Moves ==
    ASSUME PaymentsInv, Separate, NEW p \in Requests, NEW r \in Memory, NEW step \in Steps,
           pc' = [pc EXCEPT ![p] = step], req' = [req EXCEPT ![p] = r],
           step = "idle" \/ Others(p, r.op),
           payment' \in [Ids -> Payment], expense' \in [Expenses -> Expense],
           lock' \in [Expenses -> Requests \cup {None}],
           StepOf(r.op, step), Knows(r, step)', TablesAgree',
           \A q \in Requests \ {p} : pc[q] = "idle" \/ (req[q].op \in Together /\ Gentle)
    PROVE  PaymentsInv'
<1>1. TypeOK'
  BY DEF PaymentsInv, TypeOK, Memory, Steps, OnRow, Repairing
<1>2. \A q \in Requests : pc'[q] = (IF q = p THEN step ELSE pc[q]) /\ req'[q] = (IF q = p THEN r ELSE req[q])
  BY DEF PaymentsInv, TypeOK
<1>3. RunsAlone'
  BY <1>2 DEF PaymentsInv, RunsAlone, Others
<1>4. ASSUME NEW q \in Requests, q # p
      PROVE  Remembers(q)'
  <2>1. StepOf(req[q].op, pc[q]) /\ Knows(req[q], pc[q])
    BY DEF PaymentsInv, Remembers
  <2>2. CASE pc[q] = "idle"
    BY <1>2, <1>4, <2>2, Nothing DEF Remembers, StepOf, Knows, OnRow, Repairing
  <2>3. CASE pc[q] # "idle"
    <3>1. req[q].op \in Overlapping /\ Gentle
      BY <1>4, <2>3 DEF Separate
    <3>2. pc[q] \in {"load", "write", "saveExpense", "sync", "softRemove"}
      BY <2>1, <2>3, <3>1 DEF PaymentsInv, TypeOK, StepOf, Overlapping
    <3>3. pc'[q] = pc[q] /\ req'[q] = req[q]
      BY <1>2, <1>4
    <3>4. Knows(req[q], pc[q])'
      BY <2>1, <3>1, <3>2, <3>3 DEF Knows, Gentle, OnRow, Repairing, Overlapping
    <3>. QED BY <2>1, <3>3, <3>4 DEF Remembers
  <2>. QED BY <2>2, <2>3
<1>5. Remembers(p)'
  BY <1>2 DEF Remembers
<1>. QED BY <1>1, <1>3, <1>4, <1>5 DEF PaymentsInv

\* A step that only reads.
LEMMA Quiet ==
    ASSUME PaymentsInv, UNCHANGED <<payment, expense>>
    PROVE  /\ payment' \in [Ids -> Payment] /\ expense' \in [Expenses -> Expense]
           /\ TablesAgree' /\ Gentle /\ \A r, step : Knows(r, step) => Knows(r, step)'
BY DEF PaymentsInv, TypeOK, TablesAgree, LinksMatch, PaidHasExpense, Backed, Payers, Live, Linked, Gentle, Knows

\* A request that only reads goes on, knowing what its next step relies on.
LEMMA Reads ==
    ASSUME PaymentsInv, Separate, NEW p \in Requests, NEW r \in Memory, NEW step \in Steps,
           UNCHANGED <<payment, expense>>,
           lock' \in [Expenses -> Requests \cup {None}],
           pc' = [pc EXCEPT ![p] = step], req' = [req EXCEPT ![p] = r],
           step = "idle" \/ Others(p, r.op), StepOf(r.op, step), Knows(r, step),
           \A q \in Requests \ {p} : pc[q] = "idle" \/ req[q].op \in Together
    PROVE  PaymentsInv'
BY Quiet, Moves

\* A request ends, leaving tables that agree.
LEMMA Ends ==
    ASSUME PaymentsInv, Separate, NEW p \in Requests, End(p),
           payment' \in [Ids -> Payment], expense' \in [Expenses -> Expense],
           lock' \in [Expenses -> Requests \cup {None}], TablesAgree',
           \A q \in Requests \ {p} : pc[q] = "idle" \/ (req[q].op \in Together /\ Gentle)
    PROVE  PaymentsInv'
<1>1. Knows(NoRequest, "idle")'
  BY DEF Knows, OnRow, Repairing
<1>. QED BY <1>1, Moves, Nothing DEF End, Goto, Keep, Steps

\* One row of payments changes, neither its debt nor what answers for an expense: a
\* payment that is paid stays so, and no row becomes paid.
Answers(row) == row.exists /\ row.active /\ row.status = "PAID"
Vouches(row) == row.status = "PAID" /\ (row.exists => row.active)

\* Such a change keeps the tables in agreement.
LEMMA OneRow ==
    ASSUME PaymentsInv, NEW i \in Ids, NEW row \in Payment, expense' = expense,
           payment' = [payment EXCEPT ![i] = row],
           row.debt = payment[i].debt, row.exists => payment[i].exists /\ (row.active => payment[i].active),
           Answers(row) => Answers(payment[i]), Vouches(payment[i]) => Vouches(row),
           \/ row.movementId = payment[i].movementId
           \/ row.movementId = None /\ (payment[i].movementId # None => ~Live(payment[i].movementId))
    PROVE  /\ payment' \in [Ids -> Payment] /\ expense' \in [Expenses -> Expense]
           /\ TablesAgree'
           /\ row.movementId = payment[i].movementId => Gentle
<1>1. payment' \in [Ids -> Payment] /\ \A j \in Ids : payment'[j] = IF j = i THEN row ELSE payment[j]
  BY DEF PaymentsInv, TypeOK
<1>2. LinksMatch'
  BY <1>1 DEF PaymentsInv, TablesAgree, LinksMatch
<1>3. PaidHasExpense'
  BY <1>1 DEF PaymentsInv, TablesAgree, PaidHasExpense, Answers
<1>4. ASSUME NEW m \in Expenses, Backed(m), Live(m) \/ row.movementId = payment[i].movementId
      PROVE  Backed(m)'
  <2>1. CASE expense[m].debt = None
    BY <2>1 DEF Backed
  <2>2. CASE expense[m].debt # None
    <3>1. PICK j \in Payers(m) : payment[j].debt = expense[m].debt
      BY <1>4, <2>2 DEF Backed
    <3>2. j \in Payers(m)' /\ payment'[j].debt = expense[m].debt
      BY <1>1, <1>4, <3>1, PaymentsAssumption DEF Payers, Vouches, Ids, Expenses
    <3>. QED BY <3>2 DEF Backed
  <2>. QED BY <2>1, <2>2
<1>5. TablesAgree'
  BY <1>2, <1>3, <1>4 DEF PaymentsInv, TablesAgree, Live
<1>6. row.movementId = payment[i].movementId => Gentle
  <2>1. ASSUME NEW m \in Expenses, row.movementId = payment[i].movementId, Linked(m) = {} PROVE Linked(m)' = {}
    BY <1>1, <2>1 DEF Linked
  <2>. QED BY <1>1, <1>4, <2>1 DEF Gentle
<1>. QED BY <1>1, <1>5, <1>6 DEF PaymentsInv, TypeOK

-----------------------------------------------------------------------------
(* The steps that only read                                                   *)

\* Whoever begins finds only operations that may overlap with his, or nobody.
LEMMA BeginsAlone ==
    ASSUME PaymentsInv, Separate, NEW p \in Requests, NEW op, MayBegin(p, op)
    PROVE  /\ Others(p, op) /\ \A q \in Requests \ {p} : pc[q] = "idle" \/ req[q].op \in Together
           /\ op \notin Overlapping => \A q \in Requests \ {p} : pc[q] = "idle"
BY DEF MayBegin, Others, Separate

\* What may not overlap runs alone.
LEMMA WorksAlone ==
    ASSUME PaymentsInv, Separate, NEW p \in Requests, pc[p] # "idle", req[p].op \notin Overlapping
    PROVE  \A q \in Requests \ {p} : pc[q] = "idle"
BY Company DEF Others, Separate

\* Asking for an operation on a payment keeps the invariant.
LEMMA AsksKeep ==
    ASSUME PaymentsInv, Separate, NEW p \in Requests, NEW op \in OnPayment, NEW i \in Ids, Ask(p, op, i)
    PROVE  PaymentsInv'
<1>1. PICK r : r = [NoRequest EXCEPT !.op = op, !.id = i]
  OBVIOUS
<1>2. r \in Memory /\ r.op = op /\ r.id = i
  BY <1>1, Nothing DEF NoRequest, Memory, AllOps
<1>3. StepOf(r.op, "load") /\ Knows(r, "load")
  BY <1>2 DEF StepOf, Knows, OnRow, Repairing, OnPayment
<1>4. lock' \in [Expenses -> Requests \cup {None}]
  BY DEF Ask, PaymentsInv, TypeOK
<1>. QED BY <1>1, <1>2, <1>3, <1>4, BeginsAlone, Reads DEF Ask, Goto, Keep, Steps, OnRow

\* A request that goes on without a change of the tables.
LEMMA GoesOn ==
    ASSUME PaymentsInv, Separate, NEW p \in Requests, pc[p] # "idle", UNCHANGED <<payment, expense>>,
           lock' \in [Expenses -> Requests \cup {None}],
           \/ End(p)
           \/ \E step \in Steps : Goto(p, step) /\ UNCHANGED req /\ StepOf(req[p].op, step) /\ Knows(req[p], step)
           \/ \E step \in Steps, r \in Memory :
                 /\ Goto(p, step) /\ Keep(p, r) /\ r.op = req[p].op /\ StepOf(r.op, step) /\ Knows(r, step)
    PROVE  PaymentsInv'
<1>1. Others(p, req[p].op) /\ \A q \in Requests \ {p} : pc[q] = "idle" \/ req[q].op \in Together
  BY Company DEF Others
<1>2. CASE End(p)
  BY <1>1, <1>2, Nothing, Reads DEF End, Goto, Keep, Steps
<1>3. CASE \E step \in Steps : Goto(p, step) /\ UNCHANGED req /\ StepOf(req[p].op, step) /\ Knows(req[p], step)
  <2>1. PICK r : r = req[p]
    OBVIOUS
  <2>2. r \in Memory /\ req' = [req EXCEPT ![p] = r]
    BY <1>3, <2>1 DEF PaymentsInv, TypeOK, Memory
  <2>. QED BY <1>1, <1>3, <2>1, <2>2, Reads DEF Goto
<1>4. CASE \E step \in Steps, r \in Memory :
             /\ Goto(p, step) /\ Keep(p, r) /\ r.op = req[p].op /\ StepOf(r.op, step) /\ Knows(r, step)
  BY <1>1, <1>4, Reads DEF Goto, Keep
<1>. QED BY <1>2, <1>3, <1>4

\* Refusing is right wherever create has not paid.
LEMMA Refuses ==
    ASSUME PaymentsInv, NEW p \in Requests, Refuse(p), pc[p] \in OnRow \cup {"saveExpense", "sync"},
           req[p].op = "create" => pc[p] \in {"load", "write", "answer"}
    PROVE  \/ End(p)
           \/ Goto(p, "drop") /\ UNCHANGED req /\ StepOf(req[p].op, "drop") /\ Knows(req[p], "drop")
<1>1. Knows(req[p], pc[p])
  BY DEF PaymentsInv, Remembers
<1>. QED BY <1>1 DEF Refuse, StepOf, Knows, OnRow, Repairing

\* Load keeps the invariant.
LEMMA LoadKeeps ==
    ASSUME PaymentsInv, Separate, NEW p \in Requests, NEW a, Load(p, a)
    PROVE  PaymentsInv'
<1>1. pc[p] = "load" /\ UNCHANGED <<payment, expense>> /\ lock' \in [Expenses -> Requests \cup {None}]
  BY DEF Load, PaymentsInv, TypeOK
<1>2. StepOf(req[p].op, "load") /\ Knows(req[p], "load") /\ req[p] \in Memory
  BY <1>1 DEF PaymentsInv, Remembers, TypeOK, Memory
<1>3. req[p].op \in OnPayment \cup {"create"} /\ req[p].id \in Ids
  BY <1>2 DEF StepOf, Knows, OnRow
<1>4. PICK row : row = payment[req[p].id]
  OBVIOUS
<1>5. row \in Payment
  BY <1>3, <1>4 DEF PaymentsInv, TypeOK
<1>6. CASE row.exists /\ row.active /\ Accepts(req[p].op, row)
  <2>1. PICK r : r = [req[p] EXCEPT !.row = row, !.amount = a]
    OBVIOUS
  <2>2. PICK step : step = IF req[p].op # "read" THEN "write"
                           ELSE IF row.movementId = None THEN "find" ELSE "isLive"
    OBVIOUS
  <2>3. Goto(p, step) /\ Keep(p, r)
    BY <1>4, <1>6, <2>1, <2>2 DEF Load
  <2>4. /\ req[p].op = "pay"    => a \in 1..row.amount
        /\ req[p].op = "create" => a = row.amount
        /\ req[p].op = "update" => a \in Amounts
        /\ req[p].op \notin {"pay", "create", "update"} => a = 0
    BY <1>4, <1>6 DEF Load
  <2>5. row.amount \in Nat
    BY <1>5 DEF Payment
  <2>6. a \in Nat
    <3>1. CASE req[p].op = "pay"
      <4>1. a \in 1..row.amount
        BY <2>4, <3>1
      <4>. QED BY <2>5, <4>1
    <3>2. CASE req[p].op # "pay"
      <4>1. a = row.amount \/ a \in Amounts \/ a = 0
        BY <2>4, <3>2
      <4>2. Amounts \subseteq Nat
        BY PaymentsAssumption
      <4>3. a \in Amounts => a \in Nat
        BY <4>2, Zenon
      <4>4. a = row.amount => a \in Nat
        BY <2>5, Zenon
      <4>. QED BY <4>1, <4>3, <4>4
    <3>. QED BY <3>1, <3>2
  <2>7. r \in Memory /\ r.op = req[p].op /\ r.id = req[p].id /\ r.row = row /\ r.amount = a
    BY <1>2, <1>5, <2>1, <2>6 DEF Memory
  <2>8. step \in Steps /\ StepOf(r.op, step)
    BY <1>3, <2>2, <2>7 DEF StepOf, Steps, OnRow, Repairing, OnPayment
  <2>9. row.debt # None
    BY <1>3, <1>4, <1>6 DEF PaymentsInv, TablesAgree, LinksMatch
  <2>10. Knows(r, step)
    <3>1. CASE req[p].op = "read"
      BY <1>3, <1>4, <1>6, <2>2, <2>7, <3>1 DEF Knows, OnRow, Repairing, Accepts
    <3>2. CASE req[p].op # "read"
      <4>1. step = "write"
        BY <2>2, <3>2
      <4>2. req[p].op \in {"pay", "create"} => a \in Nat \ {0} /\ a <= row.amount
        <5>1. CASE req[p].op = "pay"
          BY <2>4, <2>5, <5>1
        <5>2. CASE req[p].op = "create"
          BY <1>6, <2>4, <2>5, <5>2 DEF Accepts
        <5>. QED BY <5>1, <5>2
      <4>4. r.op = "create" => row.status # "PAID"
        BY <1>6, <2>7 DEF Accepts
      <4>3. req[p].op \notin Overlapping \cup {"create"} => Accepts(r.op, r.row)
        BY <1>6, <2>7
      <4>. QED BY <1>3, <1>4, <2>7, <2>9, <4>1, <4>2, <4>3, <4>4 DEF Knows, OnRow, Repairing
    <3>. QED BY <3>1, <3>2
  <2>. QED BY <1>1, <2>3, <2>7, <2>8, <2>10, GoesOn
<1>7. CASE ~(row.exists /\ row.active /\ Accepts(req[p].op, row))
  <2>1. Refuse(p)
    BY <1>4, <1>7 DEF Load
  <2>. QED BY <1>1, <2>1, Refuses, GoesOn DEF OnRow, Steps
<1>. QED BY <1>6, <1>7

\* Reload keeps the invariant.
LEMMA ReloadKeeps ==
    ASSUME PaymentsInv, Separate, NEW p \in Requests, Reload(p)
    PROVE  PaymentsInv'
<1>1. pc[p] = "reload" /\ UNCHANGED <<payment, expense>> /\ lock' \in [Expenses -> Requests \cup {None}]
  BY DEF Reload, PaymentsInv, TypeOK
<1>2. req[p].op = "update" /\ req[p].id \in Ids /\ req[p] \in Memory
  BY <1>1 DEF PaymentsInv, Remembers, StepOf, Knows, OnRow, TypeOK, Memory
<1>3. PICK r : r = [req[p] EXCEPT !.row = payment[req[p].id]]
  OBVIOUS
<1>4. payment[req[p].id] \in Payment
  BY <1>2 DEF PaymentsInv, TypeOK
<1>5. r \in Memory /\ r.op = req[p].op /\ r.id = req[p].id /\ r.row = payment[req[p].id]
  BY <1>2, <1>3, <1>4 DEF Memory
<1>6. CASE End(p)
  BY <1>1, <1>6, GoesOn
<1>7. CASE ~End(p)
  <2>1. r.row.exists /\ r.row.active /\ r.row.status = "PAID" /\ Keep(p, r) /\ Goto(p, "find")
    BY <1>3, <1>5, <1>7 DEF Reload
  <2>2. StepOf(r.op, "find") /\ Knows(r, "find")
    BY <1>2, <1>5, <2>1 DEF StepOf, Knows, OnRow, Repairing
  <2>. QED BY <1>1, <1>5, <2>1, <2>2, GoesOn DEF Steps, OnRow, Repairing
<1>. QED BY <1>6, <1>7

\* IsLive keeps the invariant.
LEMMA IsLiveKeeps ==
    ASSUME PaymentsInv, Separate, NEW p \in Requests, IsLive(p)
    PROVE  PaymentsInv'
<1>1. pc[p] = "isLive" /\ UNCHANGED <<payment, expense>> /\ lock' \in [Expenses -> Requests \cup {None}]
  BY DEF IsLive, PaymentsInv, TypeOK
<1>2. StepOf(req[p].op, "isLive") /\ Knows(req[p], "isLive")
  BY <1>1 DEF PaymentsInv, Remembers
<1>3. ~Live(req[p].row.movementId) => StepOf(req[p].op, "unlink") /\ Knows(req[p], "unlink")
  BY <1>2 DEF StepOf, Knows, OnRow, Repairing
<1>. QED BY <1>1, <1>3, GoesOn DEF IsLive, Steps, OnRow, Repairing

\* Find keeps the invariant.
LEMMA FindKeeps ==
    ASSUME PaymentsInv, Separate, NEW p \in Requests, FindMovement(p)
    PROVE  PaymentsInv'
<1>1. pc[p] = "find" /\ UNCHANGED <<payment, expense>> /\ lock' \in [Expenses -> Requests \cup {None}]
  BY DEF FindMovement, PaymentsInv, TypeOK
<1>2. StepOf(req[p].op, "find") /\ Knows(req[p], "find")
  BY <1>1 DEF PaymentsInv, Remembers
<1>3. \/ End(p)
      \/ /\ req[p].row.movementId # None /\ Live(req[p].row.movementId)
         /\ Goto(p, "save") /\ UNCHANGED req
      \/ /\ ~(req[p].row.movementId # None /\ Live(req[p].row.movementId))
         /\ Goto(p, "recreate") /\ UNCHANGED req
  BY DEF FindMovement
<1>4. /\ req[p].row.movementId # None /\ Live(req[p].row.movementId) =>
            StepOf(req[p].op, "save") /\ Knows(req[p], "save")
      /\ ~(req[p].row.movementId # None /\ Live(req[p].row.movementId)) =>
            StepOf(req[p].op, "recreate") /\ Knows(req[p], "recreate")
  BY <1>2 DEF StepOf, Knows, OnRow, Repairing
<1>. QED BY <1>1, <1>3, <1>4, GoesOn DEF Steps, OnRow, Repairing

\* Editing an expense keeps the invariant.
LEMMA EditKeeps ==
    ASSUME PaymentsInv, Separate, NEW p \in Requests, NEW m \in Expenses, NEW a \in Amounts, EditExpense(p, m, a)
    PROVE  PaymentsInv'
<1>1. PICK r : r = [NoRequest EXCEPT !.op = "editExpense", !.m = m, !.amount = a]
  OBVIOUS
<1>2. r \in Memory /\ r.op = "editExpense" /\ r.m = m
  BY <1>1, Nothing, PaymentsAssumption DEF NoRequest, Memory, AllOps, OnExpense
<1>3. StepOf(r.op, "saveExpense") /\ Knows(r, "saveExpense")
  BY <1>2 DEF EditExpense, StepOf, Knows, OnRow, Repairing, Live, PaymentsInv, TablesAgree
<1>4. lock' \in [Expenses -> Requests \cup {None}]
  BY DEF EditExpense, PaymentsInv, TypeOK
<1>. QED BY <1>1, <1>2, <1>3, <1>4, BeginsAlone, Reads DEF EditExpense, Goto, Keep, Steps

\* SaveExpense keeps the invariant.
LEMMA SaveExpenseKeeps ==
    ASSUME PaymentsInv, Separate, NEW p \in Requests, SaveExpense(p)
    PROVE  PaymentsInv'
<1>1. pc[p] = "saveExpense" /\ UNCHANGED <<payment, expense>> /\ lock' \in [Expenses -> Requests \cup {None}]
  BY DEF SaveExpense, PaymentsInv, TypeOK
<1>2. StepOf(req[p].op, "saveExpense") /\ Knows(req[p], "saveExpense") /\ req[p] \in Memory
  BY <1>1 DEF PaymentsInv, Remembers, TypeOK, Memory
<1>3. PICK i \in Ids \cup {None} : Keep(p, [req[p] EXCEPT !.id = i])
  BY DEF SaveExpense, Linked
<1>4. PICK r : r = [req[p] EXCEPT !.id = i]
  OBVIOUS
<1>5. r \in Memory /\ r.op = req[p].op /\ r.m = req[p].m
  BY <1>2, <1>4 DEF Memory
<1>6. StepOf(r.op, "sync") /\ Knows(r, "sync")
  BY <1>2, <1>5 DEF StepOf, Knows, OnRow, Repairing
<1>. QED BY <1>1, <1>3, <1>4, <1>5, <1>6, GoesOn DEF SaveExpense, Steps

\* RemoveExpense keeps the invariant.
LEMMA RemoveExpenseKeeps ==
    ASSUME PaymentsInv, Separate, NEW p \in Requests, NEW m \in Expenses, RemoveExpense(p, m)
    PROVE  PaymentsInv'
<1>1. PICK r : r = [NoRequest EXCEPT !.op = "removeExpense", !.m = m]
  OBVIOUS
<1>2. r \in Memory /\ r.op = "removeExpense" /\ r.m = m
  BY <1>1, Nothing DEF NoRequest, Memory, AllOps, OnExpense
<1>3. StepOf(r.op, "softRemove") /\ Knows(r, "softRemove")
  BY <1>2 DEF RemoveExpense, Removable, StepOf, Knows, OnRow, Repairing, Live
<1>4. lock' \in [Expenses -> Requests \cup {None}]
  BY DEF RemoveExpense, PaymentsInv, TypeOK
<1>. QED BY <1>1, <1>2, <1>3, <1>4, BeginsAlone, Reads DEF RemoveExpense, Goto, Keep, Steps

\* Answer keeps the invariant.
LEMMA AnswerKeeps ==
    ASSUME PaymentsInv, Separate, NEW p \in Requests, Answer(p)
    PROVE  PaymentsInv'
<1>1. pc[p] = "answer" /\ UNCHANGED <<payment, expense>> /\ lock' \in [Expenses -> Requests \cup {None}]
  BY DEF Answer, PaymentsInv, TypeOK
<1>2. CASE End(p)
  BY <1>1, <1>2, GoesOn
<1>3. CASE Refuse(p)
  BY <1>1, <1>3, Refuses, GoesOn DEF OnRow, Steps
<1>. QED BY <1>2, <1>3 DEF Answer

\* A failure keeps the invariant.
LEMMA FailsKeeps ==
    ASSUME PaymentsInv, Separate, NEW p \in Requests, Fails(p) \/ Dies(p)
    PROVE  PaymentsInv'
<1>1. pc[p] # "idle" /\ UNCHANGED <<payment, expense>> /\ lock' \in [Expenses -> Requests \cup {None}]
  BY DEF Fails, Dies, PaymentsInv, TypeOK
<1>2. CASE Dies(p)
  BY <1>1, <1>2, GoesOn DEF Dies
<1>3. CASE Fails(p)
  <2>1. req[p].op = "create" => pc[p] \in {"load", "write", "answer"}
    BY <1>3 DEF Fails, PaymentsInv, Remembers, StepOf
  <2>2. pc[p] \in OnRow \cup {"saveExpense", "sync"} /\ Refuse(p)
    BY <1>3 DEF Fails, OnRow, Repairing
  <2>. QED BY <1>1, <2>1, <2>2, Refuses, GoesOn DEF Steps, OnRow
<1>. QED BY <1>2, <1>3

-----------------------------------------------------------------------------
(* The steps that change one row of payments                                  *)

\* A status that is not PAID, over one that is not, keeps the tables in agreement.
LEMMA StatusAgrees ==
    ASSUME PaymentsInv, NEW i \in Ids, NEW s \in Status, SetStatus(i, s), expense' = expense,
           payment[i].exists => payment[i].status # "PAID" /\ s # "PAID"
    PROVE  /\ payment' \in [Ids -> Payment] /\ expense' \in [Expenses -> Expense]
           /\ TablesAgree' /\ Gentle
           /\ payment[i].status # "PAID" => payment'[i].status # "PAID"
<1>1. CASE payment[i].exists
  <2>1. PICK row : row = [payment[i] EXCEPT !.status = s]
    OBVIOUS
  <2>2. payment[i] \in Payment
    BY DEF PaymentsInv, TypeOK
  <2>3. /\ row \in Payment /\ row.exists = payment[i].exists /\ row.active = payment[i].active
        /\ row.status = s /\ row.movementId = payment[i].movementId /\ row.debt = payment[i].debt
    BY <2>1, <2>2 DEF Payment
  <2>4. payment' = [payment EXCEPT ![i] = row]
    BY <1>1, <2>1 DEF SetStatus
  <2>5. payment'[i] = row
    BY <2>4 DEF PaymentsInv, TypeOK
  <2>. QED BY <1>1, <2>3, <2>4, <2>5, OneRow DEF Answers, Vouches
<1>2. CASE ~payment[i].exists
  BY <1>2, Quiet DEF SetStatus
<1>. QED BY <1>1, <1>2

\* SetRequested keeps the invariant.
LEMMA SetRequestedKeeps ==
    ASSUME PaymentsInv, Separate, NEW p \in Requests, SetRequested(p)
    PROVE  PaymentsInv'
<1>1. pc[p] = "setStatus" /\ expense' = expense /\ lock' \in [Expenses -> Requests \cup {None}]
  BY DEF SetRequested, PaymentsInv, TypeOK
<1>2. StepOf(req[p].op, "setStatus") /\ Knows(req[p], "setStatus") /\ req[p] \in Memory
  BY <1>1 DEF PaymentsInv, Remembers, TypeOK, Memory
<1>3. req[p].op = "create" /\ req[p].id \in Ids /\ payment[req[p].id].status # "PAID"
  BY <1>2 DEF StepOf, Knows, OnRow
<1>4. \A q \in Requests \ {p} : pc[q] = "idle"
  BY <1>1, <1>3, WorksAlone DEF Overlapping
<1>5. PICK s \in Status : SetStatus(req[p].id, s) /\ s # "PAID"
  BY <1>2 DEF SetRequested, Memory, Status
<1>6. /\ payment' \in [Ids -> Payment] /\ expense' \in [Expenses -> Expense] /\ TablesAgree'
      /\ payment'[req[p].id].status # "PAID"
  BY <1>1, <1>3, <1>5, StatusAgrees
<1>7. CASE End(p)
  BY <1>1, <1>4, <1>6, <1>7, Ends
<1>8. CASE ~End(p)
  <2>1. Goto(p, "load") /\ UNCHANGED req
    BY <1>8 DEF SetRequested
  <2>2. PICK r : r = req[p]
    OBVIOUS
  <2>3. r \in Memory /\ req' = [req EXCEPT ![p] = r]
    BY <1>2, <2>1, <2>2 DEF PaymentsInv, TypeOK
  <2>4. StepOf(r.op, "load") /\ Knows(r, "load")'
    BY <1>3, <1>6, <2>2 DEF StepOf, Knows, OnRow, Repairing
  <2>5. Others(p, r.op)
    BY <1>4 DEF Others
  <2>. QED BY <1>1, <1>4, <1>6, <2>1, <2>3, <2>4, <2>5, Moves DEF Goto, Steps, OnRow
<1>. QED BY <1>7, <1>8

\* Drop keeps the invariant.
LEMMA DropKeeps ==
    ASSUME PaymentsInv, Separate, NEW p \in Requests, DropCreated(p)
    PROVE  PaymentsInv'
<1>1. pc[p] = "drop" /\ expense' = expense /\ lock' \in [Expenses -> Requests \cup {None}] /\ End(p)
  BY DEF DropCreated, PaymentsInv, TypeOK
<1>2. StepOf(req[p].op, "drop") /\ Knows(req[p], "drop")
  BY <1>1 DEF PaymentsInv, Remembers
<1>3. req[p].op = "create" /\ req[p].id \in Ids
  BY <1>2 DEF StepOf, Knows, OnRow
<1>4. \A q \in Requests \ {p} : pc[q] = "idle"
  BY <1>1, <1>3, WorksAlone DEF Overlapping
<1>5. PICK i \in Ids : i = req[p].id
  BY <1>3
<1>6. PICK row : row = [payment[i] EXCEPT !.exists = FALSE]
  OBVIOUS
<1>7. payment[i] \in Payment
  BY DEF PaymentsInv, TypeOK
<1>8. /\ row \in Payment /\ row.exists = FALSE /\ row.status = payment[i].status
      /\ row.movementId = payment[i].movementId /\ row.debt = payment[i].debt
  BY <1>6, <1>7 DEF Payment
<1>9. payment' = [payment EXCEPT ![i] = row]
  BY <1>5, <1>6 DEF DropCreated
<1>10. payment' \in [Ids -> Payment] /\ expense' \in [Expenses -> Expense] /\ TablesAgree'
  BY <1>1, <1>5, <1>8, <1>9, OneRow DEF Answers, Vouches
<1>. QED BY <1>1, <1>4, <1>10, Ends

\* Validate keeps the invariant.
LEMMA ValidateKeeps ==
    ASSUME PaymentsInv, Separate, NEW p \in Requests, Validate(p)
    PROVE  PaymentsInv'
<1>1. pc[p] = "write" /\ expense' = expense /\ lock' \in [Expenses -> Requests \cup {None}] /\ End(p)
  BY DEF Validate, PaymentsInv, TypeOK
<1>2. req[p].id \in Ids
  BY <1>1 DEF PaymentsInv, Remembers, Knows, OnRow
<1>3. \A q \in Requests \ {p} : pc[q] = "idle" \/ req[q].op \in Together
  BY <1>1, Company DEF Others
<1>4. payment' \in [Ids -> Payment] /\ expense' \in [Expenses -> Expense] /\ TablesAgree' /\ Gentle
  BY <1>1, <1>2, StatusAgrees, Quiet DEF Validate, Status
<1>. QED BY <1>1, <1>3, <1>4, Ends

\* What is written alone finds the payment as it was loaded.
LEMMA AsLoaded ==
    ASSUME PaymentsInv, Separate, NEW p \in Requests, pc[p] = "write", req[p].op \notin Overlapping \cup {"create"}
    PROVE  /\ req[p].id \in Ids /\ payment[req[p].id] = req[p].row /\ Accepts(req[p].op, req[p].row)
           /\ \A q \in Requests \ {p} : pc[q] = "idle"
BY WorksAlone DEF PaymentsInv, Remembers, Knows, OnRow

\* SetsStatus keeps the invariant.
LEMMA SetsStatusKeeps ==
    ASSUME PaymentsInv, Separate, NEW p \in Requests, Reject(p) \/ Cancel(p) \/ Unvalidate(p)
    PROVE  PaymentsInv'
<1>1. pc[p] = "write" /\ expense' = expense /\ lock' \in [Expenses -> Requests \cup {None}] /\ End(p)
  BY DEF Reject, Cancel, Unvalidate, PaymentsInv, TypeOK
<1>2. req[p].op \in {"reject", "cancel", "revert"}
  BY DEF Reject, Cancel, Unvalidate
<1>3. /\ req[p].id \in Ids /\ payment[req[p].id] = req[p].row /\ Accepts(req[p].op, req[p].row)
      /\ \A q \in Requests \ {p} : pc[q] = "idle"
  BY <1>1, <1>2, AsLoaded DEF Overlapping
<1>4. payment[req[p].id].status # "PAID"
  BY <1>3 DEF Reject, Cancel, Unvalidate, Accepts
<1>5. PICK s \in Status : SetStatus(req[p].id, s) /\ s # "PAID"
  BY DEF Reject, Cancel, Unvalidate, Status
<1>. QED BY <1>1, <1>3, <1>4, <1>5, StatusAgrees, Ends

\* Remove keeps the invariant.
LEMMA RemoveKeeps ==
    ASSUME PaymentsInv, Separate, NEW p \in Requests, Remove(p)
    PROVE  PaymentsInv'
<1>1. /\ pc[p] = "write" /\ expense' = expense /\ lock' \in [Expenses -> Requests \cup {None}] /\ End(p)
      /\ req[p].op = "remove"
  BY DEF Remove, PaymentsInv, TypeOK
<1>2. /\ req[p].id \in Ids /\ payment[req[p].id] = req[p].row /\ Accepts(req[p].op, req[p].row)
      /\ \A q \in Requests \ {p} : pc[q] = "idle"
  BY <1>1, AsLoaded DEF Overlapping
<1>3. PICK i \in Ids : i = req[p].id
  BY <1>2
<1>4. payment[i].status # "PAID"
  BY <1>1, <1>2, <1>3 DEF Accepts
<1>5. PICK row : row = [payment[i] EXCEPT !.active = FALSE]
  OBVIOUS
<1>6. payment[i] \in Payment
  BY DEF PaymentsInv, TypeOK
<1>7. /\ row \in Payment /\ row.exists = payment[i].exists /\ ~row.active /\ row.status = payment[i].status
      /\ row.movementId = payment[i].movementId /\ row.debt = payment[i].debt
  BY <1>5, <1>6 DEF Payment
<1>8. payment' = payment \/ payment' = [payment EXCEPT ![i] = row]
  BY <1>3, <1>5 DEF Remove
<1>9. payment' \in [Ids -> Payment] /\ expense' \in [Expenses -> Expense] /\ TablesAgree'
  <2>1. CASE payment' = payment
    BY <1>1, <2>1, Quiet
  <2>2. CASE payment' = [payment EXCEPT ![i] = row]
    BY <1>1, <1>4, <1>7, <2>2, OneRow DEF Answers, Vouches
  <2>. QED BY <1>8, <2>1, <2>2
<1>. QED BY <1>1, <1>2, <1>9, Ends

\* Update keeps the invariant.
LEMMA UpdateKeeps ==
    ASSUME PaymentsInv, Separate, NEW p \in Requests, Update(p)
    PROVE  PaymentsInv'
<1>1. /\ pc[p] = "write" /\ expense' = expense /\ lock' \in [Expenses -> Requests \cup {None}]
      /\ req[p].op = "update" /\ Goto(p, "reload") /\ req' = req
  BY DEF Update, PaymentsInv, TypeOK
<1>2. /\ req[p].id \in Ids /\ \A q \in Requests \ {p} : pc[q] = "idle"
  BY <1>1, AsLoaded DEF Overlapping
<1>3. PICK i \in Ids : i = req[p].id
  BY <1>2
<1>4. PICK row : row = [payment[i] EXCEPT !.amount = req[p].amount]
  OBVIOUS
<1>5. payment[i] \in Payment /\ req[p].amount \in Nat
  BY DEF PaymentsInv, TypeOK
<1>6. /\ row \in Payment /\ row.exists = payment[i].exists /\ row.active = payment[i].active
      /\ row.status = payment[i].status
      /\ row.movementId = payment[i].movementId /\ row.debt = payment[i].debt
  BY <1>4, <1>5 DEF Payment
<1>7. payment' = payment \/ payment' = [payment EXCEPT ![i] = row]
  BY <1>3, <1>4 DEF Update
<1>8. payment' \in [Ids -> Payment] /\ expense' \in [Expenses -> Expense] /\ TablesAgree'
  <2>1. CASE payment' = payment
    BY <1>1, <2>1, Quiet
  <2>2. CASE payment' = [payment EXCEPT ![i] = row]
    BY <1>1, <1>6, <2>2, OneRow DEF Answers, Vouches
  <2>. QED BY <1>7, <2>1, <2>2
<1>9. PICK r : r = req[p]
  OBVIOUS
<1>10. r \in Memory /\ req' = [req EXCEPT ![p] = r]
  BY <1>1, <1>9 DEF PaymentsInv, TypeOK, Memory
<1>11. StepOf(r.op, "reload") /\ Knows(r, "reload")' /\ Others(p, r.op)
  BY <1>1, <1>2, <1>9 DEF StepOf, Knows, OnRow, Repairing, Others
<1>. QED BY <1>1, <1>2, <1>8, <1>10, <1>11, Moves DEF Goto, Steps, OnRow

\* Unlink keeps the invariant.
LEMMA UnlinkKeeps ==
    ASSUME PaymentsInv, Separate, NEW p \in Requests, Unlink(p)
    PROVE  PaymentsInv'
<1>1. pc[p] = "unlink" /\ expense' = expense /\ lock' \in [Expenses -> Requests \cup {None}] /\ Goto(p, "find")
  BY DEF Unlink, PaymentsInv, TypeOK
<1>2. StepOf(req[p].op, "unlink") /\ Knows(req[p], "unlink") /\ req[p] \in Memory
  BY <1>1 DEF PaymentsInv, Remembers, TypeOK, Memory
<1>3. /\ req[p].op = "read" /\ req[p].id \in Ids /\ payment[req[p].id] = req[p].row
      /\ Answers(req[p].row) /\ ~Live(req[p].row.movementId)
  BY <1>2 DEF StepOf, Knows, OnRow, Repairing, Answers
<1>4. \A q \in Requests \ {p} : pc[q] = "idle"
  BY <1>1, <1>3, WorksAlone DEF Overlapping
<1>5. PICK i \in Ids : i = req[p].id
  BY <1>3
<1>6. PICK row : row = [payment[i] EXCEPT !.movementId = None]
  OBVIOUS
<1>7. payment[i] \in Payment
  BY DEF PaymentsInv, TypeOK
<1>8. /\ row \in Payment /\ row.exists = payment[i].exists /\ row.active = payment[i].active
      /\ row.status = payment[i].status /\ row.movementId = None /\ row.debt = payment[i].debt
  BY <1>6, <1>7 DEF Payment
<1>9. payment' = [payment EXCEPT ![i] = row]
  BY <1>3, <1>5, <1>6 DEF Unlink, Answers
<1>10. payment' \in [Ids -> Payment] /\ expense' \in [Expenses -> Expense] /\ TablesAgree'
  BY <1>1, <1>3, <1>5, <1>8, <1>9, OneRow DEF Answers, Vouches
<1>11. PICK r : r = [req[p] EXCEPT !.row = row]
  OBVIOUS
<1>12. r \in Memory /\ r.op = req[p].op /\ r.id = i /\ r.row = row
  BY <1>2, <1>5, <1>8, <1>11 DEF Memory
<1>13. req' = [req EXCEPT ![p] = r]
  BY <1>3, <1>5, <1>6, <1>11 DEF Unlink, Keep
<1>14. payment'[i] = row
  BY <1>9 DEF PaymentsInv, TypeOK
<1>15. StepOf(r.op, "find") /\ Knows(r, "find")' /\ Others(p, r.op)
  BY <1>3, <1>4, <1>5, <1>8, <1>12, <1>14 DEF StepOf, Knows, OnRow, Repairing, Others, Answers
<1>. QED BY <1>1, <1>4, <1>10, <1>12, <1>13, <1>15, Moves DEF Goto, Steps, OnRow, Repairing

-----------------------------------------------------------------------------
(* The steps that write or change an expense                                  *)

\* A payment is paid with a new expense of its debt; the other rows stay, save that a
\* free one may become the payment of a remainder.
LEMMA PaidWith ==
    ASSUME PaymentsInv, NEW i \in Ids, NEW m \in Expenses, expense[m].state = "none",
           payment[i].exists, payment[i].active,
           payment[i].status # "PAID" \/ payment[i].movementId = None \/ ~Live(payment[i].movementId),
           payment' \in [Ids -> Payment], expense' \in [Expenses -> Expense],
           \A k \in Expenses : k # m => expense'[k] = expense[k],
           expense'[m].state = "live", expense'[m].debt = payment[i].debt,
           Answers(payment'[i]), payment'[i].movementId = m, payment'[i].debt = payment[i].debt,
           \A j \in Ids \ {i} :
              \/ payment'[j] = payment[j]
              \/ /\ ~payment[j].exists /\ payment[j].debt = None
                 /\ payment'[j].movementId = None /\ payment'[j].debt # None /\ payment'[j].status # "PAID"
    PROVE  TablesAgree' /\ (payment[i].status # "PAID" => Gentle)
<1>1. LinksMatch /\ PaidHasExpense /\ \A k \in Expenses : Live(k) => Backed(k)
  BY DEF PaymentsInv, TablesAgree
<1>2. m # None
  BY PaymentsAssumption DEF Expenses
<1>3. \A j \in Ids : payment[j].movementId # m
  BY <1>1, <1>2 DEF LinksMatch
<1>4. payment[i].debt # None
  BY <1>1 DEF LinksMatch
<1>5. \A j \in Ids : payment[j].movementId = None \/ payment[j].movementId \in Expenses
  BY DEF PaymentsInv, TypeOK, Payment
<1>6. LinksMatch'
  <2>1. ASSUME NEW j \in Ids
        PROVE  /\ payment'[j].exists => payment'[j].debt # None
               /\ payment'[j].movementId # None =>
                     /\ payment'[j].debt # None
                     /\ expense'[payment'[j].movementId].state # "none"
                     /\ expense'[payment'[j].movementId].debt = payment'[j].debt
    <3>1. CASE j = i
      BY <1>4, <3>1
    <3>2. CASE j # i
      BY <1>1, <1>3, <1>5, <3>2 DEF LinksMatch
    <3>. QED BY <3>1, <3>2
  <2>2. ASSUME NEW j \in Ids, NEW k \in Ids, payment'[j].movementId # None,
               payment'[j].movementId = payment'[k].movementId
        PROVE  j = k
    <3>1. j # i => payment'[j] = payment[j]
      BY <2>2
    <3>2. k # i => payment'[k] = payment[k]
      BY <2>2
    <3>. QED BY <1>1, <1>3, <2>2, <3>1, <3>2 DEF LinksMatch
  <2>. QED BY <2>1, <2>2 DEF LinksMatch
<1>7. PaidHasExpense'
  <2>1. ASSUME NEW j \in Ids, payment'[j].exists, payment'[j].active, payment'[j].status = "PAID",
               payment'[j].movementId # None
        PROVE  expense'[payment'[j].movementId].state \in {"live", "absorbed"}
    <3>1. CASE j = i
      BY <3>1
    <3>2. CASE j # i
      BY <1>1, <1>3, <1>5, <2>1, <3>2 DEF PaidHasExpense
    <3>. QED BY <3>1, <3>2
  <2>. QED BY <2>1 DEF PaidHasExpense
<1>8. Backed(m)'
  BY <1>2 DEF Backed, Payers, Answers
<1>9. ASSUME NEW k \in Expenses, k # m, Backed(k), Live(k) \/ payment[i].status # "PAID"
      PROVE  Backed(k)'
  <2>1. CASE expense[k].debt = None
    BY <1>9, <2>1 DEF Backed
  <2>2. CASE expense[k].debt # None
    <3>1. PICK j \in Payers(k) : payment[j].debt = expense[k].debt
      BY <1>9, <2>2 DEF Backed
    <3>2. j \in Ids /\ payment[j].status = "PAID" /\ payment[j].movementId = k
      BY <3>1 DEF Payers
    <3>3. k # None
      BY PaymentsAssumption DEF Expenses
    <3>4. j # i
      BY <1>9, <3>1, <3>2, <3>3
    <3>5. payment'[j] = payment[j] /\ expense'[k] = expense[k]
      BY <1>1, <1>9, <3>2, <3>3, <3>4 DEF LinksMatch
    <3>. QED BY <3>1, <3>2, <3>5 DEF Backed, Payers
  <2>. QED BY <2>1, <2>2
<1>10. TablesAgree'
  BY <1>1, <1>6, <1>7, <1>8, <1>9 DEF TablesAgree, Live
<1>11. payment[i].status # "PAID" => Gentle
  <2>1. \A j \in Ids : payment[j].debt # None => payment'[j].debt = payment[j].debt
    BY <1>4
  <2>2. ASSUME NEW k \in Expenses, expense[k].state # "none", Linked(k) = {} PROVE Linked(k)' = {}
    <3>1. k # m /\ k # None
      BY <2>2, PaymentsAssumption DEF Expenses
    <3>. QED BY <2>2, <3>1 DEF Linked
  <2>. QED BY <1>9, <2>1, <2>2 DEF Gentle
<1>. QED BY <1>10, <1>11

\* Pay keeps the invariant.
LEMMA PayKeeps ==
    ASSUME PaymentsInv, Separate, NEW p \in Requests, Pay(p)
    PROVE  PaymentsInv'
<1>1. pc[p] = "write" /\ req[p].op \in {"pay", "create"} /\ lock' \in [Expenses -> Requests \cup {None}]
  BY DEF Pay, PaymentsInv, TypeOK
<1>2. Knows(req[p], "write") /\ req[p] \in Memory
  BY <1>1 DEF PaymentsInv, Remembers, TypeOK, Memory
<1>3. PICK i \in Ids : i = req[p].id
  BY <1>2 DEF Knows, OnRow
<1>4. PICK row : row = req[p].row
  OBVIOUS
<1>5. PICK a : a = req[p].amount
  OBVIOUS
<1>6. /\ row \in Payment /\ row.debt # None /\ payment[i].debt = row.debt
      /\ a \in Nat \ {0} /\ a <= row.amount
  BY <1>1, <1>2, <1>3, <1>4, <1>5 DEF Knows, Memory
<1>7. payment \in [Ids -> Payment] /\ expense \in [Expenses -> Expense]
  BY DEF PaymentsInv, TypeOK
<1>8. CASE Claimed(i)
  <2>1. PICK m \in Expenses :
          LET paid == [payment EXCEPT ![i].status = "PAID", ![i].movementId = m,
                                      ![i].amount = IF a < row.amount THEN a ELSE @] IN
          /\ FreshExpense(m)
          /\ expense' = [expense EXCEPT ![m] = [state |-> "live", amount |-> a, debt |-> row.debt]]
          /\ \/ a = row.amount /\ payment' = paid
             \/ a < row.amount /\ \E k \in Ids : Fresh(k) /\ payment' = [paid EXCEPT ![k] = Remainder(row, a)]
          /\ IF req[p].op = "create" THEN Goto(p, "answer") /\ UNCHANGED req ELSE End(p)
    BY <1>3, <1>4, <1>5, <1>8 DEF Pay
  <2>2. PICK paid : paid = [payment EXCEPT ![i].status = "PAID", ![i].movementId = m,
                                           ![i].amount = IF a < row.amount THEN a ELSE @]
    OBVIOUS
  <2>3. payment[i] \in Payment /\ payment[i].exists /\ payment[i].active /\ payment[i].status = "VALIDATED"
    BY <1>7, <1>8 DEF Claimed
  <2>4. PICK new : new = [payment[i] EXCEPT !.status = "PAID", !.movementId = m,
                                            !.amount = IF a < row.amount THEN a ELSE @]
    OBVIOUS
  <2>5. new \in Payment /\ Answers(new) /\ new.movementId = m /\ new.debt = payment[i].debt
    BY <1>6, <2>3, <2>4 DEF Payment, Answers, Status
  <2>6. paid \in [Ids -> Payment] /\ \A j \in Ids : paid[j] = IF j = i THEN new ELSE payment[j]
    BY <1>7, <2>2, <2>4, <2>5
  <2>7. /\ payment' \in [Ids -> Payment] /\ payment'[i] = new
        /\ \A j \in Ids \ {i} :
              \/ payment'[j] = payment[j]
              \/ /\ ~payment[j].exists /\ payment[j].debt = None
                 /\ payment'[j].movementId = None /\ payment'[j].debt # None /\ payment'[j].status # "PAID"
    <3>1. CASE payment' = paid
      BY <2>6, <3>1
    <3>2. CASE a < row.amount /\ \E k \in Ids : Fresh(k) /\ payment' = [paid EXCEPT ![k] = Remainder(row, a)]
      <4>1. PICK k \in Ids : Fresh(k) /\ payment' = [paid EXCEPT ![k] = Remainder(row, a)]
        BY <3>2
      <4>2. PICK rest : rest = Remainder(row, a)
        OBVIOUS
      <4>3. rest \in Payment /\ rest.movementId = None /\ rest.debt = row.debt /\ rest.status = "VALIDATED"
        <5>1. row.amount \in Nat /\ row.movementId \in Expenses \cup {None}
          BY <1>6 DEF Payment
        <5>2. PICK left \in Nat : left = row.amount - a
          BY <1>6, <3>2, <5>1
        <5>3. rest = [row EXCEPT !.amount = left, !.status = "VALIDATED", !.movementId = None]
          BY <4>2, <5>2 DEF Remainder
        <5>. QED BY <1>6, <5>3 DEF Payment, Status
      <4>4. ~payment[k].exists /\ payment[k].debt = None /\ k # i
        BY <2>3, <4>1 DEF Fresh
      <4>5. \A j \in Ids : payment'[j] = IF j = k THEN rest ELSE paid[j]
        BY <2>6, <4>1, <4>2
      <4>6. payment' \in [Ids -> Payment]
        BY <2>6, <4>1, <4>2, <4>3
      <4>. QED BY <1>6, <2>6, <4>3, <4>4, <4>5, <4>6
    <3>. QED BY <2>1, <2>2, <3>1, <3>2
  <2>8. PICK spent : spent = [state |-> "live", amount |-> a, debt |-> row.debt]
    OBVIOUS
  <2>9. spent \in Expense /\ spent.state = "live" /\ spent.debt = row.debt
    BY <1>6, <2>8 DEF Expense, Payment
  <2>10. /\ expense' \in [Expenses -> Expense] /\ expense'[m] = spent
         /\ \A k \in Expenses : k # m => expense'[k] = expense[k]
    BY <1>7, <2>1, <2>8, <2>9
  <2>11. TablesAgree' /\ Gentle
    BY <1>6, <2>1, <2>3, <2>5, <2>7, <2>9, <2>10, PaidWith DEF FreshExpense
  <2>12. \A q \in Requests \ {p} : pc[q] = "idle" \/ req[q].op \in Together
    BY <1>1, Company DEF Others
  <2>13. CASE req[p].op # "create"
    BY <1>1, <2>1, <2>7, <2>10, <2>11, <2>12, <2>13, Ends
  <2>14. CASE req[p].op = "create"
    <3>1. PICK r : r = req[p]
      OBVIOUS
    <3>2. r \in Memory /\ Goto(p, "answer") /\ req' = [req EXCEPT ![p] = r]
      BY <1>2, <2>1, <2>14, <3>1 DEF PaymentsInv, TypeOK
    <3>3. StepOf(r.op, "answer") /\ Knows(r, "answer")'
      BY <1>3, <2>14, <3>1 DEF StepOf, Knows, OnRow, Repairing
    <3>4. Others(p, r.op)
      BY <1>1, <3>1, Company
    <3>. QED BY <2>7, <2>10, <2>11, <2>12, <1>1, <3>2, <3>3, <3>4, Moves DEF Goto, Steps, OnRow
  <2>. QED BY <2>13, <2>14
<1>9. CASE ~Claimed(i)
  <2>1. Refuse(p) /\ UNCHANGED <<payment, expense>>
    BY <1>3, <1>9 DEF Pay
  <2>. QED BY <1>1, <2>1, Refuses, GoesOn DEF OnRow, Steps
<1>. QED BY <1>8, <1>9

\* Recreate keeps the invariant.
LEMMA RecreateKeeps ==
    ASSUME PaymentsInv, Separate, NEW p \in Requests, RecreateMovement(p)
    PROVE  PaymentsInv'
<1>1. pc[p] = "recreate" /\ lock' \in [Expenses -> Requests \cup {None}] /\ End(p)
  BY DEF RecreateMovement, PaymentsInv, TypeOK
<1>2. StepOf(req[p].op, "recreate") /\ Knows(req[p], "recreate") /\ req[p] \in Memory
  BY <1>1 DEF PaymentsInv, Remembers, TypeOK, Memory
<1>3. PICK i \in Ids : i = req[p].id
  BY <1>2 DEF Knows, OnRow, Repairing
<1>4. PICK row : row = req[p].row
  OBVIOUS
<1>5. /\ row \in Payment /\ payment[i] = row /\ Answers(row)
      /\ row.movementId = None \/ ~Live(row.movementId)
  BY <1>2, <1>3, <1>4 DEF Knows, Memory, Repairing, Answers
<1>6. \A q \in Requests \ {p} : pc[q] = "idle"
  BY <1>1, <1>2, WorksAlone DEF Overlapping, StepOf
<1>7. payment \in [Ids -> Payment] /\ expense \in [Expenses -> Expense]
  BY DEF PaymentsInv, TypeOK
<1>8. PICK m \in Expenses :
        /\ FreshExpense(m)
        /\ expense' = [expense EXCEPT ![m] = [state |-> "live", amount |-> row.amount, debt |-> row.debt]]
        /\ payment' = [payment EXCEPT ![i].movementId = IF @ # m /\ payment[i].exists THEN m ELSE @]
  BY <1>3, <1>4 DEF RecreateMovement
<1>9. PICK new : new = [payment[i] EXCEPT !.movementId = m]
  OBVIOUS
<1>10. new \in Payment /\ Answers(new) /\ new.movementId = m /\ new.debt = row.debt
  BY <1>5, <1>9 DEF Payment, Answers
<1>11. payment' = [payment EXCEPT ![i] = new]
  <2>1. payment[i].movementId # m
    BY <1>8, PaymentsAssumption DEF PaymentsInv, TablesAgree, LinksMatch, FreshExpense, Expenses
  <2>. QED BY <1>5, <1>8, <1>9, <2>1 DEF Answers
<1>12. payment' \in [Ids -> Payment] /\ \A j \in Ids : payment'[j] = IF j = i THEN new ELSE payment[j]
  BY <1>7, <1>10, <1>11
<1>13. PICK spent : spent = [state |-> "live", amount |-> row.amount, debt |-> row.debt]
  OBVIOUS
<1>14. spent \in Expense /\ spent.state = "live" /\ spent.debt = row.debt
  BY <1>5, <1>13 DEF Expense, Payment
<1>15. /\ expense' \in [Expenses -> Expense] /\ expense'[m] = spent
       /\ \A k \in Expenses : k # m => expense'[k] = expense[k]
  BY <1>7, <1>8, <1>13, <1>14
<1>16. TablesAgree'
  BY <1>5, <1>8, <1>10, <1>12, <1>14, <1>15, PaidWith DEF FreshExpense, Answers
<1>. QED BY <1>1, <1>6, <1>12, <1>15, <1>16, Ends

\* An expense that is answered for is written with another amount.
LEMMA Amends ==
    ASSUME PaymentsInv, NEW m \in Expenses, expense[m].state # "none", Backed(m),
           payment' \in [Ids -> Payment], expense' \in [Expenses -> Expense],
           \A k \in Expenses : k # m => expense'[k] = expense[k],
           expense'[m].state = "live", expense'[m].debt = expense[m].debt,
           \A j \in Ids : /\ payment'[j].exists = payment[j].exists /\ payment'[j].active = payment[j].active
                          /\ payment'[j].status = payment[j].status /\ payment'[j].debt = payment[j].debt
                          /\ payment'[j].movementId = payment[j].movementId
    PROVE  TablesAgree' /\ Gentle
<1>1. \A j \in Ids : payment[j].movementId = None \/ payment[j].movementId \in Expenses
  BY DEF PaymentsInv, TypeOK, Payment
<1>2. \A k \in Expenses : expense'[k].debt = expense[k].debt /\ Linked(k)' = Linked(k) /\ Payers(k)' = Payers(k)
  BY DEF Linked, Payers
<1>3. \A k \in Expenses : Backed(k) => Backed(k)'
  BY <1>2 DEF Backed, Payers
<1>4. LinksMatch'
  BY <1>1, <1>2 DEF PaymentsInv, TablesAgree, LinksMatch
<1>5. PaidHasExpense'
  BY <1>1 DEF PaymentsInv, TablesAgree, PaidHasExpense
<1>6. \A k \in Expenses : Live(k)' => Live(k) \/ k = m
  BY DEF Live
<1>. QED BY <1>2, <1>3, <1>4, <1>5, <1>6 DEF PaymentsInv, TablesAgree, Gentle

\* SaveMovement keeps the invariant.
LEMMA SaveMovementKeeps ==
    ASSUME PaymentsInv, Separate, NEW p \in Requests, SaveMovement(p)
    PROVE  PaymentsInv'
<1>1. /\ pc[p] = "save" /\ lock' \in [Expenses -> Requests \cup {None}] /\ End(p) /\ payment' = payment
      /\ payment \in [Ids -> Payment] /\ expense \in [Expenses -> Expense]
  BY DEF SaveMovement, PaymentsInv, TypeOK
<1>2. StepOf(req[p].op, "save") /\ Knows(req[p], "save") /\ req[p] \in Memory
  BY <1>1 DEF PaymentsInv, Remembers, TypeOK, Memory
<1>3. /\ req[p].row.movementId \in Expenses /\ Live(req[p].row.movementId) /\ req[p].row.amount \in Nat
  BY <1>2 DEF Knows, Memory, Payment
<1>4. \A q \in Requests \ {p} : pc[q] = "idle"
  BY <1>1, <1>2, WorksAlone DEF Overlapping, StepOf
<1>5. PICK m \in Expenses : m = req[p].row.movementId
  BY <1>3
<1>6. PICK new : new = [expense[m] EXCEPT !.state = "live", !.amount = req[p].row.amount]
  OBVIOUS
<1>7. new \in Expense /\ new.state = "live" /\ new.debt = expense[m].debt
  BY <1>1, <1>3, <1>6 DEF Expense
<1>8. expense' = [expense EXCEPT ![m] = new]
  BY <1>5, <1>6 DEF SaveMovement
<1>9. expense' \in [Expenses -> Expense] /\ \A k \in Expenses : expense'[k] = IF k = m THEN new ELSE expense[k]
  BY <1>1, <1>7, <1>8
<1>10. expense[m].state # "none" /\ Backed(m)
  BY <1>3, <1>5 DEF Live, PaymentsInv, TablesAgree
<1>11. TablesAgree'
  BY <1>1, <1>7, <1>9, <1>10, Amends
<1>. QED BY <1>1, <1>4, <1>9, <1>11, Ends

\* Sync keeps the invariant.
LEMMA SyncKeeps ==
    ASSUME PaymentsInv, Separate, NEW p \in Requests, SyncLinkedPayment(p)
    PROVE  PaymentsInv'
<1>1. /\ pc[p] = "sync" /\ End(p)
      /\ payment \in [Ids -> Payment] /\ expense \in [Expenses -> Expense]
  BY DEF SyncLinkedPayment, PaymentsInv, TypeOK
<1>2. Knows(req[p], "sync") /\ req[p] \in Memory
  BY <1>1 DEF PaymentsInv, Remembers, TypeOK, Memory
<1>3. /\ req[p].m \in Expenses /\ expense[req[p].m].state # "none" /\ Backed(req[p].m)
      /\ req[p].amount \in Nat /\ req[p].id \in Ids \cup {None}
  BY <1>2 DEF Knows, Memory
<1>4. PICK m \in Expenses : m = req[p].m
  BY <1>3
<1>5. PICK a \in Nat : a = req[p].amount
  BY <1>3
<1>6. PICK i : i = req[p].id
  OBVIOUS
<1>7. PICK new : new = [expense[m] EXCEPT !.state = "live", !.amount = a]
  OBVIOUS
<1>8. new \in Expense /\ new.state = "live" /\ new.debt = expense[m].debt
  BY <1>1, <1>7 DEF Expense
<1>9. expense' = [expense EXCEPT ![m] = new]
  BY <1>4, <1>5, <1>7 DEF SyncLinkedPayment
<1>10. expense' \in [Expenses -> Expense] /\ \A k \in Expenses : expense'[k] = IF k = m THEN new ELSE expense[k]
  BY <1>1, <1>8, <1>9
<1>11. payment' = payment \/ (i \in Ids /\ payment' = [payment EXCEPT ![i].amount = a])
  BY <1>3, <1>5, <1>6 DEF SyncLinkedPayment
<1>12. /\ payment' \in [Ids -> Payment]
       /\ \A j \in Ids : /\ payment'[j].exists = payment[j].exists /\ payment'[j].active = payment[j].active
                         /\ payment'[j].status = payment[j].status /\ payment'[j].debt = payment[j].debt
                         /\ payment'[j].movementId = payment[j].movementId
  <2>1. CASE payment' = payment
    BY <1>1, <2>1
  <2>2. CASE i \in Ids /\ payment' = [payment EXCEPT ![i].amount = a]
    <3>1. PICK row : row = [payment[i] EXCEPT !.amount = a]
      OBVIOUS
    <3>2. /\ row \in Payment /\ row.exists = payment[i].exists /\ row.active = payment[i].active
          /\ row.status = payment[i].status /\ row.movementId = payment[i].movementId /\ row.debt = payment[i].debt
      BY <1>1, <2>2, <3>1 DEF Payment
    <3>3. payment' = [payment EXCEPT ![i] = row]
      BY <2>2, <3>1
    <3>. QED BY <1>1, <2>2, <3>2, <3>3
  <2>. QED BY <1>11, <2>1, <2>2
<1>13. TablesAgree' /\ Gentle
  BY <1>3, <1>4, <1>8, <1>10, <1>12, Amends
<1>14. lock' \in [Expenses -> Requests \cup {None}]
  BY DEF SyncLinkedPayment, PaymentsInv, TypeOK
<1>15. \A q \in Requests \ {p} : pc[q] = "idle" \/ req[q].op \in Together
  BY <1>1, Company DEF Others
<1>. QED BY <1>1, <1>10, <1>12, <1>13, <1>14, <1>15, Ends

\* An expense goes: a closing absorbs it, or somebody removes one that no payment links.
LEMMA Withdraws ==
    ASSUME PaymentsInv, NEW m \in Expenses, NEW s \in {"removed", "absorbed"}, expense[m].state # "none",
           s = "removed" => Linked(m) = {},
           payment' = payment, expense' = [expense EXCEPT ![m].state = s]
    PROVE  payment' \in [Ids -> Payment] /\ expense' \in [Expenses -> Expense] /\ TablesAgree' /\ Gentle
<1>1. payment \in [Ids -> Payment] /\ expense \in [Expenses -> Expense]
  BY DEF PaymentsInv, TypeOK
<1>2. PICK new : new = [expense[m] EXCEPT !.state = s]
  OBVIOUS
<1>3. new \in Expense /\ new.state = s /\ new.debt = expense[m].debt
  BY <1>1, <1>2 DEF Expense
<1>4. expense' \in [Expenses -> Expense] /\ \A k \in Expenses : expense'[k] = IF k = m THEN new ELSE expense[k]
  BY <1>1, <1>2, <1>3
<1>5. \A j \in Ids : payment[j].movementId = None \/ payment[j].movementId \in Expenses
  BY <1>1 DEF Payment
<1>6. \A k \in Expenses : expense'[k].debt = expense[k].debt /\ Linked(k)' = Linked(k) /\ Payers(k)' = Payers(k)
  BY <1>3, <1>4 DEF Linked, Payers
<1>7. \A k \in Expenses : Backed(k) => Backed(k)'
  BY <1>6 DEF Backed, Payers
<1>8. LinksMatch'
  BY <1>3, <1>4, <1>5 DEF PaymentsInv, TablesAgree, LinksMatch
<1>9. PaidHasExpense'
  BY <1>3, <1>4, <1>5 DEF PaymentsInv, TablesAgree, PaidHasExpense, Linked
<1>10. \A k \in Expenses : Live(k)' => Live(k)
  BY <1>3, <1>4 DEF Live
<1>11. Gentle
  BY <1>3, <1>4, <1>6, <1>7 DEF Gentle
<1>. QED BY <1>1, <1>4, <1>7, <1>8, <1>9, <1>10, <1>11 DEF PaymentsInv, TablesAgree

\* SoftRemove keeps the invariant.
LEMMA SoftRemoveKeeps ==
    ASSUME PaymentsInv, Separate, NEW p \in Requests, SoftRemove(p)
    PROVE  PaymentsInv'
<1>1. pc[p] = "softRemove" /\ lock' \in [Expenses -> Requests \cup {None}] /\ End(p)
  BY DEF SoftRemove, PaymentsInv, TypeOK
<1>2. Knows(req[p], "softRemove")
  BY <1>1 DEF PaymentsInv, Remembers
<1>3. PICK m \in Expenses : m = req[p].m
  BY <1>2 DEF Knows
<1>4. expense[m].state # "none" /\ Linked(m) = {}
  BY <1>2, <1>3 DEF Knows
<1>5. payment' = payment /\ expense' = [expense EXCEPT ![m].state = "removed"]
  BY <1>3 DEF SoftRemove
<1>6. payment' \in [Ids -> Payment] /\ expense' \in [Expenses -> Expense] /\ TablesAgree' /\ Gentle
  BY <1>4, <1>5, Withdraws
<1>7. \A q \in Requests \ {p} : pc[q] = "idle" \/ req[q].op \in Together
  BY <1>1, Company DEF Others
<1>. QED BY <1>1, <1>6, <1>7, Ends

\* A request that does all of its work at once.
LEMMA AtOnce ==
    ASSUME PaymentsInv, Separate, NEW p \in Requests, pc[p] = "idle", UNCHANGED <<pc, req, lock>>,
           payment' \in [Ids -> Payment], expense' \in [Expenses -> Expense], TablesAgree',
           \A q \in Requests \ {p} : pc[q] = "idle" \/ (req[q].op \in Together /\ Gentle)
    PROVE  PaymentsInv'
<1>1. PICK r : r = req[p]
  OBVIOUS
<1>2. /\ r \in Memory /\ req' = [req EXCEPT ![p] = r] /\ pc' = [pc EXCEPT ![p] = "idle"]
      /\ lock' \in [Expenses -> Requests \cup {None}]
  BY <1>1 DEF PaymentsInv, TypeOK, Memory
<1>3. StepOf(r.op, "idle") /\ Knows(r, "idle")'
  BY Nothing DEF Knows, OnRow, Repairing
<1>. QED BY <1>2, <1>3, Moves DEF Steps

\* Absorb keeps the invariant.
LEMMA AbsorbKeeps ==
    ASSUME PaymentsInv, Separate, NEW p \in Requests, NEW m \in Expenses, Absorb(p, m)
    PROVE  PaymentsInv'
<1>1. expense[m].state # "none" /\ payment' = payment /\ expense' = [expense EXCEPT ![m].state = "absorbed"]
  BY DEF Absorb, Live
<1>2. payment' \in [Ids -> Payment] /\ expense' \in [Expenses -> Expense] /\ TablesAgree' /\ Gentle
  BY <1>1, Withdraws
<1>3. \A q \in Requests \ {p} : pc[q] = "idle" \/ req[q].op \in Together
  BY BeginsAlone DEF Absorb
<1>. QED BY <1>2, <1>3, AtOnce DEF Absorb, MayBegin

\* Spend keeps the invariant.
LEMMA SpendKeeps ==
    ASSUME PaymentsInv, Separate, NEW p \in Requests, NEW m \in Expenses, NEW a \in Amounts, Spend(p, m, a)
    PROVE  PaymentsInv'
<1>1. payment \in [Ids -> Payment] /\ expense \in [Expenses -> Expense] /\ a \in Nat
  BY PaymentsAssumption DEF PaymentsInv, TypeOK
<1>2. expense[m].state = "none" /\ payment' = payment
  BY DEF Spend, FreshExpense
<1>3. PICK new : new = [NoExpense EXCEPT !.state = "live", !.amount = a]
  OBVIOUS
<1>4. new \in Expense /\ new.state = "live" /\ new.debt = None
  BY <1>1, <1>3 DEF NoExpense, Expense
<1>5. expense' = [expense EXCEPT ![m] = new]
  BY <1>3 DEF Spend
<1>6. expense' \in [Expenses -> Expense] /\ \A k \in Expenses : expense'[k] = IF k = m THEN new ELSE expense[k]
  BY <1>1, <1>4, <1>5
<1>7. \A j \in Ids : payment[j].movementId = None \/ payment[j].movementId \in Expenses
  BY <1>1 DEF Payment
<1>8. \A j \in Ids : payment[j].movementId # m
  BY <1>2, PaymentsAssumption DEF PaymentsInv, TablesAgree, LinksMatch, Expenses
<1>9. LinksMatch' /\ PaidHasExpense'
  BY <1>2, <1>6, <1>7, <1>8 DEF PaymentsInv, TablesAgree, LinksMatch, PaidHasExpense
<1>10. \A k \in Expenses : k # m /\ Backed(k) => Backed(k)'
  BY <1>2, <1>6 DEF Backed, Payers
<1>11. Backed(m)'
  BY <1>4, <1>6 DEF Backed
<1>12. TablesAgree' /\ Gentle
  BY <1>2, <1>6, <1>9, <1>10, <1>11 DEF PaymentsInv, TablesAgree, Gentle, Live, Linked
<1>13. \A q \in Requests \ {p} : pc[q] = "idle" \/ req[q].op \in Together
  BY BeginsAlone DEF Spend
<1>. QED BY <1>1, <1>2, <1>6, <1>12, <1>13, AtOnce DEF Spend, MayBegin

\* Create keeps the invariant.
LEMMA CreateKeeps ==
    ASSUME PaymentsInv, Separate, NEW p \in Requests, NEW s \in Status, NEW a \in Amounts, CreatePayment(p, s, a)
    PROVE  PaymentsInv'
<1>1. payment \in [Ids -> Payment] /\ expense \in [Expenses -> Expense] /\ a \in Nat
  BY PaymentsAssumption DEF PaymentsInv, TypeOK
<1>2. PICK i \in Ids, d \in Debts :
        /\ Fresh(i)
        /\ payment' = [payment EXCEPT ![i] = [exists |-> TRUE, active |-> TRUE, status |-> "PENDING",
                                              amount |-> a, movementId |-> None, debt |-> d]]
        /\ IF s = "PENDING" THEN End(p)
           ELSE Goto(p, "setStatus")
                /\ Keep(p, [NoRequest EXCEPT !.op = "create", !.id = i, !.requested = s])
  BY DEF CreatePayment
<1>3. PICK row : row = [exists |-> TRUE, active |-> TRUE, status |-> "PENDING",
                        amount |-> a, movementId |-> None, debt |-> d]
  OBVIOUS
<1>4. row \in Payment /\ row.status = "PENDING" /\ row.movementId = None /\ row.debt # None
  BY <1>1, <1>3, PaymentsAssumption DEF Payment, Status
<1>5. payment' \in [Ids -> Payment] /\ \A j \in Ids : payment'[j] = IF j = i THEN row ELSE payment[j]
  BY <1>1, <1>2, <1>3, <1>4
<1>6. ~payment[i].exists /\ expense' = expense /\ lock' \in [Expenses -> Requests \cup {None}]
  BY <1>2 DEF Fresh, CreatePayment, PaymentsInv, TypeOK
<1>7. LinksMatch' /\ PaidHasExpense'
  BY <1>4, <1>5, <1>6 DEF PaymentsInv, TablesAgree, LinksMatch, PaidHasExpense
<1>8. \A m \in Expenses : Backed(m) => Backed(m)'
  <2>1. \A m \in Expenses : payment[i].movementId # m
    BY <1>2, PaymentsAssumption DEF Fresh, PaymentsInv, TablesAgree, LinksMatch, Expenses
  <2>. QED BY <1>5, <1>6, <2>1 DEF Backed, Payers
<1>9. TablesAgree'
  BY <1>6, <1>7, <1>8 DEF PaymentsInv, TablesAgree, Live
<1>10. \A q \in Requests \ {p} : pc[q] = "idle"
  BY BeginsAlone DEF CreatePayment, Overlapping
<1>11. CASE End(p)
  BY <1>1, <1>5, <1>6, <1>9, <1>10, <1>11, Ends
<1>12. CASE ~End(p)
  <2>1. PICK r : r = [NoRequest EXCEPT !.op = "create", !.id = i, !.requested = s]
    OBVIOUS
  <2>2. Goto(p, "setStatus") /\ Keep(p, r)
    BY <1>2, <1>12, <2>1
  <2>3. r \in Memory /\ r.op = "create" /\ r.id = i
    BY <2>1, Nothing DEF NoRequest, Memory, AllOps
  <2>4. StepOf(r.op, "setStatus") /\ Knows(r, "setStatus")'
    BY <1>4, <1>5, <2>3 DEF StepOf, Knows, OnRow, Repairing
  <2>5. Others(p, r.op)
    BY <1>10 DEF Others
  <2>. QED BY <1>1, <1>5, <1>6, <1>9, <1>10, <2>2, <2>3, <2>4, <2>5, Moves DEF Goto, Keep, Steps, OnRow
<1>. QED BY <1>11, <1>12

\* Unpay takes the payment and the expense back together.
LEMMA UnpayKeeps ==
    ASSUME PaymentsInv, Separate, NEW p \in Requests, Unpay(p)
    PROVE  PaymentsInv'
<1>1. /\ pc[p] = "write" /\ req[p].op = "revert" /\ lock' \in [Expenses -> Requests \cup {None}] /\ End(p)
      /\ payment \in [Ids -> Payment] /\ expense \in [Expenses -> Expense]
  BY DEF Unpay, PaymentsInv, TypeOK
<1>2. /\ req[p].id \in Ids /\ payment[req[p].id] = req[p].row
      /\ \A q \in Requests \ {p} : pc[q] = "idle"
  BY <1>1, AsLoaded DEF Overlapping
<1>3. PICK i \in Ids : i = req[p].id
  BY <1>2
<1>4. PICK m \in Expenses \cup {None} : m = payment[i].movementId
  BY <1>1 DEF Payment
<1>5. CASE UNCHANGED <<payment, expense>>
  BY <1>1, <1>2, <1>5, Quiet, Ends
<1>6. CASE ~UNCHANGED <<payment, expense>>
  <2>1. /\ payment' = [payment EXCEPT ![i].status = "VALIDATED", ![i].movementId = None]
        /\ expense' = IF m # None /\ Live(m) THEN [expense EXCEPT ![m].state = "removed"] ELSE expense
    BY <1>2, <1>3, <1>4, <1>6 DEF Unpay
  <2>2. PICK new : new = [payment[i] EXCEPT !.status = "VALIDATED", !.movementId = None]
    OBVIOUS
  <2>3. /\ new \in Payment /\ new.exists = payment[i].exists /\ new.status = "VALIDATED"
        /\ new.movementId = None /\ new.debt = payment[i].debt
    BY <1>1, <2>2 DEF Payment, Status
  <2>4. payment' \in [Ids -> Payment] /\ \A j \in Ids : payment'[j] = IF j = i THEN new ELSE payment[j]
    BY <1>1, <2>1, <2>2, <2>3
  <2>5. expense' \in [Expenses -> Expense]
    BY <1>1, <2>1 DEF Expense
  <2>6. \A k \in Expenses : /\ expense'[k].debt = expense[k].debt
                            /\ k # m => expense'[k] = expense[k]
                            /\ expense[k].state # "none" => expense'[k].state # "none"
                            /\ Live(k)' => Live(k) /\ k # m
    BY <1>1, <2>1, PaymentsAssumption DEF Expense, Live, Expenses
  <2>7. \A j \in Ids : payment[j].movementId = None \/ payment[j].movementId \in Expenses
    BY <1>1 DEF Payment
  <2>8. \A j \in Ids \ {i} : payment[j].movementId = None \/ payment[j].movementId # m
    BY <1>4 DEF PaymentsInv, TablesAgree, LinksMatch
  <2>9. LinksMatch'
    BY <2>3, <2>4, <2>6, <2>7 DEF PaymentsInv, TablesAgree, LinksMatch
  <2>10. PaidHasExpense'
    BY <2>3, <2>4, <2>6, <2>7, <2>8 DEF PaymentsInv, TablesAgree, PaidHasExpense
  <2>11. ASSUME NEW k \in Expenses, Live(k)'
         PROVE  Backed(k)'
    <3>1. Live(k) /\ k # m
      BY <2>6, <2>11
    <3>2. Backed(k)
      BY <3>1 DEF PaymentsInv, TablesAgree
    <3>3. \A j \in Payers(k) : j # i /\ j \in Ids /\ payment'[j] = payment[j]
      BY <1>4, <2>4, <3>1 DEF Payers
    <3>. QED BY <2>6, <3>2, <3>3 DEF Backed, Payers
  <2>12. TablesAgree'
    BY <2>9, <2>10, <2>11 DEF TablesAgree
  <2>. QED BY <1>1, <1>2, <2>4, <2>5, <2>12, Ends
<1>. QED BY <1>5, <1>6

-----------------------------------------------------------------------------
(* The theorems                                                               *)

\* Every step of every request keeps the invariant.
LEMMA NextKeeps == Separate /\ PaymentsInv /\ [Next]_vars => PaymentsInv'
<1> SUFFICES ASSUME Separate, PaymentsInv, [Next]_vars PROVE PaymentsInv'
  OBVIOUS
<1>1. CASE UNCHANGED vars
  BY <1>1 DEF vars, PaymentsInv, TypeOK, RunsAlone, TablesAgree, LinksMatch, PaidHasExpense, Backed, Payers, Live, Linked,
              Remembers, Knows
<1>2. ASSUME NEW p \in Requests, Begin(p) PROVE PaymentsInv'
  BY <1>2, CreateKeeps, AsksKeep, EditKeeps, SpendKeeps, RemoveExpenseKeeps, AbsorbKeeps DEF Begin
<1>3. ASSUME NEW p \in Requests, Step(p) PROVE PaymentsInv'
  <2>1. CASE SetRequested(p) \/ DropCreated(p) \/ \E a \in 0..Max(Amounts) : Load(p, a)
    BY <2>1, SetRequestedKeeps, DropKeeps, LoadKeeps
  <2>2. CASE Validate(p) \/ Reject(p) \/ Cancel(p) \/ Remove(p) \/ Unvalidate(p)
    BY <2>2, ValidateKeeps, SetsStatusKeeps, RemoveKeeps
  <2>3. CASE Pay(p) \/ Answer(p) \/ Unpay(p) \/ Update(p) \/ Reload(p) \/ IsLive(p) \/ Unlink(p)
    BY <2>3, PayKeeps, AnswerKeeps, UnpayKeeps, UpdateKeeps, ReloadKeeps, IsLiveKeeps, UnlinkKeeps
  <2>4. CASE FindMovement(p) \/ SaveMovement(p) \/ RecreateMovement(p)
    BY <2>4, FindKeeps, SaveMovementKeeps, RecreateKeeps
  <2>5. CASE SaveExpense(p) \/ SyncLinkedPayment(p) \/ SoftRemove(p)
    BY <2>5, SaveExpenseKeeps, SyncKeeps, SoftRemoveKeeps
  <2>. QED BY <1>3, <2>1, <2>2, <2>3, <2>4, <2>5 DEF Step
<1>4. ASSUME NEW p \in Requests, Fails(p) \/ Dies(p) PROVE PaymentsInv'
  BY <1>4, FailsKeeps
<1>. QED BY <1>1, <1>2, <1>3, <1>4 DEF Next

\* The invariant holds at the start.
LEMMA InitKeeps == Init => PaymentsInv
<1> SUFFICES ASSUME Init PROVE PaymentsInv
  OBVIOUS
<1>1. \A i \in Ids : payment[i] = NoPayment
  BY DEF Init
<1>2. \A m \in Expenses : expense[m] = NoExpense
  BY DEF Init
<1>3. TypeOK
  BY Nothing DEF Init, TypeOK, Memory
<1>4. RunsAlone
  BY DEF Init, RunsAlone
<1>5. TablesAgree
  BY <1>1, <1>2 DEF TablesAgree, LinksMatch, PaidHasExpense, Backed, Live, NoPayment, NoExpense
<1>6. \A p \in Requests : Remembers(p)
  BY Nothing DEF Init, Remembers
<1>. QED BY <1>3, <1>4, <1>5, <1>6 DEF PaymentsInv

\* The invariant holds whenever what takes payments back runs alone.
THEOREM PaymentsStayInOrder ==
    ASSUME Separate
    PROVE  Spec => []PaymentsInv
<1>1. PaymentsInv /\ [Next]_vars => PaymentsInv'
  BY NextKeeps
<1>. QED BY <1>1, InitKeeps, PTL DEF Spec

\* However validations, payments, and editions, removals and absorptions of expenses overlap
\* and fail: the ledger holds no expense of a debt without the paid payment that answers
\* for it (or, after a creation that paid and then failed, that was deleted), and a payment
\* that says what it was paid with was paid with that.
THEOREM PaidIsSpent ==
    ASSUME Separate
    PROVE  Spec => []PaidAndSpentMatch
<1>1. PaymentsInv => PaidAndSpentMatch
  BY DEF PaymentsInv, TablesAgree, PaidAndSpentMatch, NoOrphanExpense, Backed
<1>. QED BY <1>1, PaymentsStayInOrder, PTL
-----------------------------------------------------------------------------
(* The books                                                                  *)

\* What a row is worth to the part of a debt that is owed or that is settled, and an
\* expense to what was spent on it.
Unpaid(row, d)  == row.exists /\ row.active /\ row.debt = d /\ row.status # "PAID"
Paid(row, d)    == row.exists /\ row.active /\ row.debt = d /\ row.status = "PAID"
ToPay(row, d)   == IF Unpaid(row, d) THEN row.amount ELSE 0
WasPaid(row, d) == IF Paid(row, d) THEN row.amount ELSE 0
Cost(e, d)      == IF e.state = "live" /\ e.debt = d THEN e.amount ELSE 0

\* The sums of the books, of any table.
OwedIn(rows, d)    == SumFunctionOnSet([i \in Ids |-> rows[i].amount], {i \in Ids : Unpaid(rows[i], d)})
SettledIn(rows, d) == SumFunctionOnSet([i \in Ids |-> rows[i].amount], {i \in Ids : Paid(rows[i], d)})
SpentIn(es, d) == SumFunctionOnSet([m \in Expenses |-> es[m].amount], {m \in Expenses : es[m].state = "live" /\ es[m].debt = d})

\* The books of a state, and of the next one, as sums over its tables.
LEMMA BooksAreSums ==
    /\ Owed = [d \in Debts |-> OwedIn(payment, d)] /\ Settled = [d \in Debts |-> SettledIn(payment, d)]
    /\ Spent = [d \in Debts |-> SpentIn(expense, d)]
    /\ Owed' = [d \in Debts |-> OwedIn(payment', d)] /\ Settled' = [d \in Debts |-> SettledIn(payment', d)]
    /\ Spent' = [d \in Debts |-> SpentIn(expense', d)]
<1>1. \A d : /\ Rows(d, FALSE) = {i \in Ids : Unpaid(payment[i], d)} /\ Rows(d, TRUE) = {i \in Ids : Paid(payment[i], d)}
             /\ Expended(d) = {m \in Expenses : expense[m].state = "live" /\ expense[m].debt = d}
  BY DEF Rows, Unpaid, Paid, Expended, Live
<1>2. \A d : /\ Rows(d, FALSE)' = {i \in Ids : Unpaid(payment'[i], d)} /\ Rows(d, TRUE)' = {i \in Ids : Paid(payment'[i], d)}
             /\ Expended(d)' = {m \in Expenses : expense'[m].state = "live" /\ expense'[m].debt = d}
  BY DEF Rows, Unpaid, Paid, Expended, Live
<1>. QED BY <1>1, <1>2 DEF Owed, Settled, Spent, Amount, OwedIn, SettledIn, SpentIn

\* There are finitely many rows.
LEMMA TablesAreFinite == IsFiniteSet(Ids) /\ IsFiniteSet(Expenses)
BY FS_Interval, PaymentsAssumption DEF Ids, Expenses

\* No sum of the books is negative.
LEMMA SumsAreNatural ==
    /\ \A rows \in [Ids -> Payment] : \A d : OwedIn(rows, d) \in Nat /\ SettledIn(rows, d) \in Nat
    /\ \A es \in [Expenses -> Expense] : \A d : SpentIn(es, d) \in Nat
<1>1. ASSUME NEW rows \in [Ids -> Payment], NEW d PROVE OwedIn(rows, d) \in Nat /\ SettledIn(rows, d) \in Nat
  <2>1. IsFiniteSet({i \in Ids : Unpaid(rows[i], d)}) /\ IsFiniteSet({i \in Ids : Paid(rows[i], d)})
    BY TablesAreFinite, FS_Subset
  <2>2. \A i \in Ids : [j \in Ids |-> rows[j].amount][i] \in Nat
    BY DEF Payment
  <2>. QED BY <2>1, <2>2, SumIsNatural DEF OwedIn, SettledIn
<1>2. ASSUME NEW es \in [Expenses -> Expense], NEW d PROVE SpentIn(es, d) \in Nat
  <2>1. IsFiniteSet({m \in Expenses : es[m].state = "live" /\ es[m].debt = d})
    BY TablesAreFinite, FS_Subset
  <2>2. \A m \in Expenses : [k \in Expenses |-> es[k].amount][m] \in Nat
    BY DEF Expense
  <2>. QED BY <2>1, <2>2, SumIsNatural DEF SpentIn
<1>. QED BY <1>1, <1>2

\* One row of a table changes: a sum over some of its rows changes by what it is worth.
LEMMA SumOfRows ==
    ASSUME NEW K, IsFiniteSet(K), NEW rows, NEW new, NEW i \in K, NEW S \in SUBSET K, NEW T \in SUBSET K,
           \A j \in K : rows[j].amount \in Nat /\ new[j].amount \in Nat /\ (j # i => new[j] = rows[j]),
           S \ {i} = T \ {i}
    PROVE  SumFunctionOnSet([j \in K |-> new[j].amount], T)
             = SumFunctionOnSet([j \in K |-> rows[j].amount], S)
                 - (IF i \in S THEN rows[i].amount ELSE 0) + (IF i \in T THEN new[i].amount ELSE 0)
<1>1. PICK f, g : f = [j \in K |-> rows[j].amount] /\ g = [j \in K |-> new[j].amount]
  OBVIOUS
<1>2. IsFiniteSet(S) /\ IsFiniteSet(T)
  BY FS_Subset
<1>3. (\A j \in S : f[j] \in Int) /\ (\A j \in T : g[j] \in Int) /\ (\A j \in S \ {i} : g[j] = f[j])
  BY <1>1
<1>4. f[i] = rows[i].amount /\ g[i] = new[i].amount
  BY <1>1
<1>5. SumFunctionOnSet(g, T) = SumFunctionOnSet(f, S) - (IF i \in S THEN f[i] ELSE 0) + (IF i \in T THEN g[i] ELSE 0)
  <2>1. S \ {i} = T \ {i}
    OBVIOUS
  <2>. QED BY ONLY <1>2, <1>3, <2>1, SumOfOneChange
<1>. QED BY <1>1, <1>4, <1>5

\* One row of payments changes, or one expense: the sums change by what it is worth.
LEMMA RowCounts ==
    ASSUME NEW rows \in [Ids -> Payment], NEW i \in Ids, NEW row \in Payment, NEW d
    PROVE  /\ ToPay(row, d) \in Nat /\ ToPay(rows[i], d) \in Nat /\ WasPaid(row, d) \in Nat /\ WasPaid(rows[i], d) \in Nat
           /\ OwedIn([rows EXCEPT ![i] = row], d) = OwedIn(rows, d) - ToPay(rows[i], d) + ToPay(row, d)
           /\ SettledIn([rows EXCEPT ![i] = row], d) = SettledIn(rows, d) - WasPaid(rows[i], d) + WasPaid(row, d)
<1>1. PICK new : new = [rows EXCEPT ![i] = row]
  OBVIOUS
<1>2. \A j \in Ids : /\ new[j] = IF j = i THEN row ELSE rows[j]
                     /\ rows[j].amount \in Nat /\ new[j].amount \in Nat
  BY <1>1 DEF Payment
<1>3. OwedIn(new, d) = OwedIn(rows, d) - ToPay(rows[i], d) + ToPay(row, d)
  <2>. DEFINE S == {j \in Ids : Unpaid(rows[j], d)}
              T == {j \in Ids : Unpaid(new[j], d)}
  <2>1. S \in SUBSET Ids /\ T \in SUBSET Ids /\ S \ {i} = T \ {i}
    BY <1>2
  <2>2. ToPay(rows[i], d) = (IF i \in S THEN rows[i].amount ELSE 0) /\ ToPay(row, d) = (IF i \in T THEN new[i].amount ELSE 0)
    BY <1>2 DEF ToPay
  <2>3. /\ OwedIn(rows, d) = SumFunctionOnSet([j \in Ids |-> rows[j].amount], S)
        /\ OwedIn(new, d) = SumFunctionOnSet([j \in Ids |-> new[j].amount], T)
    BY DEF OwedIn
  <2>. HIDE DEF S, T
  <2>. QED BY SMTT(20), <1>2, <2>1, <2>2, <2>3, SumOfRows, TablesAreFinite
<1>4. SettledIn(new, d) = SettledIn(rows, d) - WasPaid(rows[i], d) + WasPaid(row, d)
  <2>. DEFINE S == {j \in Ids : Paid(rows[j], d)}
              T == {j \in Ids : Paid(new[j], d)}
  <2>1. S \in SUBSET Ids /\ T \in SUBSET Ids /\ S \ {i} = T \ {i}
    BY <1>2
  <2>2. WasPaid(rows[i], d) = (IF i \in S THEN rows[i].amount ELSE 0) /\ WasPaid(row, d) = (IF i \in T THEN new[i].amount ELSE 0)
    BY <1>2 DEF WasPaid
  <2>3. /\ SettledIn(rows, d) = SumFunctionOnSet([j \in Ids |-> rows[j].amount], S)
        /\ SettledIn(new, d) = SumFunctionOnSet([j \in Ids |-> new[j].amount], T)
    BY DEF SettledIn
  <2>. HIDE DEF S, T
  <2>. QED BY SMTT(20), <1>2, <2>1, <2>2, <2>3, SumOfRows, TablesAreFinite
<1>5. ToPay(row, d) \in Nat /\ ToPay(rows[i], d) \in Nat /\ WasPaid(row, d) \in Nat /\ WasPaid(rows[i], d) \in Nat
  BY DEF ToPay, WasPaid, Payment
<1>. QED BY <1>1, <1>3, <1>4, <1>5

\* One expense changes: what was spent changes by what it costs.
LEMMA ExpenseCounts ==
    ASSUME NEW es \in [Expenses -> Expense], NEW m \in Expenses, NEW e \in Expense, NEW d
    PROVE  /\ Cost(e, d) \in Nat /\ Cost(es[m], d) \in Nat
           /\ SpentIn([es EXCEPT ![m] = e], d) = SpentIn(es, d) - Cost(es[m], d) + Cost(e, d)
<1>1. PICK new : new = [es EXCEPT ![m] = e]
  OBVIOUS
<1>2. \A k \in Expenses : /\ new[k] = IF k = m THEN e ELSE es[k]
                          /\ es[k].amount \in Nat /\ new[k].amount \in Nat
  BY <1>1 DEF Expense
<1>3. SpentIn(new, d) = SpentIn(es, d) - Cost(es[m], d) + Cost(e, d)
  <2>. DEFINE S == {k \in Expenses : es[k].state = "live" /\ es[k].debt = d}
              T == {k \in Expenses : new[k].state = "live" /\ new[k].debt = d}
  <2>1. S \in SUBSET Expenses /\ T \in SUBSET Expenses /\ S \ {m} = T \ {m}
    BY <1>2
  <2>2. Cost(es[m], d) = (IF m \in S THEN es[m].amount ELSE 0) /\ Cost(e, d) = (IF m \in T THEN new[m].amount ELSE 0)
    BY <1>2 DEF Cost
  <2>3. /\ SpentIn(es, d) = SumFunctionOnSet([k \in Expenses |-> es[k].amount], S)
        /\ SpentIn(new, d) = SumFunctionOnSet([k \in Expenses |-> new[k].amount], T)
    BY DEF SpentIn
  <2>. HIDE DEF S, T
  <2>. QED BY <1>2, <2>1, <2>2, <2>3, SumOfRows, TablesAreFinite
<1>4. Cost(e, d) \in Nat /\ Cost(es[m], d) \in Nat
  BY DEF Cost, Expense
<1>. QED BY <1>1, <1>3, <1>4

\* A step of the books: they change for debt d alone, in one of the ways that PaymentBooks allows.
LEMMA BookStep ==
    ASSUME TypeOK, TypeOK', NEW d \in Debts,
           \A x \in Debts \ {d} : /\ OwedIn(payment', x) = OwedIn(payment, x)
                                  /\ SettledIn(payment', x) = SettledIn(payment, x)
                                  /\ SpentIn(expense', x) = SpentIn(expense, x),
           \* agreed
           \/ /\ SettledIn(payment', d) = SettledIn(payment, d)
              /\ SpentIn(expense', d) = SpentIn(expense, d)
           \* corrected
           \/ OwedIn(payment', d) = OwedIn(payment, d)
           \* paid
           \/ \E a \in Nat \ {0} :
                /\ a <= OwedIn(payment, d)
                /\ OwedIn(payment', d) = OwedIn(payment, d) - a
                /\ SettledIn(payment', d) = SettledIn(payment, d) + a
                /\ SpentIn(expense', d) = SpentIn(expense, d) + a
           \* undone
           \/ \E a \in Nat :
                /\ a <= SettledIn(payment, d)
                /\ OwedIn(payment', d) = OwedIn(payment, d) + a
                /\ SettledIn(payment', d) = SettledIn(payment, d) - a
                /\ SpentIn(expense', d) <= SpentIn(expense, d)
    PROVE  Books!Next
<1>1. PICK o, n, s, u, e, c : o = Owed /\ n = Owed' /\ s = Settled /\ u = Settled' /\ e = Spent /\ c = Spent'
  OBVIOUS
<1>2. /\ o = [x \in Debts |-> OwedIn(payment, x)] /\ n = [x \in Debts |-> OwedIn(payment', x)]
      /\ s = [x \in Debts |-> SettledIn(payment, x)] /\ u = [x \in Debts |-> SettledIn(payment', x)]
      /\ e = [x \in Debts |-> SpentIn(expense, x)] /\ c = [x \in Debts |-> SpentIn(expense', x)]
  BY <1>1, BooksAreSums
<1>3. /\ n = [o EXCEPT ![d] = n[d]] /\ u = [s EXCEPT ![d] = u[d]] /\ c = [e EXCEPT ![d] = c[d]]
      /\ n[d] = o[d] => n = o
      /\ u[d] = s[d] => u = s
      /\ c[d] = e[d] => c = e
  BY <1>2
<1>4. o[d] \in Nat /\ n[d] \in Nat /\ s[d] \in Nat /\ u[d] \in Nat /\ e[d] \in Nat /\ c[d] \in Nat
  <2>1. payment \in [Ids -> Payment] /\ payment' \in [Ids -> Payment] /\ expense \in [Expenses -> Expense] /\ expense' \in [Expenses -> Expense]
    BY DEF TypeOK
  <2>. QED BY <1>2, <2>1, SumsAreNatural
<1>5. CASE u[d] = s[d] /\ c[d] = e[d]
  BY <1>1, <1>3, <1>4, <1>5 DEF Books!Next, Books!Agree
<1>6. CASE n[d] = o[d]
  BY <1>1, <1>3, <1>4, <1>6 DEF Books!Next, Books!Correct
<1>7. ASSUME NEW a \in Nat \ {0}, a <= o[d], n[d] = o[d] - a, u[d] = s[d] + a, c[d] = e[d] + a
      PROVE  Books!Next
  <2>1. a \in 1..o[d]
    BY <1>4, <1>7
  <2>2. n = [o EXCEPT ![d] = @ - a] /\ u = [s EXCEPT ![d] = @ + a] /\ c = [e EXCEPT ![d] = @ + a]
    BY <1>3, <1>7
  <2>3. \E b \in 1..Owed[d] : /\ Owed' = [Owed EXCEPT ![d] = @ - b] /\ Settled' = [Settled EXCEPT ![d] = @ + b]
                             /\ Spent' = [Spent EXCEPT ![d] = @ + b]
    BY <1>1, <2>1, <2>2
  <2>4. Books!Pay(d)
    BY <2>3 DEF Books!Pay
  <2>. QED BY <2>4 DEF Books!Next
<1>8. ASSUME NEW a \in Nat, a <= s[d], n[d] = o[d] + a, u[d] = s[d] - a, c[d] <= e[d]
      PROVE  Books!Next
  <2>1. a \in 0..s[d] /\ c[d] \in 0..e[d]
    BY <1>4, <1>8
  <2>2. n = [o EXCEPT ![d] = @ + a] /\ u = [s EXCEPT ![d] = @ - a]
    BY <1>3, <1>8
  <2>3. \E b \in 0..Settled[d] : Owed' = [Owed EXCEPT ![d] = @ + b] /\ Settled' = [Settled EXCEPT ![d] = @ - b]
    BY <1>1, <2>1, <2>2
  <2>4. Books!Undo(d)
    BY <1>1, <1>3, <2>1, <2>3 DEF Books!Undo
  <2>. QED BY <2>4 DEF Books!Next
<1>. QED BY <1>2, <1>5, <1>6, <1>7, <1>8

\* Nothing moves in the books.
LEMMA BookStutters ==
    ASSUME \A d \in Debts : /\ OwedIn(payment', d) = OwedIn(payment, d)
                            /\ SettledIn(payment', d) = SettledIn(payment, d)
                            /\ SpentIn(expense', d) = SpentIn(expense, d)
    PROVE  UNCHANGED Books!books
<1>1. Owed' = Owed /\ Settled' = Settled /\ Spent' = Spent
  BY BooksAreSums
<1>. QED BY <1>1 DEF Books!books

\* The books go on or stay as they are.
InBooks == [Books!Next]_(Books!books)

\* A row counts for its own debt, and there for what is owed or for what is settled.
LEMMA WhatCounts ==
    ASSUME NEW row, NEW x
    PROVE  /\ x # row.debt => ToPay(row, x) = 0 /\ WasPaid(row, x) = 0
           /\ ~row.exists  => ToPay(row, x) = 0 /\ WasPaid(row, x) = 0
           /\ ~Answers(row) => WasPaid(row, x) = 0
           /\ Answers(row) => ToPay(row, x) = 0
BY DEF ToPay, WasPaid, Unpaid, Paid, Answers

\* What a sum becomes when one row does.
LEMMA RowTells ==
    ASSUME TypeOK, NEW i \in Ids, NEW row \in Payment, payment' = [payment EXCEPT ![i] = row], NEW x
    PROVE  /\ OwedIn(payment', x) = OwedIn(payment, x) - ToPay(payment[i], x) + ToPay(row, x)
           /\ SettledIn(payment', x) = SettledIn(payment, x) - WasPaid(payment[i], x) + WasPaid(row, x)
           /\ ToPay(payment[i], x) = ToPay(row, x) => OwedIn(payment', x) = OwedIn(payment, x)
           /\ WasPaid(payment[i], x) = WasPaid(row, x) => SettledIn(payment', x) = SettledIn(payment, x)
<1>1. PICK rows, new : rows = payment /\ new = payment'
  OBVIOUS
<1>2. rows \in [Ids -> Payment] /\ new = [rows EXCEPT ![i] = row]
  BY <1>1 DEF TypeOK
<1>3. OwedIn(rows, x) \in Nat /\ SettledIn(rows, x) \in Nat
  BY <1>2, SumsAreNatural
<1>4. /\ ToPay(row, x) \in Nat /\ ToPay(rows[i], x) \in Nat /\ WasPaid(row, x) \in Nat /\ WasPaid(rows[i], x) \in Nat
      /\ OwedIn(new, x) = OwedIn(rows, x) - ToPay(rows[i], x) + ToPay(row, x)
      /\ SettledIn(new, x) = SettledIn(rows, x) - WasPaid(rows[i], x) + WasPaid(row, x)
  BY <1>2, RowCounts
<1>. QED BY <1>1, <1>3, <1>4

\* What an expense that changes tells of the books of a debt x.
LEMMA ExpenseTells ==
    ASSUME TypeOK, NEW m \in Expenses, NEW e \in Expense, expense' = [expense EXCEPT ![m] = e], NEW x
    PROVE  /\ SpentIn(expense', x) = SpentIn(expense, x) - Cost(expense[m], x) + Cost(e, x)
           /\ Cost(expense[m], x) = Cost(e, x) => SpentIn(expense', x) = SpentIn(expense, x)
<1>1. PICK es, new : es = expense /\ new = expense'
  OBVIOUS
<1>2. es \in [Expenses -> Expense] /\ new = [es EXCEPT ![m] = e]
  BY <1>1 DEF TypeOK
<1>3. SpentIn(es, x) \in Nat
  BY <1>2, SumsAreNatural
<1>4. Cost(e, x) \in Nat /\ Cost(es[m], x) \in Nat /\ SpentIn(new, x) = SpentIn(es, x) - Cost(es[m], x) + Cost(e, x)
  BY <1>2, ExpenseCounts
<1>. QED BY <1>1, <1>3, <1>4

\* One row of payments changes, and is paid before and after or neither.
LEMMA RowMoves ==
    ASSUME TypeOK, TypeOK', NEW i \in Ids, NEW row \in Payment, expense' = expense,
           payment' = [payment EXCEPT ![i] = row],
           payment[i].exists => payment[i].debt = row.debt,
           Answers(row) <=> Answers(payment[i])
    PROVE  InBooks
<1>1. ASSUME NEW x, x # row.debt \/ ~Answers(row) PROVE SettledIn(payment', x) = SettledIn(payment, x)
  <2>1. WasPaid(payment[i], x) = 0 /\ WasPaid(row, x) = 0
    BY <1>1, WhatCounts
  <2>. QED BY <2>1, RowTells
<1>2. ASSUME NEW x, x # row.debt \/ Answers(row) PROVE OwedIn(payment', x) = OwedIn(payment, x)
  <2>1. ToPay(payment[i], x) = 0 /\ ToPay(row, x) = 0
    BY <1>2, WhatCounts
  <2>. QED BY <2>1, RowTells
<1>3. CASE row.debt \in Debts
  <2>1. CASE Answers(row)
    BY <1>1, <1>2, <1>3, <2>1, BookStep DEF InBooks
  <2>2. CASE ~Answers(row)
    BY <1>1, <1>2, <1>3, <2>2, BookStep DEF InBooks
  <2>. QED BY <2>1, <2>2
<1>4. CASE row.debt \notin Debts
  BY <1>1, <1>2, <1>4, BookStutters DEF InBooks
<1>. QED BY <1>3, <1>4

\* One expense changes, and the payments do not.
LEMMA ExpenseMoves ==
    ASSUME TypeOK, TypeOK', NEW m \in Expenses, NEW e \in Expense, payment' = payment,
           expense' = [expense EXCEPT ![m] = e],
           Live(m) => e.debt = expense[m].debt
    PROVE  InBooks
<1>1. ASSUME NEW x, x # e.debt PROVE SpentIn(expense', x) = SpentIn(expense, x)
  <2>1. Cost(expense[m], x) = 0 /\ Cost(e, x) = 0
    BY <1>1 DEF Cost, Live
  <2>. QED BY <2>1, ExpenseTells
<1>2. CASE e.debt \in Debts
  BY <1>1, <1>2, BookStep DEF InBooks
<1>3. CASE e.debt \notin Debts
  BY <1>1, <1>3, BookStutters DEF InBooks
<1>. QED BY <1>2, <1>3

\* What is owed stays, and only of one debt what is settled or spent is corrected.
LEMMA CorrectsInBooks ==
    ASSUME TypeOK, TypeOK', NEW d,
           \A x \in Debts : OwedIn(payment', x) = OwedIn(payment, x),
           \A x \in Debts : x # d => /\ SettledIn(payment', x) = SettledIn(payment, x)
                                     /\ SpentIn(expense', x) = SpentIn(expense, x)
    PROVE  InBooks
<1>1. CASE d \in Debts
  BY <1>1, BookStep DEF InBooks
<1>2. CASE d \notin Debts
  BY <1>2, BookStutters DEF InBooks
<1>. QED BY <1>1, <1>2

\* Nothing changes.
LEMMA ReadsInBooks ==
    ASSUME UNCHANGED <<payment, expense>>
    PROVE  InBooks
BY BookStutters DEF InBooks

-----------------------------------------------------------------------------
(* What requests read is still right when they write                          *)

\* Who will pay has read what the payment owes, unless somebody has paid it since; who
\* will write an expense together with its payment has found the paid one of that debt.
ReadsRight(p) ==
    LET now == payment[req[p].id]  row == req[p].row IN
    /\ pc[p] = "write" /\ req[p].op \in {"pay", "create"} =>
          row.exists /\ row.active /\ (now.status = "PAID" \/ now.amount = row.amount)
    /\ pc[p] = "sync" /\ req[p].id # None =>
          now.status = "PAID" /\ now.debt # None /\ now.debt = expense[req[p].m].debt

BooksInv == PaymentsInv /\ \A p \in Requests : ReadsRight(p)

\* What others that run at the same time rely on: nobody takes a payment back, and only
\* what is paid has its amount changed.
Steady ==
    /\ \A i \in Ids : payment[i].debt # None =>
          /\ payment'[i].debt = payment[i].debt
          /\ payment'[i].status = "PAID" \/ (payment[i].status # "PAID" /\ payment'[i].amount = payment[i].amount)
    /\ \A m \in Expenses : expense[m].state # "none" => expense'[m].debt = expense[m].debt

\* A step of p is one of the books, and leaves what requests have read right.
Books1(p) ==
    /\ InBooks /\ ReadsRight(p)'
    /\ \A q \in Requests \ {p} : pc'[q] = pc[q] /\ req'[q] = req[q] /\ (pc[q] = "idle" \/ Steady)

\* Whoever takes a step of the books leaves what others have read right.
LEMMA ReadsStayRight ==
    ASSUME BooksInv, PaymentsInv', NEW p \in Requests, Books1(p)
    PROVE  BooksInv'
<1>1. ASSUME NEW q \in Requests, q # p PROVE ReadsRight(q)'
  <2>1. pc'[q] = pc[q] /\ req'[q] = req[q] /\ (pc[q] = "idle" \/ Steady)
    BY <1>1 DEF Books1
  <2>2. ReadsRight(q) /\ Knows(req[q], pc[q]) /\ req[q] \in Memory
    BY DEF BooksInv, PaymentsInv, Remembers, TypeOK, Memory
  <2>3. CASE pc[q] = "write" /\ req[q].op \in {"pay", "create"}
    <3>1. req[q].id \in Ids /\ payment[req[q].id].debt # None /\ Steady
      BY <2>1, <2>2, <2>3 DEF Knows, OnRow
    <3>. QED BY <2>1, <2>2, <2>3, <3>1 DEF ReadsRight, Steady
  <2>4. CASE pc[q] = "sync" /\ req[q].id # None
    <3>1. req[q].id \in Ids /\ req[q].m \in Expenses /\ expense[req[q].m].state # "none" /\ Steady
      BY <2>1, <2>2, <2>4 DEF Knows, Memory
    <3>. QED BY <2>1, <2>2, <2>4, <3>1 DEF ReadsRight, Steady
  <2>. QED BY <2>1, <2>3, <2>4 DEF ReadsRight
<1>. QED BY <1>1 DEF BooksInv, Books1

\* A step that goes on to anything but a write.
LEMMA StepsInBooks ==
    ASSUME PaymentsInv, NEW p \in Requests, NEW step, step \notin {"write", "sync"},
           pc' = [pc EXCEPT ![p] = step], UNCHANGED req \/ \E r : Keep(p, r),
           InBooks, Steady \/ \A q \in Requests \ {p} : pc[q] = "idle"
    PROVE  Books1(p)
<1>1. pc'[p] = step /\ \A q \in Requests \ {p} : pc'[q] = pc[q] /\ req'[q] = req[q]
  BY DEF PaymentsInv, TypeOK, Keep
<1>. QED BY <1>1 DEF Books1, ReadsRight

\* A step that ends a request.
LEMMA EndsInBooks ==
    ASSUME PaymentsInv, NEW p \in Requests, End(p),
           InBooks, Steady \/ \A q \in Requests \ {p} : pc[q] = "idle"
    PROVE  Books1(p)
BY StepsInBooks DEF End, Goto

-----------------------------------------------------------------------------
(* The steps that only read                                                   *)

\* Whoever reads leaves everything as it is.
LEMMA ReadsSteady ==
    ASSUME UNCHANGED <<payment, expense>>
    PROVE  InBooks /\ Steady
BY ReadsInBooks DEF Steady

\* Requests that ask, read, fail or die change no book.
LEMMA AsksInBooks ==
    ASSUME PaymentsInv, NEW p \in Requests,
           \/ \E op \in OnPayment, i \in Ids : Ask(p, op, i)
           \/ \E m \in Expenses, a \in Amounts \ {0} : EditExpense(p, m, a)
           \/ \E m \in Expenses : RemoveExpense(p, m)
           \/ Answer(p) \/ Reload(p) \/ IsLive(p) \/ FindMovement(p) \/ Fails(p) \/ Dies(p)
    PROVE  Books1(p)
<1>1. InBooks /\ Steady
  BY ReadsSteady DEF Ask, EditExpense, RemoveExpense, Answer, Reload, IsLive, FindMovement, Fails, Dies
<1>2. \E step : /\ step \notin {"write", "sync"} /\ pc' = [pc EXCEPT ![p] = step]
                /\ UNCHANGED req \/ \E r : Keep(p, r)
  BY DEF Ask, EditExpense, RemoveExpense, Answer, Reload, IsLive, FindMovement, Fails, Dies, Refuse, End, Goto
<1>. QED BY <1>1, <1>2, StepsInBooks

\* Load is a step of the books, or none.
LEMMA LoadInBooks ==
    ASSUME PaymentsInv, NEW p \in Requests, NEW a, Load(p, a)
    PROVE  Books1(p)
<1>1. InBooks /\ Steady /\ payment' = payment /\ expense' = expense
  BY ReadsSteady DEF Load
<1>2. CASE Refuse(p)
  BY <1>1, <1>2, StepsInBooks DEF Refuse, End, Goto
<1>3. CASE ~Refuse(p)
  <2>1. PICK row : row = payment[req[p].id]
    OBVIOUS
  <2>2. PICK r : r = [req[p] EXCEPT !.row = row, !.amount = a]
    OBVIOUS
  <2>3. PICK step : step = IF req[p].op # "read" THEN "write"
                           ELSE IF row.movementId = None THEN "find" ELSE "isLive"
    OBVIOUS
  <2>4. row.exists /\ row.active /\ Goto(p, step) /\ Keep(p, r)
    BY <1>3, <2>1, <2>2, <2>3 DEF Load
  <2>5. req[p] \in Memory
    BY DEF PaymentsInv, TypeOK, Memory
  <2>6. r.row = row /\ r.id = req[p].id
    BY <2>2, <2>5 DEF Memory
  <2>7. /\ pc'[p] = step /\ req'[p] = r
        /\ \A q \in Requests \ {p} : pc'[q] = pc[q] /\ req'[q] = req[q]
    BY <2>4 DEF PaymentsInv, TypeOK, Goto, Keep
  <2>8. ReadsRight(p)'
    BY <1>1, <2>1, <2>3, <2>4, <2>6, <2>7 DEF ReadsRight
  <2>. QED BY <1>1, <2>7, <2>8 DEF Books1
<1>. QED BY <1>2, <1>3

\* SaveExpense is a step of the books, or none.
LEMMA SaveExpenseInBooks ==
    ASSUME PaymentsInv, NEW p \in Requests, SaveExpense(p)
    PROVE  Books1(p)
<1>1. InBooks /\ Steady /\ payment' = payment /\ expense' = expense /\ Goto(p, "sync")
  BY ReadsSteady DEF SaveExpense
<1>2. pc[p] = "saveExpense" /\ Knows(req[p], "saveExpense") /\ req[p] \in Memory
  BY DEF SaveExpense, PaymentsInv, Remembers, TypeOK, Memory
<1>3. req[p].m \in Expenses
  BY <1>2 DEF Knows
<1>4. PICK i : /\ Keep(p, [req[p] EXCEPT !.id = i])
               /\ i # None => i \in Linked(req[p].m) /\ payment[i].status = "PAID"
  BY DEF SaveExpense
<1>5. i # None => payment[i].debt # None /\ payment[i].debt = expense[req[p].m].debt
  BY <1>3, <1>4, PaymentsAssumption DEF PaymentsInv, TablesAgree, LinksMatch, Linked, Expenses
<1>6. PICK r : r = [req[p] EXCEPT !.id = i]
  OBVIOUS
<1>7. r.id = i /\ r.m = req[p].m
  BY <1>2, <1>6 DEF Memory
<1>8. /\ pc'[p] = "sync" /\ req'[p] = r
      /\ \A q \in Requests \ {p} : pc'[q] = pc[q] /\ req'[q] = req[q]
  BY <1>1, <1>4, <1>6 DEF PaymentsInv, TypeOK, Goto, Keep
<1>9. ReadsRight(p)'
  BY <1>1, <1>4, <1>5, <1>7, <1>8 DEF ReadsRight
<1>. QED BY <1>1, <1>8, <1>9 DEF Books1

-----------------------------------------------------------------------------
(* The steps that change one row                                              *)

\* Status is a step of the books, or none.
LEMMA StatusInBooks ==
    ASSUME PaymentsInv, PaymentsInv', NEW i \in Ids, NEW s \in Status, SetStatus(i, s), expense' = expense,
           payment[i].exists => payment[i].status # "PAID" /\ s # "PAID"
    PROVE  InBooks /\ Steady
<1>1. CASE payment[i].exists
  <2>1. PICK row : row = [payment[i] EXCEPT !.status = s]
    OBVIOUS
  <2>2. payment \in [Ids -> Payment] /\ TypeOK /\ TypeOK'
    BY DEF PaymentsInv, TypeOK
  <2>3. row \in Payment /\ row.amount = payment[i].amount /\ row.status = s /\ row.debt = payment[i].debt
    BY <2>1, <2>2 DEF Payment
  <2>4. payment' = [payment EXCEPT ![i] = row]
    BY <1>1, <2>1 DEF SetStatus
  <2>5. InBooks
    BY <1>1, <2>2, <2>3, <2>4, RowMoves DEF Answers
  <2>6. \A j \in Ids : payment'[j] = IF j = i THEN row ELSE payment[j]
    BY <2>2, <2>4
  <2>7. Steady
    BY <1>1, <2>3, <2>6 DEF Steady
  <2>. QED BY <2>5, <2>7
<1>2. CASE ~payment[i].exists
  BY <1>2, ReadsSteady DEF SetStatus
<1>. QED BY <1>1, <1>2

\* SetRequested is a step of the books, or none.
LEMMA SetRequestedInBooks ==
    ASSUME PaymentsInv, PaymentsInv', Separate, NEW p \in Requests, SetRequested(p)
    PROVE  Books1(p)
<1>1. pc[p] = "setStatus" /\ expense' = expense
  BY DEF SetRequested
<1>2. StepOf(req[p].op, "setStatus") /\ Knows(req[p], "setStatus") /\ req[p] \in Memory
  BY <1>1 DEF PaymentsInv, Remembers, TypeOK, Memory
<1>3. req[p].id \in Ids /\ payment[req[p].id].status # "PAID"
  BY <1>2 DEF StepOf, Knows, OnRow
<1>4. PICK s \in Status : SetStatus(req[p].id, s) /\ s # "PAID"
  BY <1>2 DEF SetRequested, Memory, Status
<1>5. InBooks /\ Steady
  BY <1>1, <1>3, <1>4, StatusInBooks
<1>. QED BY <1>5, StepsInBooks DEF SetRequested, End, Goto

\* Validate is a step of the books, or none.
LEMMA ValidateInBooks ==
    ASSUME PaymentsInv, PaymentsInv', NEW p \in Requests, Validate(p)
    PROVE  Books1(p)
<1>1. pc[p] = "write" /\ expense' = expense /\ End(p)
  BY DEF Validate
<1>2. req[p].id \in Ids
  BY <1>1 DEF PaymentsInv, Remembers, Knows, OnRow
<1>3. InBooks /\ Steady
  BY <1>1, <1>2, StatusInBooks, ReadsSteady DEF Validate, Status
<1>. QED BY <1>1, <1>3, EndsInBooks

\* SetsStatus is a step of the books, or none.
LEMMA SetsStatusInBooks ==
    ASSUME PaymentsInv, PaymentsInv', Separate, NEW p \in Requests, Reject(p) \/ Cancel(p) \/ Unvalidate(p)
    PROVE  Books1(p)
<1>1. pc[p] = "write" /\ expense' = expense /\ End(p) /\ req[p].op \in {"reject", "cancel", "revert"}
  BY DEF Reject, Cancel, Unvalidate
<1>2. req[p].id \in Ids /\ payment[req[p].id] = req[p].row /\ Accepts(req[p].op, req[p].row)
  BY <1>1, AsLoaded DEF Overlapping
<1>3. payment[req[p].id].status # "PAID"
  BY <1>2 DEF Reject, Cancel, Unvalidate, Accepts
<1>4. PICK s \in Status : SetStatus(req[p].id, s) /\ s # "PAID"
  BY DEF Reject, Cancel, Unvalidate, Status
<1>. QED BY <1>1, <1>2, <1>3, <1>4, StatusInBooks, EndsInBooks

\* Drop is a step of the books, or none.
LEMMA DropInBooks ==
    ASSUME PaymentsInv, PaymentsInv', Separate, NEW p \in Requests, DropCreated(p)
    PROVE  Books1(p)
<1>1. pc[p] = "drop" /\ expense' = expense /\ End(p)
  BY DEF DropCreated
<1>2. StepOf(req[p].op, "drop") /\ Knows(req[p], "drop")
  BY <1>1 DEF PaymentsInv, Remembers
<1>3. req[p].op = "create" /\ req[p].id \in Ids
  BY <1>2 DEF StepOf, Knows, OnRow
<1>4. \A q \in Requests \ {p} : pc[q] = "idle"
  BY <1>1, <1>3, WorksAlone DEF Overlapping
<1>5. PICK i \in Ids : i = req[p].id
  BY <1>3
<1>6. PICK row : row = [payment[i] EXCEPT !.exists = FALSE]
  OBVIOUS
<1>7. payment[i] \in Payment /\ TypeOK /\ TypeOK'
  BY DEF PaymentsInv, TypeOK
<1>8. row \in Payment /\ row.exists = FALSE /\ row.debt = payment[i].debt
  BY <1>6, <1>7 DEF Payment
<1>9. payment' = [payment EXCEPT ![i] = row]
  BY <1>5, <1>6 DEF DropCreated
<1>10. CASE ~Answers(payment[i])
  <2>1. InBooks
    BY <1>1, <1>5, <1>7, <1>8, <1>9, <1>10, RowMoves DEF Answers
  <2>. QED BY <1>1, <1>4, <2>1, EndsInBooks
<1>11. CASE Answers(payment[i])
  <2>1. ASSUME NEW x PROVE OwedIn(payment', x) = OwedIn(payment, x)
    <3>1. ToPay(payment[i], x) = 0 /\ ToPay(row, x) = 0
      BY <1>8, <1>11, WhatCounts
    <3>2. TypeOK /\ i \in Ids /\ row \in Payment /\ payment' = [payment EXCEPT ![i] = row] /\ ToPay(payment[i], x) = ToPay(row, x)
      BY <1>7, <1>8, <1>9, <3>1
    <3>. QED BY ONLY <3>2, RowTells
  <2>2. ASSUME NEW x, x # row.debt PROVE SettledIn(payment', x) = SettledIn(payment, x)
    <3>1. WasPaid(payment[i], x) = 0 /\ WasPaid(row, x) = 0
      BY <1>8, <2>2, WhatCounts
    <3>2. TypeOK /\ i \in Ids /\ row \in Payment /\ payment' = [payment EXCEPT ![i] = row] /\ WasPaid(payment[i], x) = WasPaid(row, x)
      BY <1>7, <1>8, <1>9, <3>1
    <3>. QED BY ONLY <3>2, RowTells
  <2>3. InBooks
    BY <1>1, <1>7, <2>1, <2>2, CorrectsInBooks
  <2>. QED BY <1>1, <1>4, <2>3, EndsInBooks
<1>. QED BY <1>10, <1>11

\* Remove is a step of the books, or none.
LEMMA RemoveInBooks ==
    ASSUME PaymentsInv, PaymentsInv', Separate, NEW p \in Requests, Remove(p)
    PROVE  Books1(p)
<1>1. pc[p] = "write" /\ expense' = expense /\ End(p) /\ req[p].op = "remove"
  BY DEF Remove
<1>2. /\ req[p].id \in Ids /\ payment[req[p].id] = req[p].row /\ Accepts(req[p].op, req[p].row)
      /\ \A q \in Requests \ {p} : pc[q] = "idle"
  BY <1>1, AsLoaded DEF Overlapping
<1>3. PICK i \in Ids : i = req[p].id
  BY <1>2
<1>4. payment[i].status # "PAID"
  BY <1>1, <1>2, <1>3 DEF Accepts
<1>5. PICK row : row = [payment[i] EXCEPT !.active = FALSE]
  OBVIOUS
<1>6. payment[i] \in Payment /\ TypeOK /\ TypeOK'
  BY DEF PaymentsInv, TypeOK
<1>7. row \in Payment /\ row.status = payment[i].status /\ row.debt = payment[i].debt
  BY <1>5, <1>6 DEF Payment
<1>8. payment' = payment \/ payment' = [payment EXCEPT ![i] = row]
  BY <1>3, <1>5 DEF Remove
<1>9. InBooks
  <2>1. CASE payment' = payment
    BY <1>1, <2>1, ReadsInBooks
  <2>2. CASE payment' = [payment EXCEPT ![i] = row]
    BY <1>1, <1>4, <1>6, <1>7, <2>2, RowMoves DEF Answers
  <2>. QED BY <1>8, <2>1, <2>2
<1>. QED BY <1>1, <1>2, <1>9, EndsInBooks

\* Update is a step of the books, or none.
LEMMA UpdateInBooks ==
    ASSUME PaymentsInv, PaymentsInv', Separate, NEW p \in Requests, Update(p)
    PROVE  Books1(p)
<1>1. pc[p] = "write" /\ expense' = expense /\ req[p].op = "update" /\ Goto(p, "reload") /\ req' = req
  BY DEF Update
<1>2. req[p].id \in Ids /\ \A q \in Requests \ {p} : pc[q] = "idle"
  BY <1>1, AsLoaded DEF Overlapping
<1>3. PICK i \in Ids : i = req[p].id
  BY <1>2
<1>4. PICK row : row = [payment[i] EXCEPT !.amount = req[p].amount]
  OBVIOUS
<1>5. payment[i] \in Payment /\ req[p].amount \in Nat /\ TypeOK /\ TypeOK'
  BY DEF PaymentsInv, TypeOK
<1>6. /\ row \in Payment /\ row.exists = payment[i].exists /\ row.active = payment[i].active
      /\ row.status = payment[i].status /\ row.debt = payment[i].debt
  BY <1>4, <1>5 DEF Payment
<1>7. payment' = payment \/ payment' = [payment EXCEPT ![i] = row]
  BY <1>3, <1>4 DEF Update
<1>8. InBooks
  <2>1. CASE payment' = payment
    BY <1>1, <2>1, ReadsInBooks
  <2>2. CASE payment' = [payment EXCEPT ![i] = row]
    BY <1>1, <1>5, <1>6, <2>2, RowMoves DEF Answers
  <2>. QED BY <1>7, <2>1, <2>2
<1>. QED BY <1>1, <1>2, <1>8, StepsInBooks DEF Goto

\* Unlink is a step of the books, or none.
LEMMA UnlinkInBooks ==
    ASSUME PaymentsInv, PaymentsInv', Separate, NEW p \in Requests, Unlink(p)
    PROVE  Books1(p)
<1>1. pc[p] = "unlink" /\ expense' = expense /\ Goto(p, "find") /\ \E r : Keep(p, r)
  BY DEF Unlink
<1>2. StepOf(req[p].op, "unlink") /\ Knows(req[p], "unlink")
  BY <1>1 DEF PaymentsInv, Remembers
<1>3. req[p].op = "read" /\ req[p].id \in Ids /\ Answers(payment[req[p].id])
  BY <1>2 DEF StepOf, Knows, OnRow, Repairing, Answers
<1>4. \A q \in Requests \ {p} : pc[q] = "idle"
  BY <1>1, <1>3, WorksAlone DEF Overlapping
<1>5. PICK i \in Ids : i = req[p].id
  BY <1>3
<1>6. PICK row : row = [payment[i] EXCEPT !.movementId = None]
  OBVIOUS
<1>7. payment[i] \in Payment /\ TypeOK /\ TypeOK'
  BY DEF PaymentsInv, TypeOK
<1>8. /\ row \in Payment /\ row.exists = payment[i].exists /\ row.active = payment[i].active
      /\ row.status = payment[i].status /\ row.debt = payment[i].debt
  BY <1>6, <1>7 DEF Payment
<1>9. payment' = [payment EXCEPT ![i] = row]
  BY <1>3, <1>5, <1>6 DEF Unlink, Answers
<1>10. InBooks
  BY <1>1, <1>7, <1>8, <1>9, RowMoves DEF Answers
<1>. QED BY <1>1, <1>4, <1>10, StepsInBooks DEF Goto

\* Create is a step of the books, or none.
LEMMA CreateInBooks ==
    ASSUME PaymentsInv, PaymentsInv', Separate, NEW p \in Requests, NEW s \in Status, NEW a \in Amounts,
           CreatePayment(p, s, a)
    PROVE  Books1(p)
<1>1. TypeOK /\ TypeOK' /\ a \in Nat /\ expense' = expense
  BY PaymentsAssumption DEF PaymentsInv, CreatePayment
<1>2. PICK i \in Ids, d \in Debts :
        /\ Fresh(i)
        /\ payment' = [payment EXCEPT ![i] = [exists |-> TRUE, active |-> TRUE, status |-> "PENDING",
                                              amount |-> a, movementId |-> None, debt |-> d]]
        /\ IF s = "PENDING" THEN End(p)
           ELSE Goto(p, "setStatus")
                /\ Keep(p, [NoRequest EXCEPT !.op = "create", !.id = i, !.requested = s])
  BY DEF CreatePayment
<1>3. PICK row : row = [exists |-> TRUE, active |-> TRUE, status |-> "PENDING",
                        amount |-> a, movementId |-> None, debt |-> d]
  OBVIOUS
<1>4. row \in Payment /\ row.status = "PENDING"
  BY <1>1, <1>3 DEF Payment, Status
<1>5. payment' = [payment EXCEPT ![i] = row] /\ ~payment[i].exists
  BY <1>2, <1>3 DEF Fresh
<1>6. InBooks
  BY <1>1, <1>4, <1>5, RowMoves DEF Answers
<1>7. \A q \in Requests \ {p} : pc[q] = "idle"
  BY BeginsAlone DEF CreatePayment, Overlapping
<1>8. \E step : /\ step \notin {"write", "sync"} /\ pc' = [pc EXCEPT ![p] = step]
                /\ \E r : Keep(p, r)
  BY <1>2 DEF End, Goto
<1>. QED BY <1>6, <1>7, <1>8, StepsInBooks

-----------------------------------------------------------------------------
(* The steps that change one expense                                          *)

\* A written expense is a step of the books, or none.
LEMMA ExpenseInBooks ==
    ASSUME PaymentsInv, PaymentsInv', NEW m \in Expenses, NEW e \in Expense, payment' = payment,
           expense' = [expense EXCEPT ![m] = e], expense[m].state # "none" => e.debt = expense[m].debt
    PROVE  InBooks /\ Steady
<1>1. TypeOK /\ TypeOK' /\ expense \in [Expenses -> Expense]
  BY DEF PaymentsInv, TypeOK
<1>2. InBooks
  BY <1>1, ExpenseMoves DEF Live
<1>3. \A k \in Expenses : expense'[k] = IF k = m THEN e ELSE expense[k]
  BY <1>1
<1>4. Steady
  BY <1>3 DEF Steady
<1>. QED BY <1>2, <1>4

\* SaveMovement is a step of the books, or none.
LEMMA SaveMovementInBooks ==
    ASSUME PaymentsInv, PaymentsInv', NEW p \in Requests, SaveMovement(p)
    PROVE  Books1(p)
<1>1. pc[p] = "save" /\ End(p) /\ payment' = payment /\ expense \in [Expenses -> Expense]
  BY DEF SaveMovement, PaymentsInv, TypeOK
<1>2. Knows(req[p], "save") /\ req[p] \in Memory
  BY <1>1 DEF PaymentsInv, Remembers, TypeOK, Memory
<1>3. req[p].row.movementId \in Expenses /\ req[p].row.amount \in Nat
  BY <1>2 DEF Knows, Memory, Payment
<1>4. PICK m \in Expenses : m = req[p].row.movementId
  BY <1>3
<1>5. PICK new : new = [expense[m] EXCEPT !.state = "live", !.amount = req[p].row.amount]
  OBVIOUS
<1>6. new \in Expense /\ new.debt = expense[m].debt
  BY <1>1, <1>3, <1>5 DEF Expense
<1>7. expense' = [expense EXCEPT ![m] = new]
  BY <1>4, <1>5 DEF SaveMovement
<1>. QED BY <1>1, <1>6, <1>7, ExpenseInBooks, EndsInBooks

\* SoftRemove is a step of the books, or none.
LEMMA SoftRemoveInBooks ==
    ASSUME PaymentsInv, PaymentsInv', NEW p \in Requests, SoftRemove(p)
    PROVE  Books1(p)
<1>1. pc[p] = "softRemove" /\ End(p) /\ payment' = payment /\ expense \in [Expenses -> Expense]
  BY DEF SoftRemove, PaymentsInv, TypeOK
<1>2. PICK m \in Expenses : m = req[p].m
  BY <1>1 DEF PaymentsInv, Remembers, Knows
<1>3. PICK new : new = [expense[m] EXCEPT !.state = "removed"]
  OBVIOUS
<1>4. new \in Expense /\ new.debt = expense[m].debt /\ expense' = [expense EXCEPT ![m] = new]
  BY <1>1, <1>2, <1>3 DEF Expense, SoftRemove
<1>. QED BY <1>1, <1>4, ExpenseInBooks, EndsInBooks

\* A request that does all of its work at once.
LEMMA AtOnceInBooks ==
    ASSUME PaymentsInv, NEW p \in Requests, pc[p] = "idle", UNCHANGED <<pc, req>>, InBooks, Steady
    PROVE  Books1(p)
BY DEF Books1, ReadsRight

\* Absorb is a step of the books, or none.
LEMMA AbsorbInBooks ==
    ASSUME PaymentsInv, PaymentsInv', NEW p \in Requests, NEW m \in Expenses, Absorb(p, m)
    PROVE  Books1(p)
<1>1. expense \in [Expenses -> Expense]
  BY DEF PaymentsInv, TypeOK
<1>2. PICK new : new = [expense[m] EXCEPT !.state = "absorbed"]
  OBVIOUS
<1>3. new \in Expense /\ new.debt = expense[m].debt /\ expense' = [expense EXCEPT ![m] = new]
  BY <1>1, <1>2 DEF Expense, Absorb
<1>. QED BY <1>3, ExpenseInBooks, AtOnceInBooks DEF Absorb, MayBegin

\* Spend is a step of the books, or none.
LEMMA SpendInBooks ==
    ASSUME PaymentsInv, PaymentsInv', NEW p \in Requests, NEW m \in Expenses, NEW a \in Amounts, Spend(p, m, a)
    PROVE  Books1(p)
<1>1. a \in Nat /\ expense[m].state = "none"
  BY PaymentsAssumption DEF Spend, FreshExpense
<1>2. PICK new : new = [NoExpense EXCEPT !.state = "live", !.amount = a]
  OBVIOUS
<1>3. new \in Expense /\ expense' = [expense EXCEPT ![m] = new]
  BY <1>1, <1>2 DEF NoExpense, Expense, Spend
<1>. QED BY <1>1, <1>3, ExpenseInBooks, AtOnceInBooks DEF Spend, MayBegin

-----------------------------------------------------------------------------
(* The steps that change payments and expenses together                       *)

\* A payment is paid a with a new expense; a new row, if there is one, owes the rest.
LEMMA PaidInBooks ==
    ASSUME TypeOK, TypeOK', NEW i \in Ids, NEW m \in Expenses,
           payment[i].exists, payment[i].active, payment[i].status # "PAID", payment[i].debt \in Debts,
           Answers(payment'[i]), payment'[i].debt = payment[i].debt,
           payment'[i].amount \in Nat \ {0}, payment'[i].amount <= payment[i].amount,
           expense[m].state = "none",
           expense' = [expense EXCEPT ![m] = [state |-> "live", amount |-> payment'[i].amount, debt |-> payment[i].debt]],
           \/ payment'[i].amount = payment[i].amount /\ \A j \in Ids \ {i} : payment'[j] = payment[j]
           \/ \E k \in Ids \ {i} :
                 /\ ~payment[k].exists
                 /\ payment'[k].exists /\ payment'[k].active /\ payment'[k].status # "PAID"
                 /\ payment'[k].debt = payment[i].debt /\ payment'[k].amount = payment[i].amount - payment'[i].amount
                 /\ \A j \in Ids \ {i, k} : payment'[j] = payment[j]
    PROVE  InBooks
<1>1. PICK rows, now, d, a, new : /\ rows = payment /\ now = payment' /\ d = payment[i].debt
                                  /\ a = payment'[i].amount /\ new = payment'[i]
  OBVIOUS
<1>2. PICK paid : paid = [rows EXCEPT ![i] = new]
  OBVIOUS
<1>3. PICK e : e = [state |-> "live", amount |-> a, debt |-> d]
  OBVIOUS
<1>4. /\ rows \in [Ids -> Payment] /\ now \in [Ids -> Payment] /\ rows[i] \in Payment /\ new \in Payment
      /\ paid = [rows EXCEPT ![i] = new] /\ paid \in [Ids -> Payment]
      /\ \A j \in Ids : paid[j] = IF j = i THEN new ELSE rows[j]
      /\ a \in Nat \ {0} /\ d \in Debts /\ Answers(new) /\ new.debt = d /\ new.amount = a
      /\ rows[i].exists /\ rows[i].active /\ rows[i].status # "PAID" /\ rows[i].debt = d
  BY <1>1, <1>2 DEF TypeOK
<1>5. /\ e \in Expense /\ e.state = "live" /\ e.debt = d /\ e.amount = a
      /\ expense' = [expense EXCEPT ![m] = e]
  BY <1>1, <1>4, <1>3 DEF Expense
<1>6. PICK b \in Nat : b = rows[i].amount /\ a <= b
  BY <1>1, <1>4 DEF Payment
\* What the row that is paid was worth, and is.
<1>7. ASSUME NEW x
      PROVE  /\ OwedIn(rows, x) \in Nat /\ SettledIn(rows, x) \in Nat /\ OwedIn(paid, x) \in Nat /\ SettledIn(paid, x) \in Nat
             /\ OwedIn(paid, x) = OwedIn(rows, x) - (IF x = d THEN b ELSE 0)
             /\ SettledIn(paid, x) = SettledIn(rows, x) + (IF x = d THEN a ELSE 0)
  <2>1. /\ ToPay(rows[i], x) = (IF x = d THEN b ELSE 0) /\ WasPaid(rows[i], x) = 0
        /\ ToPay(new, x) = 0 /\ WasPaid(new, x) = (IF x = d THEN a ELSE 0)
    BY <1>4, <1>6 DEF ToPay, WasPaid, Unpaid, Paid, Answers
  <2>2. OwedIn(rows, x) \in Nat /\ SettledIn(rows, x) \in Nat /\ OwedIn(paid, x) \in Nat /\ SettledIn(paid, x) \in Nat
    BY <1>4, SumsAreNatural
  <2>3. /\ OwedIn(paid, x) = OwedIn(rows, x) - ToPay(rows[i], x) + ToPay(new, x)
        /\ SettledIn(paid, x) = SettledIn(rows, x) - WasPaid(rows[i], x) + WasPaid(new, x)
    <3>1. rows \in [Ids -> Payment] /\ paid = [rows EXCEPT ![i] = new] /\ i \in Ids /\ new \in Payment
      BY <1>4
    <3>. QED BY ONLY <3>1, RowCounts
  <2>. QED BY <1>4, <2>1, <2>2, <2>3
\* With the rest, only what is paid is owed no more.
<1>8. ASSUME NEW x
      PROVE  /\ OwedIn(now, x) = OwedIn(rows, x) - (IF x = d THEN a ELSE 0)
             /\ SettledIn(now, x) = SettledIn(rows, x) + (IF x = d THEN a ELSE 0)
  <2>1. CASE a = b /\ \A j \in Ids \ {i} : now[j] = rows[j]
    <3>1. now = paid
      BY <1>1, <1>4, <2>1
    <3>. QED BY <1>7, <2>1, <3>1
  <2>2. CASE ~(a = b /\ \A j \in Ids \ {i} : now[j] = rows[j])
    <3>1. PICK k \in Ids : /\ k # i /\ ~rows[k].exists
                           /\ now[k].exists /\ now[k].active /\ now[k].status # "PAID"
                           /\ now[k].debt = d /\ now[k].amount = b - a
                           /\ \A j \in Ids \ {i, k} : now[j] = rows[j]
      BY <1>1, <1>6, <2>2
    <3>2. PICK rest : rest = now[k]
      OBVIOUS
    <3>3. rest \in Payment /\ now = [paid EXCEPT ![k] = rest] /\ paid[k] = rows[k]
      BY <1>1, <1>4, <3>1, <3>2
    <3>4. /\ ToPay(rest, x) = (IF x = d THEN b - a ELSE 0) /\ WasPaid(rest, x) = 0
          /\ ToPay(paid[k], x) = 0 /\ WasPaid(paid[k], x) = 0
      BY <3>1, <3>2, <3>3 DEF ToPay, WasPaid, Unpaid, Paid
    <3>5. /\ OwedIn(now, x) = OwedIn(paid, x) - ToPay(paid[k], x) + ToPay(rest, x)
          /\ SettledIn(now, x) = SettledIn(paid, x) - WasPaid(paid[k], x) + WasPaid(rest, x)
      <4>1. paid \in [Ids -> Payment] /\ now = [paid EXCEPT ![k] = rest] /\ k \in Ids /\ rest \in Payment
        BY <1>4, <3>3
      <4>. QED BY ONLY <4>1, RowCounts
    <3>6. /\ OwedIn(rows, x) \in Nat /\ SettledIn(rows, x) \in Nat /\ OwedIn(paid, x) \in Nat /\ SettledIn(paid, x) \in Nat
          /\ OwedIn(paid, x) = OwedIn(rows, x) - (IF x = d THEN b ELSE 0)
          /\ SettledIn(paid, x) = SettledIn(rows, x) + (IF x = d THEN a ELSE 0)
      BY <1>7
    <3>7. a \in Nat /\ b \in Nat
      BY <1>4
    <3>8. CASE x = d
      BY <3>4, <3>5, <3>6, <3>7, <3>8
    <3>9. CASE x # d
      BY <3>4, <3>5, <3>6, <3>7, <3>9
    <3>. QED BY <3>8, <3>9
  <2>. QED BY <2>1, <2>2
<1>9. ASSUME NEW x PROVE SpentIn(expense', x) = SpentIn(expense, x) + (IF x = d THEN a ELSE 0)
  <2>1. Cost(expense[m], x) = 0 /\ Cost(e, x) = (IF x = d THEN a ELSE 0)
    BY <1>5 DEF Cost
  <2>2. SpentIn(expense', x) = SpentIn(expense, x) - Cost(expense[m], x) + Cost(e, x)
    <3>1. TypeOK /\ m \in Expenses /\ e \in Expense /\ expense' = [expense EXCEPT ![m] = e]
      BY <1>5
    <3>. QED BY ONLY <3>1, ExpenseTells
  <2>3. SpentIn(expense, x) \in Nat
    BY SumsAreNatural DEF TypeOK
  <2>. QED BY <1>4, <2>1, <2>2, <2>3
<1>10. ASSUME NEW x \in Debts, x # d
      PROVE  /\ OwedIn(payment', x) = OwedIn(payment, x) /\ SettledIn(payment', x) = SettledIn(payment, x)
             /\ SpentIn(expense', x) = SpentIn(expense, x)
  <2>1. SpentIn(expense, x) \in Nat /\ OwedIn(rows, x) \in Nat /\ SettledIn(rows, x) \in Nat
    BY <1>7, SumsAreNatural DEF TypeOK
  <2>2. OwedIn(now, x) = OwedIn(rows, x) /\ SettledIn(now, x) = SettledIn(rows, x)
    BY <1>8, <1>10, <2>1
  <2>3. SpentIn(expense', x) = SpentIn(expense, x)
    <3>1. SpentIn(expense', x) = SpentIn(expense, x) + (IF x = d THEN a ELSE 0)
      BY <1>9
    <3>. QED BY <1>10, <2>1, <3>1
  <2>. QED BY <1>1, <2>2, <2>3
<1>11. \E c \in Nat \ {0} : /\ c <= OwedIn(payment, d)
                           /\ OwedIn(payment', d) = OwedIn(payment, d) - c
                           /\ SettledIn(payment', d) = SettledIn(payment, d) + c
                           /\ SpentIn(expense', d) = SpentIn(expense, d) + c
  <2>1. /\ OwedIn(rows, d) \in Nat /\ OwedIn(paid, d) \in Nat /\ OwedIn(paid, d) = OwedIn(rows, d) - b
    BY <1>7
  <2>2. a <= OwedIn(rows, d)
    BY <1>4, <1>6, <2>1
  <2>3. /\ OwedIn(now, d) = OwedIn(rows, d) - a /\ SettledIn(now, d) = SettledIn(rows, d) + a
        /\ SpentIn(expense', d) = SpentIn(expense, d) + a
    <3>1. /\ OwedIn(now, d) = OwedIn(rows, d) - (IF d = d THEN a ELSE 0)
          /\ SettledIn(now, d) = SettledIn(rows, d) + (IF d = d THEN a ELSE 0)
      BY <1>8
    <3>2. SpentIn(expense', d) = SpentIn(expense, d) + (IF d = d THEN a ELSE 0)
      BY <1>9
    <3>. QED BY <3>1, <3>2
  <2>. QED BY <1>1, <2>2, <2>3
<1>12. Books!Next
  <2>1. TypeOK /\ TypeOK' /\ d \in Debts
    BY <1>4
  <2>. QED BY ONLY <1>10, <1>11, <2>1, BookStep
<1>. QED BY <1>12 DEF InBooks

\* Pay is a step of the books, or none.
LEMMA PayInBooks ==
    ASSUME BooksInv, PaymentsInv', NEW p \in Requests, Pay(p)
    PROVE  Books1(p)
<1>1. pc[p] = "write" /\ req[p].op \in {"pay", "create"} /\ PaymentsInv /\ ReadsRight(p)
  BY DEF Pay, BooksInv
<1>2. Knows(req[p], "write") /\ req[p] \in Memory
  BY <1>1 DEF PaymentsInv, Remembers, TypeOK, Memory
<1>3. PICK i \in Ids : i = req[p].id
  BY <1>2 DEF Knows, OnRow
<1>4. PICK row, a : row = req[p].row /\ a = req[p].amount
  OBVIOUS
<1>5. /\ row \in Payment /\ row.debt # None /\ payment[i].debt = row.debt
      /\ a \in Nat \ {0} /\ a <= row.amount /\ row.amount \in Nat
  BY <1>1, <1>2, <1>3, <1>4 DEF Knows, Memory, Payment
<1>6. row.exists /\ row.active /\ (payment[i].status = "PAID" \/ payment[i].amount = row.amount)
  BY <1>1, <1>3, <1>4 DEF ReadsRight
<1>7. payment \in [Ids -> Payment] /\ expense \in [Expenses -> Expense] /\ TypeOK /\ TypeOK'
  BY <1>1 DEF PaymentsInv, TypeOK
<1>8. CASE Claimed(i)
  <2>1. PICK m \in Expenses :
          LET paid == [payment EXCEPT ![i].status = "PAID", ![i].movementId = m,
                                      ![i].amount = IF a < row.amount THEN a ELSE @] IN
          /\ FreshExpense(m)
          /\ expense' = [expense EXCEPT ![m] = [state |-> "live", amount |-> a, debt |-> row.debt]]
          /\ \/ a = row.amount /\ payment' = paid
             \/ a < row.amount /\ \E k \in Ids : Fresh(k) /\ payment' = [paid EXCEPT ![k] = Remainder(row, a)]
          /\ IF req[p].op = "create" THEN Goto(p, "answer") /\ UNCHANGED req ELSE End(p)
    BY <1>3, <1>4, <1>8 DEF Pay
  <2>2. PICK new : new = [payment[i] EXCEPT !.status = "PAID", !.movementId = m,
                                            !.amount = IF a < row.amount THEN a ELSE @]
    OBVIOUS
  <2>3. PICK paid : paid = [payment EXCEPT ![i].status = "PAID", ![i].movementId = m,
                                           ![i].amount = IF a < row.amount THEN a ELSE @]
    OBVIOUS
  <2>4. /\ payment[i] \in Payment /\ payment[i].exists /\ payment[i].active /\ payment[i].status = "VALIDATED"
        /\ payment[i].amount = row.amount
    BY <1>6, <1>7, <1>8 DEF Claimed
  <2>5. new \in Payment /\ Answers(new) /\ new.debt = payment[i].debt /\ new.amount = a
    <3>1. new = [payment[i] EXCEPT !.status = "PAID", !.movementId = m, !.amount = a]
      <4>1. a < row.amount \/ payment[i].amount = a
        BY <1>5, <2>4
      <4>. QED BY <1>5, <2>2, <2>4, <4>1
    <3>. QED BY <1>5, <2>4, <3>1 DEF Payment, Answers, Status
  <2>6. \/ a = row.amount /\ payment' = paid
        \/ a < row.amount /\ \E k \in Ids : Fresh(k) /\ payment' = [paid EXCEPT ![k] = Remainder(row, a)]
    BY <2>1, <2>3
  <2>7. PICK spent : spent = [state |-> "live", amount |-> a, debt |-> row.debt]
    OBVIOUS
  <2>8. /\ spent \in Expense /\ spent.state = "live" /\ spent.debt = row.debt /\ spent.amount = a
        /\ expense' = [expense EXCEPT ![m] = spent] /\ expense[m].state = "none"
    BY <1>5, <2>1, <2>7 DEF Expense, Payment, FreshExpense
  <2>9. /\ paid \in [Ids -> Payment] /\ \A j \in Ids : paid[j] = IF j = i THEN new ELSE payment[j]
        /\ paid = [payment EXCEPT ![i] = new]
    BY <1>7, <2>2, <2>3, <2>5
  <2>10. /\ payment'[i] = new
         /\ \/ a = row.amount /\ \A j \in Ids \ {i} : payment'[j] = payment[j]
            \/ \E k \in Ids \ {i} :
                 /\ ~payment[k].exists
                 /\ payment'[k].exists /\ payment'[k].active /\ payment'[k].status # "PAID"
                 /\ payment'[k].debt = row.debt /\ payment'[k].amount = row.amount - a
                 /\ \A j \in Ids \ {i, k} : payment'[j] = payment[j]
    <3>1. CASE a = row.amount /\ payment' = paid
      BY <2>9, <3>1
    <3>2. CASE a < row.amount /\ \E k \in Ids : Fresh(k) /\ payment' = [paid EXCEPT ![k] = Remainder(row, a)]
      <4>1. PICK k \in Ids : Fresh(k) /\ payment' = [paid EXCEPT ![k] = Remainder(row, a)]
        BY <3>2
      <4>2. PICK rest : rest = Remainder(row, a)
        OBVIOUS
      <4>3. /\ rest.exists /\ rest.active /\ rest.debt = row.debt /\ rest.status # "PAID"
            /\ rest.amount = row.amount - a
        BY <1>5, <1>6, <4>2 DEF Remainder, Payment
      <4>4. k # i /\ ~payment[k].exists
        BY <2>4, <4>1 DEF Fresh
      <4>5. \A j \in Ids : payment'[j] = IF j = k THEN rest ELSE paid[j]
        BY <2>9, <4>1, <4>2
      <4>. QED BY <2>9, <4>3, <4>4, <4>5
    <3>. QED BY <2>6, <3>1, <3>2
  <2>11. InBooks
    <3>1. row.debt \in Debts
      BY <1>5 DEF Payment
    <3>2. /\ TypeOK /\ TypeOK' /\ i \in Ids /\ m \in Expenses
          /\ payment[i].exists /\ payment[i].active /\ payment[i].status # "PAID" /\ payment[i].debt \in Debts
          /\ Answers(payment'[i]) /\ payment'[i].debt = payment[i].debt
          /\ payment'[i].amount \in Nat \ {0} /\ payment'[i].amount <= payment[i].amount
          /\ expense[m].state = "none"
      BY <1>5, <1>7, <2>4, <2>5, <2>8, <2>10, <3>1
    <3>3. expense' = [expense EXCEPT ![m] = [state |-> "live", amount |-> payment'[i].amount, debt |-> payment[i].debt]]
      BY <1>5, <2>5, <2>7, <2>8, <2>10
    <3>4. \/ payment'[i].amount = payment[i].amount /\ \A j \in Ids \ {i} : payment'[j] = payment[j]
          \/ \E k \in Ids \ {i} :
                /\ ~payment[k].exists
                /\ payment'[k].exists /\ payment'[k].active /\ payment'[k].status # "PAID"
                /\ payment'[k].debt = payment[i].debt /\ payment'[k].amount = payment[i].amount - payment'[i].amount
                /\ \A j \in Ids \ {i, k} : payment'[j] = payment[j]
      BY <1>5, <2>4, <2>5, <2>10
    <3>. QED BY ONLY <3>2, <3>3, <3>4, PaidInBooks
  <2>12. ASSUME NEW j \in Ids, payment[j].debt # None
         PROVE  /\ payment'[j].debt = payment[j].debt
                /\ payment'[j].status = "PAID" \/ (payment[j].status # "PAID" /\ payment'[j].amount = payment[j].amount)
    <3>1. payment'[j] = paid[j]
      BY <2>6, <2>9, <2>12 DEF Fresh
    <3>. QED BY <2>5, <2>9, <3>1 DEF Answers
  <2>13. \A k \in Expenses : expense[k].state # "none" => expense'[k].debt = expense[k].debt
    BY <1>7, <2>8
  <2>14. Steady
    BY <2>12, <2>13 DEF Steady
  <2>. QED BY <1>1, <2>1, <2>11, <2>14, EndsInBooks, StepsInBooks DEF Goto
<1>9. CASE ~Claimed(i)
  <2>1. Refuse(p) /\ UNCHANGED <<payment, expense>>
    BY <1>3, <1>9 DEF Pay
  <2>. QED BY <1>1, <2>1, ReadsSteady, StepsInBooks DEF Refuse, End, Goto
<1>. QED BY <1>8, <1>9

\* Taking a payment back undoes it: what it paid is owed again, and its expense goes.
LEMMA UnpayInBooks ==
    ASSUME PaymentsInv, PaymentsInv', Separate, NEW p \in Requests, Unpay(p)
    PROVE  Books1(p)
<1>1. pc[p] = "write" /\ req[p].op = "revert" /\ End(p) /\ TypeOK /\ TypeOK'
  BY DEF Unpay, PaymentsInv
<1>2. /\ req[p].id \in Ids /\ payment[req[p].id] = req[p].row
      /\ \A q \in Requests \ {p} : pc[q] = "idle"
  BY <1>1, AsLoaded DEF Overlapping
<1>3. PICK i \in Ids : i = req[p].id
  BY <1>2
<1>4. payment \in [Ids -> Payment] /\ expense \in [Expenses -> Expense] /\ payment[i] \in Payment
  BY <1>1 DEF TypeOK
<1>5. PICK m \in Expenses \cup {None} : m = payment[i].movementId
  BY <1>4 DEF Payment
<1>6. CASE UNCHANGED <<payment, expense>>
  BY <1>1, <1>2, <1>6, ReadsInBooks, EndsInBooks
<1>7. CASE ~UNCHANGED <<payment, expense>>
  <2>1. /\ payment[i].status = "PAID" /\ payment[i].active /\ payment[i].exists
        /\ payment' = [payment EXCEPT ![i].status = "VALIDATED", ![i].movementId = None]
        /\ expense' = IF m # None /\ Live(m) THEN [expense EXCEPT ![m].state = "removed"] ELSE expense
    BY <1>2, <1>3, <1>5, <1>7 DEF Unpay
  <2>2. PICK new : new = [payment[i] EXCEPT !.status = "VALIDATED", !.movementId = None]
    OBVIOUS
  <2>3. /\ new \in Payment /\ new.exists /\ new.active /\ new.status = "VALIDATED"
        /\ new.debt = payment[i].debt /\ new.amount = payment[i].amount
    BY <1>4, <2>1, <2>2 DEF Payment, Status
  <2>4. payment' = [payment EXCEPT ![i] = new]
    BY <1>4, <2>1, <2>2
  <2>5. PICK d \in Debts : d = payment[i].debt
    BY <1>4, <2>1 DEF PaymentsInv, TablesAgree, LinksMatch, Payment
  <2>6. PICK a \in Nat : a = payment[i].amount
    BY <1>4 DEF Payment
  <2>7. ASSUME NEW x
        PROVE  /\ OwedIn(payment', x) = OwedIn(payment, x) + (IF x = d THEN a ELSE 0)
               /\ SettledIn(payment', x) = SettledIn(payment, x) - (IF x = d THEN a ELSE 0)
    <3>1. /\ ToPay(payment[i], x) = 0 /\ WasPaid(payment[i], x) = (IF x = d THEN a ELSE 0)
          /\ ToPay(new, x) = (IF x = d THEN a ELSE 0) /\ WasPaid(new, x) = 0
      BY <2>1, <2>3, <2>5, <2>6 DEF ToPay, WasPaid, Unpaid, Paid
    <3>2. /\ OwedIn(payment', x) = OwedIn(payment, x) - ToPay(payment[i], x) + ToPay(new, x)
          /\ SettledIn(payment', x) = SettledIn(payment, x) - WasPaid(payment[i], x) + WasPaid(new, x)
      BY <1>1, <2>3, <2>4, RowTells
    <3>3. OwedIn(payment, x) \in Nat /\ SettledIn(payment, x) \in Nat
      BY <1>4, SumsAreNatural
    <3>4. CASE x = d
      BY <3>1, <3>2, <3>3, <3>4
    <3>5. CASE x # d
      BY <3>1, <3>2, <3>3, <3>5
    <3>. QED BY <3>4, <3>5
  <2>8. ASSUME NEW x PROVE SpentIn(expense', x) <= SpentIn(expense, x) /\ (x # d => SpentIn(expense', x) = SpentIn(expense, x))
    <3>1. SpentIn(expense, x) \in Nat
      BY <1>4, SumsAreNatural
    <3>2. CASE expense' = expense
      BY <3>1, <3>2
    <3>3. CASE expense' # expense
      <4>1. m \in Expenses /\ Live(m) /\ expense' = [expense EXCEPT ![m].state = "removed"]
        BY <2>1, <3>3
      <4>2. PICK e : e = [expense[m] EXCEPT !.state = "removed"]
        OBVIOUS
      <4>3. expense[m] \in Expense /\ m # None
        BY <1>4, <4>1, PaymentsAssumption DEF Expenses
      <4>4. e \in Expense /\ e.state = "removed" /\ expense' = [expense EXCEPT ![m] = e]
        BY <4>1, <4>2, <4>3 DEF Expense
      <4>5. expense[m].debt = d
        BY <1>5, <2>5, <4>3 DEF PaymentsInv, TablesAgree, LinksMatch
      <4>6. Cost(e, x) = 0 /\ (x # d => Cost(expense[m], x) = 0)
        BY <4>4, <4>5 DEF Cost
      <4>7. Cost(expense[m], x) \in Nat
        BY <4>3 DEF Cost, Expense
      <4>8. SpentIn(expense', x) = SpentIn(expense, x) - Cost(expense[m], x) + Cost(e, x)
        BY ZenonT(40), <1>1, <4>1, <4>4, ExpenseTells
      <4>. QED BY <3>1, <4>6, <4>7, <4>8
    <3>. QED BY <3>2, <3>3
  <2>9. ASSUME NEW x \in Debts, x # d
        PROVE  /\ OwedIn(payment', x) = OwedIn(payment, x) /\ SettledIn(payment', x) = SettledIn(payment, x)
               /\ SpentIn(expense', x) = SpentIn(expense, x)
    <3>1. OwedIn(payment, x) \in Nat /\ SettledIn(payment, x) \in Nat
      BY <1>4, SumsAreNatural
    <3>2. OwedIn(payment', x) = OwedIn(payment, x) + 0 /\ SettledIn(payment', x) = SettledIn(payment, x) - 0
      BY <2>7, <2>9
    <3>. QED BY <2>8, <2>9, <3>1, <3>2
  <2>10. \E c \in Nat : /\ c <= SettledIn(payment, d)
                        /\ OwedIn(payment', d) = OwedIn(payment, d) + c
                        /\ SettledIn(payment', d) = SettledIn(payment, d) - c
                        /\ SpentIn(expense', d) <= SpentIn(expense, d)
    <3>1. OwedIn(payment', d) = OwedIn(payment, d) + a /\ SettledIn(payment', d) = SettledIn(payment, d) - a
      <4>1. /\ OwedIn(payment', d) = OwedIn(payment, d) + (IF d = d THEN a ELSE 0)
            /\ SettledIn(payment', d) = SettledIn(payment, d) - (IF d = d THEN a ELSE 0)
        BY <2>7
      <4>. QED BY <4>1
    <3>2. SettledIn(payment, d) \in Nat /\ SettledIn(payment', d) \in Nat
      <4>1. payment' \in [Ids -> Payment]
        BY <1>1 DEF TypeOK
      <4>. QED BY <1>4, <4>1, SumsAreNatural
    <3>3. a <= SettledIn(payment, d)
      <4>1. PICK t, u : t = SettledIn(payment, d) /\ u = SettledIn(payment', d)
        OBVIOUS
      <4>2. t \in Nat /\ u \in Nat /\ u = t - a
        BY <3>1, <3>2, <4>1
      <4>3. a <= t
        BY <4>2
      <4>. QED BY <4>1, <4>3
    <3>. QED BY <2>8, <3>1, <3>3
  <2>11. InBooks
    BY <1>1, <2>9, <2>10, BookStep DEF InBooks
  <2>. QED BY <1>1, <1>2, <2>11, EndsInBooks
<1>. QED BY <1>6, <1>7

\* Recreate is a step of the books, or none.
LEMMA RecreateInBooks ==
    ASSUME PaymentsInv, PaymentsInv', Separate, NEW p \in Requests, RecreateMovement(p)
    PROVE  Books1(p)
<1>1. pc[p] = "recreate" /\ End(p) /\ TypeOK /\ TypeOK'
  BY DEF RecreateMovement, PaymentsInv
<1>2. StepOf(req[p].op, "recreate") /\ Knows(req[p], "recreate") /\ req[p] \in Memory
  BY <1>1 DEF PaymentsInv, Remembers, TypeOK, Memory
<1>3. PICK i \in Ids : i = req[p].id
  BY <1>2 DEF Knows, OnRow, Repairing
<1>4. PICK row : row = req[p].row
  OBVIOUS
<1>5. row \in Payment /\ payment[i] = row
  BY <1>2, <1>3, <1>4 DEF Knows, Memory, Repairing
<1>6. \A q \in Requests \ {p} : pc[q] = "idle"
  BY <1>1, <1>2, WorksAlone DEF Overlapping, StepOf
<1>7. payment \in [Ids -> Payment] /\ expense \in [Expenses -> Expense]
  BY <1>1 DEF TypeOK
<1>8. PICK m \in Expenses :
        /\ FreshExpense(m)
        /\ expense' = [expense EXCEPT ![m] = [state |-> "live", amount |-> row.amount, debt |-> row.debt]]
        /\ payment' = [payment EXCEPT ![i].movementId = IF @ # m /\ payment[i].exists THEN m ELSE @]
  BY <1>3, <1>4 DEF RecreateMovement
<1>9. PICK new : new = [row EXCEPT !.movementId = IF @ # m /\ payment[i].exists THEN m ELSE @]
  OBVIOUS
<1>10. /\ new \in Payment /\ new.exists = row.exists /\ new.active = row.active
       /\ new.status = row.status /\ new.debt = row.debt /\ new.amount = row.amount
  BY <1>5, <1>9 DEF Payment
<1>11. payment' = [payment EXCEPT ![i] = new]
  BY <1>5, <1>8, <1>9
<1>12. ASSUME NEW x PROVE OwedIn(payment', x) = OwedIn(payment, x) /\ SettledIn(payment', x) = SettledIn(payment, x)
  <2>1. ToPay(payment[i], x) = ToPay(new, x) /\ WasPaid(payment[i], x) = WasPaid(new, x)
    BY <1>5, <1>10 DEF ToPay, WasPaid, Unpaid, Paid
  <2>. QED BY <1>1, <1>10, <1>11, <2>1, RowTells
<1>13. PICK spent : spent = [state |-> "live", amount |-> row.amount, debt |-> row.debt]
  OBVIOUS
<1>14. spent \in Expense /\ spent.debt = row.debt /\ expense' = [expense EXCEPT ![m] = spent] /\ expense[m].state = "none"
  BY <1>5, <1>8, <1>13 DEF Expense, Payment, FreshExpense
<1>15. ASSUME NEW x, x # row.debt PROVE SpentIn(expense', x) = SpentIn(expense, x)
  <2>1. Cost(expense[m], x) = Cost(spent, x)
    BY <1>14, <1>15 DEF Cost
  <2>. QED BY <1>1, <1>14, <2>1, ExpenseTells
<1>16. InBooks
  BY <1>1, <1>12, <1>15, CorrectsInBooks
<1>. QED BY <1>1, <1>6, <1>16, EndsInBooks

\* Sync is a step of the books, or none.
LEMMA SyncInBooks ==
    ASSUME BooksInv, PaymentsInv', NEW p \in Requests, SyncLinkedPayment(p)
    PROVE  Books1(p)
<1>1. /\ pc[p] = "sync" /\ End(p) /\ PaymentsInv /\ ReadsRight(p) /\ TypeOK /\ TypeOK'
      /\ payment \in [Ids -> Payment] /\ expense \in [Expenses -> Expense]
  BY DEF SyncLinkedPayment, BooksInv, PaymentsInv, TypeOK
<1>2. Knows(req[p], "sync") /\ req[p] \in Memory
  BY <1>1 DEF PaymentsInv, Remembers, TypeOK, Memory
<1>3. /\ req[p].m \in Expenses /\ expense[req[p].m].state # "none"
      /\ req[p].amount \in Nat /\ req[p].id \in Ids \cup {None}
  BY <1>2 DEF Knows, Memory
<1>4. PICK m \in Expenses : m = req[p].m
  BY <1>3
<1>5. PICK a \in Nat : a = req[p].amount
  BY <1>3
<1>6. PICK i : i = req[p].id
  OBVIOUS
<1>7. PICK new : new = [expense[m] EXCEPT !.state = "live", !.amount = a]
  OBVIOUS
<1>8. new \in Expense /\ new.debt = expense[m].debt /\ expense' = [expense EXCEPT ![m] = new]
  BY <1>1, <1>4, <1>5, <1>7 DEF Expense, SyncLinkedPayment
<1>9. CASE payment' = payment
  BY <1>1, <1>8, <1>9, ExpenseInBooks, EndsInBooks
<1>10. CASE payment' # payment
  <2>1. i \in Ids /\ i # None /\ payment' = [payment EXCEPT ![i].amount = a]
    BY <1>3, <1>5, <1>6, <1>10 DEF SyncLinkedPayment
  <2>2. payment[i].status = "PAID" /\ payment[i].debt = expense[m].debt
    BY <1>1, <1>4, <1>6, <2>1 DEF ReadsRight
  <2>3. PICK row : row = [payment[i] EXCEPT !.amount = a]
    OBVIOUS
  <2>4. row \in Payment /\ row.status = "PAID" /\ row.debt = expense[m].debt /\ payment' = [payment EXCEPT ![i] = row]
    BY <1>1, <2>1, <2>2, <2>3 DEF Payment
  <2>5. ASSUME NEW x PROVE OwedIn(payment', x) = OwedIn(payment, x)
    <3>1. ToPay(payment[i], x) = 0 /\ ToPay(row, x) = 0
      BY <2>2, <2>4 DEF ToPay, Unpaid
    <3>2. TypeOK /\ i \in Ids /\ row \in Payment /\ payment' = [payment EXCEPT ![i] = row] /\ ToPay(payment[i], x) = ToPay(row, x)
      BY <1>1, <2>1, <2>4, <3>1
    <3>. QED BY ONLY <3>2, RowTells
  <2>6. ASSUME NEW x, x # expense[m].debt
        PROVE  SettledIn(payment', x) = SettledIn(payment, x) /\ SpentIn(expense', x) = SpentIn(expense, x)
    <3>1. WasPaid(payment[i], x) = 0 /\ WasPaid(row, x) = 0 /\ Cost(expense[m], x) = 0 /\ Cost(new, x) = 0
      BY <1>8, <2>2, <2>4, <2>6 DEF WasPaid, Paid, Cost
    <3>2. SettledIn(payment', x) = SettledIn(payment, x)
      <4>1. TypeOK /\ i \in Ids /\ row \in Payment /\ payment' = [payment EXCEPT ![i] = row] /\ WasPaid(payment[i], x) = WasPaid(row, x)
        BY <1>1, <2>1, <2>4, <3>1
      <4>. QED BY ONLY <4>1, RowTells
    <3>3. SpentIn(expense', x) = SpentIn(expense, x)
      <4>1. TypeOK /\ m \in Expenses /\ new \in Expense /\ expense' = [expense EXCEPT ![m] = new] /\ Cost(expense[m], x) = Cost(new, x)
        BY <1>1, <1>8, <3>1
      <4>. QED BY ONLY <4>1, ExpenseTells
    <3>. QED BY <3>2, <3>3
  <2>7. InBooks
    BY <1>1, <2>5, <2>6, CorrectsInBooks
  <2>8. (\A j \in Ids : payment'[j] = IF j = i THEN row ELSE payment[j]) /\ \A k \in Expenses : expense'[k] = IF k = m THEN new ELSE expense[k]
    BY <1>1, <1>8, <2>1, <2>4
  <2>9. Steady
    BY <1>8, <2>2, <2>4, <2>8 DEF Steady
  <2>. QED BY <1>1, <2>7, <2>9, EndsInBooks
<1>. QED BY <1>9, <1>10

-----------------------------------------------------------------------------
(* The refinement                                                             *)

\* Every step of every request is a step of the books, or none.
LEMMA NextInBooks ==
    ASSUME BooksInv, PaymentsInv', Separate, [Next]_vars
    PROVE  BooksInv' /\ InBooks
<1>1. CASE UNCHANGED vars
  <2>1. InBooks
    BY <1>1, ReadsInBooks DEF vars
  <2>. QED BY <1>1, <2>1 DEF vars, BooksInv, ReadsRight
<1>2. ASSUME NEW p \in Requests, Begin(p) \/ Step(p) \/ Fails(p) \/ Dies(p) PROVE Books1(p)
  <2>0. PaymentsInv
    BY DEF BooksInv
  <2>1. CASE Begin(p)
    BY <2>0, <2>1, CreateInBooks, AsksInBooks, SpendInBooks, AbsorbInBooks DEF Begin
  <2>2. CASE SetRequested(p) \/ DropCreated(p) \/ \E a \in 0..Max(Amounts) : Load(p, a)
    BY <2>0, <2>2, SetRequestedInBooks, DropInBooks, LoadInBooks
  <2>3. CASE Validate(p) \/ Reject(p) \/ Cancel(p) \/ Remove(p) \/ Unvalidate(p)
    BY <2>0, <2>3, ValidateInBooks, SetsStatusInBooks, RemoveInBooks
  <2>4. CASE Pay(p) \/ Answer(p) \/ Unpay(p) \/ Update(p) \/ Reload(p) \/ IsLive(p) \/ Unlink(p)
    BY <2>0, <2>4, PayInBooks, UnpayInBooks, UpdateInBooks, AsksInBooks, UnlinkInBooks
  <2>5. CASE FindMovement(p) \/ SaveMovement(p) \/ RecreateMovement(p)
    BY <2>0, <2>5, AsksInBooks, SaveMovementInBooks, RecreateInBooks
  <2>6. CASE SaveExpense(p) \/ SyncLinkedPayment(p) \/ SoftRemove(p)
    BY <2>0, <2>6, SaveExpenseInBooks, SyncInBooks, SoftRemoveInBooks
  <2>7. CASE Fails(p) \/ Dies(p)
    BY <2>0, <2>7, AsksInBooks
  <2>. QED BY <1>2, <2>1, <2>2, <2>3, <2>4, <2>5, <2>6, <2>7 DEF Step
<1>3. ASSUME NEW p \in Requests, Books1(p) PROVE BooksInv' /\ InBooks
  BY <1>3, ReadsStayRight DEF Books1
<1>. QED BY <1>1, <1>2, <1>3 DEF Next

\* The books start empty, and nobody has read anything.
LEMMA InitInBooks ==
    ASSUME Init
    PROVE  BooksInv /\ Books!Init
<1>1. PaymentsInv /\ \A p \in Requests : ReadsRight(p)
  BY InitKeeps DEF Init, ReadsRight
<1>2. ASSUME NEW d PROVE Amount(d, FALSE) = 0 /\ Amount(d, TRUE) = 0 /\ Rows(d, TRUE) = {} /\ Expended(d) = {}
  <2>1. Rows(d, FALSE) = {} /\ Rows(d, TRUE) = {} /\ Expended(d) = {}
    BY DEF Init, Rows, Expended, Live, NoPayment, NoExpense
  <2>. QED BY <2>1, SumOfNone DEF Amount
<1>3. Owed = [d \in Debts |-> 0] /\ Settled = [d \in Debts |-> 0] /\ Spent = [d \in Debts |-> 0]
  BY <1>2, SumOfNone DEF Owed, Settled, Spent
<1>. QED BY <1>1, <1>3 DEF BooksInv, Books!Init

\* However validations, payments, and editions, removals and absorptions of expenses
\* overlap and fail, every step of a request is a step of the books: what is paid was
\* owed, is settled, and leaves the ledger in one step, and only taking it back makes it
\* owed again.
THEOREM PaymentsKeepTheBooks ==
    ASSUME Separate
    PROVE  Spec => PaymentsKeepBooks
<1>1. Init => BooksInv /\ Books!Init
  BY InitInBooks
<1>2. BooksInv /\ PaymentsInv' /\ [Next]_vars => BooksInv' /\ [Books!Next]_(Books!books)
  BY NextInBooks DEF InBooks
<1>. QED BY <1>1, <1>2, PaymentsStayInOrder, PTL DEF Spec, PaymentsKeepBooks, Books!Spec
=============================================================================
