------------------------------- MODULE Orders -------------------------------
(***************************************************************************)
(* Customer orders (take away, delivery, counter) and the stock they consume.  *)
(* A change of an order is one transaction under the row lock of the order; its *)
(* removal reads it without a lock and saves it later.  Stock follows outside:   *)
(* the sale of a new order and the return of a cancelled one are started after  *)
(* the commit and nobody waits for them.  They may run in any order and may be  *)
(* lost.  Stock never goes below zero.                                          *)
(***************************************************************************)
EXTENDS Integers, FiniteSets, FiniteSetsExt, Functions

CONSTANTS
    Orders,        \* bound: rows of the table customer_orders
    Clients,       \* browsers and tills that create and remove orders
    Keys,          \* idempotency keys (clientRequestId); a client may have none
    Quantities,    \* units a line may ask for
    InitialStock,  \* units of the product when the model starts
    MaxLost,       \* bound: stock movements that fail or die
    MaxAdjusted,   \* bound: corrections of the stock by hand
    MaxRemovers,   \* bound: clients that remove an order at once
    Together,      \* operations that may overlap with pending stock movements
    Alone,         \* operations asked for when nothing is pending
    None

ASSUME OrdersAssumption == IsFiniteSet(Orders) /\ Quantities \subseteq Nat /\ InitialStock \in Nat

VARIABLES
    order,     \* the table customer_orders
    client,    \* what each client is doing: the creation or removal under way
    stock,     \* the quantity of the product
    tasks,     \* stock movements started and not done
    adjusting, \* the correction under way: what it read, or None
    drift      \* why stock and orders differ: ghost, see StockAccounted

orderVars == <<order, client, stock, tasks, adjusting, drift>>

Flow   == <<"PENDING", "ACCEPTED", "PREPARING", "READY", "OUT_FOR_DELIVERY", "COMPLETED">>
Rank(s) == CHOOSE k \in DOMAIN Flow : Flow[k] = s
Live   == {Flow[k] : k \in DOMAIN Flow}
Status == Live \cup {"CANCELLED"}
Stamped == Live \ {"PENDING"}

\* `stamps' are the columns acceptedAt ... completedAt that are not null.
Order == [exists : BOOLEAN, removed : BOOLEAN, key : Keys \cup {None}, fulfillment : {"DELIVERY", "OTHER"},
          status : Status, qty : Nat, credited : BOOLEAN, stamps : SUBSET Stamped]
NoOrder == [exists |-> FALSE, removed |-> FALSE, key |-> None, fulfillment |-> "OTHER",
            status |-> "PENDING", qty |-> 0, credited |-> FALSE, stamps |-> {}]

Idle == [step |-> "idle", key |-> None, id |-> None, row |-> NoOrder]

Init ==
    /\ order = [i \in Orders |-> NoOrder] /\ client = [c \in Clients |-> Idle]
    /\ stock = InitialStock /\ tasks = {} /\ adjusting = None
    /\ drift = [why |-> 0, lost |-> 0, adjusted |-> 0, stale |-> FALSE]

Visible(i) == order[i].exists /\ ~order[i].removed
Removers   == {c \in Clients : client[c].step \in {"save", "softRemove"}}
ByKey(k)   == {i \in Orders : Visible(i) /\ k # None /\ order[i].key = k}
Quiet      == tasks = {} /\ adjusting = None /\ \A c \in Clients : client[c] = Idle
May(op)    == \/ op \in Together /\ adjusting = None /\ ("remove" \in Alone => Removers = {})
              \/ op \in Alone /\ Quiet
Start(i, direction, q) == tasks' = tasks \cup {[order |-> i, direction |-> direction, qty |-> q]}
Drifts(d)  == drift' = [drift EXCEPT !.why = @ + d]
-----------------------------------------------------------------------------
(* Creation                                                                   *)

\* A creation whose key is known answers with the order that has it.
LookUpKey(c, k) ==
    /\ May("create") /\ client[c] = Idle /\ ByKey(k) = {}
    /\ client' = [client EXCEPT ![c] = [Idle EXCEPT !.step = "insert", !.key = k]]
    /\ UNCHANGED <<order, stock, tasks, adjusting, drift>>

\* The unique index (shopId, clientRequestId) decides between two that both
\* missed; the loser answers with the order of the winner.
InsertsTwice(k) == TRUE
Inserts(k)      == ByKey(k) = {}

InsertOrder(c, f, q, byStaff) ==
    /\ client[c].step = "insert"
    /\ client' = [client EXCEPT ![c] = Idle]
    /\ IF Inserts(client[c].key)
         THEN \E i \in Orders :
                /\ ~order[i].exists /\ \A j \in Orders : j < i => order[j].exists
                /\ order' = [order EXCEPT ![i] =
                     [exists |-> TRUE, removed |-> FALSE, key |-> client[c].key, fulfillment |-> f,
                      status |-> IF byStaff THEN "PREPARING" ELSE "PENDING", qty |-> q, credited |-> FALSE,
                      stamps |-> IF byStaff THEN {"ACCEPTED", "PREPARING"} ELSE {}]]
                /\ Start(i, "consume", q)
         ELSE UNCHANGED <<order, tasks>>
    /\ UNCHANGED <<stock, adjusting, drift>>

-----------------------------------------------------------------------------
(* Status, payment, edition, removal                                          *)

\* forward and back of assertAllowedStatusTransition.
Forward(f, s) ==
    CASE s = "PENDING"          -> {"ACCEPTED", "CANCELLED"}
      [] s = "ACCEPTED"         -> {"PREPARING", "CANCELLED"}
      [] s = "PREPARING"        -> {"READY", "CANCELLED"}
      [] s = "READY"            -> {"COMPLETED"} \cup (IF f = "DELIVERY" THEN {"OUT_FOR_DELIVERY"} ELSE {})
      [] s = "OUT_FOR_DELIVERY" -> {"COMPLETED"}
      [] OTHER                  -> {}
Back(f, s) ==
    CASE s = "PENDING"                         -> {}
      [] s = "COMPLETED" /\ f # "DELIVERY"     -> {"READY"}
      [] OTHER                                 -> {Flow[Rank(s) - 1]}

\* The stamps after going to `next': its own is set, those of later states go.
Stamps(stamps, next) ==
    IF next = "CANCELLED" THEN stamps
    ELSE {s \in stamps \cup ({next} \ {"PENDING"}) : Rank(s) <= Rank(next)}

UpdateStatus(i, next) ==
    LET row == order[i] IN
    /\ May("status") /\ Visible(i) /\ row.status # "CANCELLED"
    /\ next \in Forward(row.fulfillment, row.status) \cup Back(row.fulfillment, row.status)
    /\ next = "COMPLETED" => row.credited
    /\ order' = [order EXCEPT ![i].status = next, ![i].stamps = Stamps(@, next)]
    /\ IF next = "CANCELLED" THEN Start(i, "restock", row.qty) ELSE UNCHANGED tasks
    /\ UNCHANGED <<client, stock, adjusting, drift>>

AcreditPayment(i) ==
    /\ May("credit") /\ Visible(i) /\ order[i].status # "CANCELLED" /\ ~order[i].credited
    /\ order' = [order EXCEPT ![i].credited = TRUE]
    /\ UNCHANGED <<client, stock, tasks, adjusting, drift>>

\* A payment is not taken back from a completed order: reopen it first.
MayDesacredit(row)    == row.status \notin {"CANCELLED", "COMPLETED"}

DesacreditPayment(i) ==
    /\ May("credit") /\ Visible(i) /\ MayDesacredit(order[i]) /\ order[i].credited
    /\ order' = [order EXCEPT ![i].credited = FALSE]
    /\ UNCHANGED <<client, stock, tasks, adjusting, drift>>

\* patchOrder replaces the lines; stock does not follow.
PatchOrder(i, q) ==
    /\ May("patch") /\ Visible(i) /\ order[i].status # "CANCELLED" /\ q # order[i].qty
    /\ order' = [order EXCEPT ![i].qty = q]
    /\ Drifts(q - order[i].qty)
    /\ UNCHANGED <<client, stock, tasks, adjusting>>

\* removeStaff reads the order without a lock, saves what it read with a suffix on
\* the key, so that it is free again, and then deletes softly: three statements.  What
\* others wrote in between is undone; `stale' remembers it when stock is concerned.
RemoveStaff(c, i) ==
    /\ May("remove") /\ client[c] = Idle /\ Visible(i) /\ Cardinality(Removers) < MaxRemovers
    /\ client' = [client EXCEPT ![c] = [Idle EXCEPT !.step = "save", !.id = i, !.row = order[i]]]
    /\ UNCHANGED <<order, stock, tasks, adjusting, drift>>

SameSale(row, other) == row.status = other.status /\ row.qty = other.qty
FreesKey(row) == [row EXCEPT !.key = None]

SaveRemoved(c) ==
    /\ client[c].step = "save"
    /\ order' = [order EXCEPT ![client[c].id] = FreesKey(client[c].row)]
    /\ drift' = [drift EXCEPT !.stale = @ \/ ~SameSale(client[c].row, order[client[c].id])]
    /\ client' = [client EXCEPT ![c].step = "softRemove"]
    /\ UNCHANGED <<stock, tasks, adjusting>>

SoftRemove(c) ==
    /\ client[c].step = "softRemove"
    /\ order' = [order EXCEPT ![client[c].id].removed = TRUE]
    /\ client' = [client EXCEPT ![c] = Idle]
    /\ UNCHANGED <<stock, tasks, adjusting, drift>>

-----------------------------------------------------------------------------
(* Stock                                                                      *)

\* A sale takes what there is.
Restocked(q)     == stock + q
ConsumedTwice(q) == IF 2 * q > stock THEN 0 ELSE stock - 2 * q
Consumed(q)      == IF q > stock THEN 0 ELSE stock - q

\* One transaction under the row lock of the product.
ApplySaleStock(t) ==
    /\ t \in tasks /\ tasks' = tasks \ {t}
    /\ IF t.direction = "restock"
         THEN stock' = Restocked(t.qty) /\ UNCHANGED drift
         ELSE stock' = Consumed(t.qty) /\ Drifts(Max({0, t.qty - stock}))
    /\ UNCHANGED <<order, client, adjusting>>

\* The stock movement fails, or the process dies before it.
LoseTask(t) ==
    /\ t \in tasks /\ tasks' = tasks \ {t} /\ drift.lost < MaxLost
    /\ drift' = [drift EXCEPT !.lost = @ + 1, !.why = @ + (IF t.direction = "consume" THEN t.qty ELSE -t.qty)]
    /\ UNCHANGED <<order, client, stock, adjusting>>

\* adjustQuantity, addQuantity, updateProduct and restockProducts read the product
\* and save it later, without a lock.
ReadProduct ==
    /\ May("adjust") /\ adjusting = None /\ drift.adjusted < MaxAdjusted
    /\ adjusting' = stock
    /\ UNCHANGED <<order, client, stock, tasks, drift>>

SaveProduct(delta) ==
    /\ adjusting # None
    /\ LET after == Max({0, adjusting + delta}) IN
       /\ stock' = after
       /\ drift' = [drift EXCEPT !.why = @ + (after - adjusting), !.adjusted = @ + 1]
    /\ adjusting' = None
    /\ UNCHANGED <<order, client, tasks>>

Next ==
    \/ \E c \in Clients : \/ \E k \in Keys \cup {None} : LookUpKey(c, k)
                          \/ \E f \in {"DELIVERY", "OTHER"}, q \in Quantities, s \in BOOLEAN : InsertOrder(c, f, q, s)
                          \/ \E i \in Orders : RemoveStaff(c, i)
                          \/ SaveRemoved(c) \/ SoftRemove(c)
    \/ \E i \in Orders : \/ \E next \in Status : UpdateStatus(i, next)
                         \/ AcreditPayment(i) \/ DesacreditPayment(i)
                         \/ \E q \in Quantities : PatchOrder(i, q)
    \/ \E t \in tasks : ApplySaleStock(t) \/ LoseTask(t)
    \/ ReadProduct \/ \E delta \in {-1, 1} : SaveProduct(delta)

Spec == Init /\ [][Next]_orderVars
-----------------------------------------------------------------------------
(* Properties                                                                 *)

\* What each order says was sold, and the orders that are not cancelled.
Sold     == [i \in DOMAIN order |-> order[i].qty]
Standing == {i \in DOMAIN order : order[i].exists /\ order[i].status # "CANCELLED"}

\* When no stock movement is pending, the stock is what it was minus what the
\* orders that are not cancelled say was sold, up to what is known to go wrong:
\* sales of more than there was, lost movements, editions, corrections.  Whatever
\* the order in which sale, return and correction reach the product, until a removal
\* puts back a state or a quantity that was changed while it ran.
StockAccounted ==
    tasks = {} /\ adjusting = None /\ ~drift.stale =>
      stock = InitialStock + drift.why - SumFunctionOnSet(Sold, Standing)

\* Sending the same creation again does not make a second order.
OneOrderPerKey ==
    \A i, j \in DOMAIN order :
        Visible(i) /\ Visible(j) /\ order[i].key = order[j].key /\ order[i].key # None => i = j

\* An order that is completed has been paid for, and stays so until it is reopened.
CompletedIsCredited ==
    \A i \in DOMAIN order : order[i].exists /\ order[i].status = "COMPLETED" => order[i].credited

\* What the kitchen's times are computed from: an order has no stamp of a state it
\* has not reached or was taken back from.
StampsMatchStatus ==
    \A i \in DOMAIN order : order[i].exists /\ order[i].status # "CANCELLED" =>
        \A s \in order[i].stamps : Rank(s) <= Rank(order[i].status)

\* A key makes one order, a completed order is credited, and stamps tell the status,
\* whatever clients, kitchen and tills do at the same time.
OrdersOnceAndPaid == OneOrderPerKey /\ CompletedIsCredited /\ StampsMatchStatus
=============================================================================
