---------------------------- MODULE CounterProofs ----------------------------
(***************************************************************************)
(* Orders, their stock, the reservations of a day and the reimbursements, for  *)
(* any number of orders, clients, bookings, requests and rows, and any sizes   *)
(* and quantities.                                                             *)
(***************************************************************************)
EXTENDS Orders, Reservations, Reimbursements, Sums

-----------------------------------------------------------------------------
(* Orders and stock                                                           *)

RemovalSteps == {"save", "softRemove"}
Caller == [step : {"idle", "insert"} \cup RemovalSteps, key : Keys \cup {None}, id : Orders \cup {None}, row : Order]

\* What a row says by itself.
RowRight(r) ==
    /\ r.status = "COMPLETED" => r.credited
    /\ r.status # "CANCELLED" => \A s \in r.stamps : Rank(s) <= Rank(r.status)

\* Who removes an order has read a row that was right when it was read.
RemovalsRight ==
    \A c \in Clients : client[c].step \in RemovalSteps =>
        /\ client[c].id \in Orders /\ order[client[c].id].exists
        /\ client[c].row.exists /\ RowRight(client[c].row)

\* The properties are inductive once rows and requests have their shape.
OrdersInv ==
    /\ order \in [Orders -> Order]
    /\ client \in [Clients -> Caller]
    /\ RemovalsRight
    /\ OrdersOnceAndPaid

\* The states of an order, in their order.
LEMMA RankOfState == /\ Rank("PENDING") = 1 /\ Rank("ACCEPTED") = 2 /\ Rank("PREPARING") = 3
                     /\ Rank("READY") = 4 /\ Rank("OUT_FOR_DELIVERY") = 5 /\ Rank("COMPLETED") = 6
<1>1. DOMAIN Flow = 1..6 /\ Flow[1] = "PENDING" /\ Flow[2] = "ACCEPTED" /\ Flow[3] = "PREPARING"
      /\ Flow[4] = "READY" /\ Flow[5] = "OUT_FOR_DELIVERY" /\ Flow[6] = "COMPLETED"
  BY DEF Flow
<1>2. ASSUME NEW k \in 1..6 PROVE Rank(Flow[k]) = k
  <2>1. \A m \in DOMAIN Flow : Flow[m] = Flow[k] => m = k
    BY <1>1, <1>2
  <2>. QED BY <1>1, <1>2, <2>1 DEF Rank
<1>. QED BY <1>1, <1>2

\* A step that writes one row, whose key is its own, nobody's or none.
LEMMA OneRow ==
    ASSUME OrdersInv, NEW i \in Orders, NEW r \in Order, order' = [order EXCEPT ![i] = r],
           r.exists, r.key = None \/ (r.key = order[i].key /\ (~r.removed => Visible(i)))
                     \/ (\A j \in Orders : Visible(j) => order[j].key # r.key),
           RowRight(r)
    PROVE  /\ order' \in [Orders -> Order] /\ OrdersOnceAndPaid'
           /\ \A j \in Orders : order[j].exists => order'[j].exists
<1>1. order' \in [Orders -> Order] /\ DOMAIN order = Orders /\ DOMAIN order' = Orders
  BY DEF OrdersInv
<1>2. order'[i] = r /\ \A j \in Orders \ {i} : order'[j] = order[j]
  BY DEF OrdersInv
<1>3. OneOrderPerKey'
  BY <1>1, <1>2 DEF OrdersInv, OrdersOnceAndPaid, OneOrderPerKey, Visible
<1>4. CompletedIsCredited'
  BY <1>1, <1>2 DEF OrdersInv, OrdersOnceAndPaid, CompletedIsCredited, RowRight
<1>5. StampsMatchStatus'
  BY <1>1, <1>2 DEF OrdersInv, OrdersOnceAndPaid, StampsMatchStatus, RowRight
<1>. QED BY <1>1, <1>2, <1>3, <1>4, <1>5 DEF OrdersOnceAndPaid

\* Who was removing an order still does, or has ended.
LEMMA StillRemoving ==
    ASSUME OrdersInv, \A j \in Orders : order[j].exists => order'[j].exists,
           \A c \in Clients : client'[c].step \in RemovalSteps =>
               client[c].step \in RemovalSteps /\ client'[c].id = client[c].id /\ client'[c].row = client[c].row
    PROVE  RemovalsRight'
  BY DEF OrdersInv, RemovalsRight, RowRight

\* A step that changes columns of one visible row, its key not among them.
LEMMA RowChanges ==
    ASSUME OrdersInv, NEW i \in Orders, Visible(i), NEW r \in Order, order' = [order EXCEPT ![i] = r],
           r.exists, r.key = None \/ (r.key = order[i].key /\ ~r.removed), UNCHANGED client,
           RowRight(r)
    PROVE  OrdersInv'
<1>1. order' \in [Orders -> Order] /\ OrdersOnceAndPaid' /\ \A j \in Orders : order[j].exists => order'[j].exists
  BY OneRow
<1>2. RemovalsRight'
  BY <1>1, StillRemoving
<1>. QED BY <1>1, <1>2 DEF OrdersInv

\* The invariant holds at the start.
LEMMA OrdersInvInit == Init => OrdersInv
<1>. SUFFICES ASSUME Init PROVE OrdersInv
  OBVIOUS
<1>1. NoOrder \in Order
  BY DEF NoOrder, Order, Status, Live, Flow
<1>2. order \in [Orders -> Order] /\ client \in [Clients -> Caller]
  BY <1>1 DEF Init, Idle, Caller
<1>4. RemovalsRight
  BY DEF Init, Idle, RemovalsRight, RemovalSteps
<1>3. OrdersOnceAndPaid
  BY DEF Init, OrdersOnceAndPaid, OneOrderPerKey, CompletedIsCredited, StampsMatchStatus, Visible, NoOrder
<1>. QED BY <1>2, <1>3, <1>4 DEF OrdersInv

\* A client that does nothing.
LEMMA IdleCaller == Idle \in Caller /\ Idle.step = "idle" /\ Idle.step \notin RemovalSteps
<1>1. NoOrder \in Order
  BY DEF NoOrder, Order, Status, Live, Flow
<1>. QED BY <1>1 DEF Idle, Caller, RemovalSteps

\* The stamps that are left are those of states up to the new one.
LEMMA StampsOf ==
    ASSUME NEW stamps \in SUBSET Stamped, NEW next \in Status
    PROVE  /\ Stamps(stamps, next) \subseteq Stamped
           /\ next # "CANCELLED" => \A s \in Stamps(stamps, next) : Rank(s) <= Rank(next)
BY DEF Stamps, Stamped, Status

\* Every step keeps it.
LEMMA OrdersInvNext == OrdersInv /\ [Next]_orderVars => OrdersInv'
<1>. SUFFICES ASSUME OrdersInv, [Next]_orderVars PROVE OrdersInv'
  OBVIOUS
<1>. USE DEF OrdersInv
<1>2. CASE UNCHANGED order /\ client' \in [Clients -> Caller] /\ RemovalsRight'
  BY <1>2 DEF OrdersOnceAndPaid, OneOrderPerKey, CompletedIsCredited, StampsMatchStatus, Visible
<1>0. CASE UNCHANGED <<order, client>>
  BY <1>0, <1>2, StillRemoving
<1>1. CASE UNCHANGED orderVars
  BY <1>0, <1>1 DEF orderVars
<1>3. ASSUME NEW c \in Clients, NEW k \in Keys \cup {None}, LookUpKey(c, k) PROVE OrdersInv'
  <2>. DEFINE r == [Idle EXCEPT !.step = "insert", !.key = k]
  <2>1. UNCHANGED order /\ client' = [client EXCEPT ![c] = r]
    BY <1>3 DEF LookUpKey
  <2>2. r \in Caller /\ r.step \notin RemovalSteps
    BY IdleCaller DEF Caller, RemovalSteps
  <2>. HIDE DEF r
  <2>3. client' \in [Clients -> Caller] /\ \A d \in Clients : client'[d] = IF d = c THEN r ELSE client[d]
    BY <2>1, <2>2
  <2>4. RemovalsRight'
    BY <2>1, <2>2, <2>3, StillRemoving
  <2>. QED BY <1>2, <2>1, <2>3, <2>4
<1>4. ASSUME NEW c \in Clients, NEW f \in {"DELIVERY", "OTHER"}, NEW q \in Quantities, NEW s \in BOOLEAN,
             InsertOrder(c, f, q, s)
      PROVE  OrdersInv'
  <2>1. /\ client' \in [Clients -> Caller]
        /\ \A d \in Clients : client'[d] = IF d = c THEN Idle ELSE client[d]
    BY <1>4, IdleCaller DEF InsertOrder
  <2>4. ASSUME \A j \in Orders : order[j].exists => order'[j].exists PROVE RemovalsRight'
    BY <2>1, <2>4, IdleCaller, StillRemoving
  <2>2. CASE UNCHANGED order
    BY <1>2, <2>1, <2>2, <2>4
  <2>3. CASE ~UNCHANGED order
    <3>. DEFINE r == [exists |-> TRUE, removed |-> FALSE, key |-> client[c].key, fulfillment |-> f,
                      status |-> IF s THEN "PREPARING" ELSE "PENDING", qty |-> q, credited |-> FALSE,
                      stamps |-> IF s THEN {"ACCEPTED", "PREPARING"} ELSE {}]
    <3>1. ByKey(client[c].key) = {} /\ \E i \in Orders : ~order[i].exists /\ order' = [order EXCEPT ![i] = r]
      BY <1>4, <2>3 DEF InsertOrder, Inserts
    <3>2. PICK i \in Orders : ~order[i].exists /\ order' = [order EXCEPT ![i] = r]
      BY <3>1
    <3>3. r \in Order
      <4>1. client[c].key \in Keys \cup {None}
        BY DEF Caller
      <4>. QED BY <4>1, OrdersAssumption DEF Order, Status, Stamped, Live, Flow
    <3>4. r.key = None \/ \A j \in Orders : Visible(j) => order[j].key # r.key
      BY <3>1 DEF ByKey
    <3>5. RowRight(r)
      BY RankOfState DEF RowRight
    <3>6. r.exists
      OBVIOUS
    <3>7. order' \in [Orders -> Order] /\ OrdersOnceAndPaid' /\ \A j \in Orders : order[j].exists => order'[j].exists
      <4>. HIDE DEF r
      <4>. QED BY <3>2, <3>3, <3>4, <3>5, <3>6, OneRow
    <3>. QED BY <2>1, <2>4, <3>7
  <2>. QED BY <2>2, <2>3
<1>5. ASSUME NEW i \in Orders, NEW next \in Status, UpdateStatus(i, next) PROVE OrdersInv'
  <2>. DEFINE r == [order[i] EXCEPT !.status = next, !.stamps = Stamps(@, next)]
  <2>1. order' = [order EXCEPT ![i] = r] /\ Visible(i) /\ UNCHANGED client
    BY <1>5 DEF UpdateStatus
  <2>2. order[i].stamps \in SUBSET Stamped /\ order[i] \in Order
    BY DEF Order
  <2>3. /\ Stamps(order[i].stamps, next) \subseteq Stamped
        /\ next # "CANCELLED" => \A s \in Stamps(order[i].stamps, next) : Rank(s) <= Rank(next)
    BY <2>2, StampsOf
  <2>4. r \in Order /\ r.status = next /\ r.stamps = Stamps(order[i].stamps, next)
        /\ r.exists = order[i].exists /\ r.removed = order[i].removed /\ r.key = order[i].key
        /\ r.credited = order[i].credited
    BY <2>2, <2>3 DEF Order
  <2>5. order[i].exists /\ ~order[i].removed /\ (next = "COMPLETED" => order[i].credited)
    BY <1>5 DEF UpdateStatus, Visible
  <2>. HIDE DEF r
  <2>. QED BY <2>1, <2>3, <2>4, <2>5, RowChanges DEF RowRight
<1>6. ASSUME NEW i \in Orders, AcreditPayment(i) PROVE OrdersInv'
  <2>. DEFINE r == [order[i] EXCEPT !.credited = TRUE]
  <2>1. order' = [order EXCEPT ![i] = r] /\ Visible(i) /\ UNCHANGED client /\ order[i] \in Order
    BY <1>6 DEF AcreditPayment
  <2>2. r \in Order /\ r.credited /\ r.exists = order[i].exists /\ r.removed = order[i].removed
        /\ r.key = order[i].key /\ r.status = order[i].status /\ r.stamps = order[i].stamps
    BY <2>1 DEF Order
  <2>3. r.status # "CANCELLED" => \A s \in r.stamps : Rank(s) <= Rank(r.status)
    BY <2>1, <2>2 DEF OrdersOnceAndPaid, StampsMatchStatus, Visible
  <2>. HIDE DEF r
  <2>. QED BY <2>1, <2>2, <2>3, RowChanges DEF Visible, RowRight
<1>7. ASSUME NEW i \in Orders, DesacreditPayment(i) PROVE OrdersInv'
  <2>. DEFINE r == [order[i] EXCEPT !.credited = FALSE]
  <2>1. order' = [order EXCEPT ![i] = r] /\ Visible(i) /\ UNCHANGED client /\ order[i] \in Order
        /\ order[i].status # "COMPLETED"
    BY <1>7 DEF DesacreditPayment, MayDesacredit
  <2>2. r \in Order /\ r.exists = order[i].exists /\ r.removed = order[i].removed
        /\ r.key = order[i].key /\ r.status = order[i].status /\ r.stamps = order[i].stamps
    BY <2>1 DEF Order
  <2>3. r.status # "CANCELLED" => \A s \in r.stamps : Rank(s) <= Rank(r.status)
    BY <2>1, <2>2 DEF OrdersOnceAndPaid, StampsMatchStatus, Visible
  <2>. HIDE DEF r
  <2>. QED BY <2>1, <2>2, <2>3, RowChanges DEF Visible, RowRight
<1>8. ASSUME NEW i \in Orders, NEW q \in Quantities, PatchOrder(i, q) PROVE OrdersInv'
  <2>. DEFINE r == [order[i] EXCEPT !.qty = q]
  <2>1. order' = [order EXCEPT ![i] = r] /\ Visible(i) /\ UNCHANGED client /\ order[i] \in Order
    BY <1>8 DEF PatchOrder
  <2>2. r \in Order /\ r.exists = order[i].exists /\ r.removed = order[i].removed /\ r.credited = order[i].credited
        /\ r.key = order[i].key /\ r.status = order[i].status /\ r.stamps = order[i].stamps
    BY <2>1, OrdersAssumption DEF Order
  <2>3. /\ r.status # "CANCELLED" => \A s \in r.stamps : Rank(s) <= Rank(r.status)
        /\ r.status = "COMPLETED" => r.credited
    BY <2>1, <2>2 DEF OrdersOnceAndPaid, StampsMatchStatus, CompletedIsCredited, Visible
  <2>. HIDE DEF r
  <2>. QED BY <2>1, <2>2, <2>3, RowChanges DEF Visible, RowRight
<1>9. ASSUME NEW c \in Clients, NEW i \in Orders, RemoveStaff(c, i) PROVE OrdersInv'
  <2>. DEFINE r == [Idle EXCEPT !.step = "save", !.id = i, !.row = order[i]]
  <2>1. UNCHANGED order /\ client' = [client EXCEPT ![c] = r] /\ Visible(i) /\ order[i] \in Order
    BY <1>9 DEF RemoveStaff
  <2>2. r \in Caller /\ r.step = "save" /\ r.id = i /\ r.row = order[i]
    BY <2>1, IdleCaller DEF Caller, RemovalSteps
  <2>3. RowRight(order[i]) /\ order[i].exists
    BY <2>1 DEF OrdersOnceAndPaid, StampsMatchStatus, CompletedIsCredited, Visible, RowRight
  <2>. HIDE DEF r
  <2>4. client' \in [Clients -> Caller] /\ \A d \in Clients : client'[d] = IF d = c THEN r ELSE client[d]
    BY <2>1, <2>2
  <2>5. RemovalsRight'
    BY <2>1, <2>2, <2>3, <2>4 DEF RemovalsRight, RowRight
  <2>. QED BY <1>2, <2>1, <2>4, <2>5
<1>12. ASSUME NEW c \in Clients, SaveRemoved(c) PROVE OrdersInv'
  <2>. DEFINE i == client[c].id
              r == FreesKey(client[c].row)
              n == [client[c] EXCEPT !.step = "softRemove"]
  <2>1. order' = [order EXCEPT ![i] = r] /\ client' = [client EXCEPT ![c] = n] /\ client[c].step = "save"
    BY <1>12 DEF SaveRemoved
  <2>2. i \in Orders /\ order[i].exists /\ client[c].row.exists /\ RowRight(client[c].row) /\ client[c] \in Caller
    BY <2>1 DEF RemovalsRight, RemovalSteps
  <2>3. client[c].row \in Order
    BY <2>2 DEF Caller
  <2>4. r \in Order /\ r.key = None /\ r.exists /\ RowRight(r)
    BY <2>2, <2>3 DEF FreesKey, Order, RowRight
  <2>5. n \in Caller /\ n.id = i /\ n.row = client[c].row
    BY <2>2 DEF Caller, RemovalSteps
  <2>. HIDE DEF i, r, n
  <2>6. client' \in [Clients -> Caller] /\ \A d \in Clients : client'[d] = IF d = c THEN n ELSE client[d]
    BY <2>1, <2>5
  <2>7. order' \in [Orders -> Order] /\ OrdersOnceAndPaid' /\ \A j \in Orders : order[j].exists => order'[j].exists
    BY <2>1, <2>2, <2>4, OneRow
  <2>8. RemovalsRight'
    BY <2>1, <2>5, <2>6, <2>7, StillRemoving DEF i, RemovalSteps
  <2>. QED BY <2>6, <2>7, <2>8
<1>13. ASSUME NEW c \in Clients, SoftRemove(c) PROVE OrdersInv'
  <2>. DEFINE i == client[c].id
              r == [order[i] EXCEPT !.removed = TRUE]
  <2>1. order' = [order EXCEPT ![i] = r] /\ client' = [client EXCEPT ![c] = Idle] /\ client[c].step = "softRemove"
    BY <1>13 DEF SoftRemove
  <2>2. i \in Orders /\ order[i].exists /\ order[i] \in Order
    BY <2>1 DEF RemovalsRight, RemovalSteps
  <2>3. r \in Order /\ r.key = order[i].key /\ r.removed /\ r.exists
        /\ r.credited = order[i].credited /\ r.status = order[i].status /\ r.stamps = order[i].stamps
    BY <2>2 DEF Order
  <2>4. RowRight(r)
    BY <2>2, <2>3 DEF OrdersOnceAndPaid, StampsMatchStatus, CompletedIsCredited, RowRight
  <2>. HIDE DEF i, r
  <2>5. client' \in [Clients -> Caller] /\ \A d \in Clients : client'[d] = IF d = c THEN Idle ELSE client[d]
    BY <2>1, IdleCaller
  <2>6. order' \in [Orders -> Order] /\ OrdersOnceAndPaid' /\ \A j \in Orders : order[j].exists => order'[j].exists
    BY <2>1, <2>2, <2>3, <2>4, OneRow
  <2>7. RemovalsRight'
    BY <2>5, <2>6, IdleCaller, StillRemoving
  <2>. QED BY <2>5, <2>6, <2>7
<1>10. ASSUME NEW t \in tasks, ApplySaleStock(t) \/ LoseTask(t) PROVE OrdersInv'
  BY <1>0, <1>10 DEF ApplySaleStock, LoseTask
<1>11. ASSUME NEW delta \in {-1, 1}, ReadProduct \/ SaveProduct(delta) PROVE OrdersInv'
  BY <1>0, <1>11 DEF ReadProduct, SaveProduct
<1>. QED BY <1>1, <1>12, <1>13, <1>3, <1>4, <1>5, <1>6, <1>7, <1>8, <1>9, <1>10, <1>11 DEF Next

\* For any number of orders, clients, keys and quantities, whatever overlaps: orders and
\* clients keep their shape (customer-orders.service.ts).
THEOREM OrdersStayInOrder == Spec => []OrdersInv
<1>1. Init => OrdersInv
  BY OrdersInvInit
<1>2. OrdersInv /\ [Next]_orderVars => OrdersInv'
  BY OrdersInvNext
<1>. QED BY <1>1, <1>2, PTL DEF Spec

\* A creation sent again makes no second order, a completed order is credited, and no
\* order has the time of a state it is not in or past.
THEOREM OrdersAreOnceAndPaid == Spec => []OrdersOnceAndPaid
<1>1. OrdersInv => OrdersOnceAndPaid
  BY DEF OrdersInv
<1>. QED BY <1>1, OrdersStayInOrder, PTL

-----------------------------------------------------------------------------
(* The stock                                                                  *)

\* Corrections of a product by hand overlap with nothing: one that overlaps with a
\* sale loses it, for it saves what it read.
AdjustAlone == "adjust" \notin Together

Task == [order : Orders, direction : {"consume", "restock"}, qty : Nat]

\* What the stock will lose when the movement is applied.
Owed == [t \in tasks |-> IF t.direction = "consume" THEN t.qty ELSE -t.qty]

\* A return is started once: its order stays cancelled.
TasksAreTrue ==
    /\ IsFiniteSet(tasks) /\ tasks \subseteq Task
    /\ \A t \in tasks : /\ order[t.order].exists
                        /\ t.direction = "restock" => order[t.order].status = "CANCELLED"

\* Who corrects the product found nothing pending, and nothing starts meanwhile.
NothingMeanwhile ==
    adjusting # None => tasks = {} /\ stock = adjusting /\ \A c \in Clients : client[c] = Idle

Balanced ==
    stock = InitialStock + drift.why - SumFunctionOnSet(Sold, Standing) + SumFunctionOnSet(Owed, tasks)

StockInv ==
    /\ OrdersInv /\ TasksAreTrue /\ NothingMeanwhile /\ Balanced
    /\ stock \in Int /\ drift \in [why : Int, lost : Int, adjusted : Int, stale : BOOLEAN]

\* What orders and tasks add up to is a number.
LEMMA SumsAreNumbers ==
    ASSUME order \in [Orders -> Order], TasksAreTrue
    PROVE  SumFunctionOnSet(Sold, Standing) \in Int /\ SumFunctionOnSet(Owed, tasks) \in Int
<1>1. DOMAIN order = Orders /\ Standing \subseteq Orders
  BY DEF Standing
<1>2. IsFiniteSet(Standing)
  BY <1>1, OrdersAssumption, FS_Subset
<1>3. \A i \in Standing : Sold[i] \in Int
  BY <1>1 DEF Sold, Order
<1>4. \A t \in tasks : Owed[t] \in Int
  BY DEF Owed, TasksAreTrue, Task
<1>5. SumFunctionOnSet(Sold, Standing) \in Int
  BY <1>2, <1>3, SumTakes
<1>6. SumFunctionOnSet(Owed, tasks) \in Int
  BY <1>4, SumTakes DEF TasksAreTrue
<1>. QED BY <1>5, <1>6

\* What a step that writes one row does to what was sold.
LEMMA RowSold ==
    ASSUME order \in [Orders -> Order], NEW i \in Orders, NEW r \in Order, order' = [order EXCEPT ![i] = r]
    PROVE  SumFunctionOnSet(Sold, Standing)' = SumFunctionOnSet(Sold, Standing)
             - (IF i \in Standing THEN order[i].qty ELSE 0) + (IF i \in Standing' THEN r.qty ELSE 0)
<1>1. DOMAIN order = Orders /\ DOMAIN order' = Orders /\ order'[i] = r /\ order' \in [Orders -> Order]
      /\ \A j \in Orders \ {i} : order'[j] = order[j]
  OBVIOUS
<1>2. Standing' \subseteq Orders /\ Standing \ {i} = Standing' \ {i} /\ Standing \subseteq Orders
  BY <1>1 DEF Standing
<1>3. IsFiniteSet(Standing) /\ IsFiniteSet(Standing')
  BY <1>2, OrdersAssumption, FS_Subset
<1>4. /\ \A j \in Orders : Sold[j] = order[j].qty /\ Sold[j] \in Int
      /\ \A j \in Orders : Sold'[j] = order'[j].qty /\ Sold'[j] \in Int
  BY <1>1 DEF Sold, Order
<1>5. /\ \A j \in Standing : Sold[j] \in Int
      /\ \A j \in Standing' : Sold'[j] \in Int
      /\ \A j \in Standing \ {i} : Sold'[j] = Sold[j]
  BY <1>1, <1>2, <1>4
<1>6. OneChanges(Sold, Sold', Standing, Standing', i)
  BY <1>2, <1>3, <1>5 DEF OneChanges
<1>7. SumFunctionOnSet(Sold', Standing') = SumFunctionOnSet(Sold, Standing)
             - (IF i \in Standing THEN Sold[i] ELSE 0) + (IF i \in Standing' THEN Sold'[i] ELSE 0)
  BY <1>6, SumChanges
<1>. QED BY <1>1, <1>4, <1>7

\* What a movement takes from the stock.
Takes(t) == IF t.direction = "consume" THEN t.qty ELSE -t.qty

\* What starting or ending a movement does to what is owed.
LEMMA TaskOwed ==
    ASSUME TasksAreTrue, NEW t \in Task,
           (t \notin tasks /\ tasks' = tasks \cup {t}) \/ (t \in tasks /\ tasks' = tasks \ {t})
    PROVE  /\ IsFiniteSet(tasks') /\ tasks' \subseteq Task /\ Takes(t) \in Int
           /\ t \notin tasks => SumFunctionOnSet(Owed, tasks)' = SumFunctionOnSet(Owed, tasks) + Takes(t)
           /\ t \in tasks    => SumFunctionOnSet(Owed, tasks)' = SumFunctionOnSet(Owed, tasks) - Takes(t)
<1>1. IsFiniteSet(tasks') /\ tasks' \subseteq Task /\ tasks \subseteq Task /\ IsFiniteSet(tasks)
  BY FS_AddElement, FS_RemoveElement DEF TasksAreTrue
<1>2. \A u \in Task : Takes(u) \in Int
  BY DEF Task, Takes
<1>3. /\ \A u \in tasks : Owed[u] = Takes(u)
      /\ \A u \in tasks' : Owed'[u] = Takes(u)
  BY DEF Owed, Takes
<1>4. tasks \ {t} = tasks' \ {t}
  OBVIOUS
<1>5. OneChanges(Owed, Owed', tasks, tasks', t)
  <2>1. /\ \A u \in tasks : Owed[u] \in Int
        /\ \A u \in tasks' : Owed'[u] \in Int
        /\ \A u \in tasks \ {t} : Owed'[u] = Owed[u]
    BY <1>1, <1>2, <1>3, <1>4
  <2>. QED BY <1>1, <1>4, <2>1 DEF OneChanges
<1>6. /\ SumFunctionOnSet(Owed, tasks) \in Int
      /\ SumFunctionOnSet(Owed', tasks') = SumFunctionOnSet(Owed, tasks)
             - (IF t \in tasks THEN Owed[t] ELSE 0) + (IF t \in tasks' THEN Owed'[t] ELSE 0)
  BY <1>5, SumChanges
<1>7. CASE t \in tasks
  <2>1. t \notin tasks'
    BY <1>7
  <2>2. SumFunctionOnSet(Owed', tasks') = SumFunctionOnSet(Owed, tasks) - Takes(t)
    BY <1>2, <1>3, <1>6, <1>7, <2>1
  <2>. QED BY <1>1, <1>2, <1>7, <2>2
<1>8. CASE t \notin tasks
  <2>1. t \in tasks'
    BY <1>8
  <2>2. SumFunctionOnSet(Owed', tasks') = SumFunctionOnSet(Owed, tasks) + Takes(t)
    BY <1>2, <1>3, <1>6, <1>8, <2>1
  <2>. QED BY <1>1, <1>2, <1>8, <2>2
<1>. QED BY <1>7, <1>8

\* The larger of two numbers.
LEMMA LargerOfTwo == \A n \in Int : Max({0, n}) = IF n > 0 THEN n ELSE 0
<1>. SUFFICES ASSUME NEW n \in Int PROVE Max({0, n}) = IF n > 0 THEN n ELSE 0
  OBVIOUS
<1>. DEFINE m == IF n > 0 THEN n ELSE 0
<1>1. m \in {0, n} /\ \A y \in {0, n} : m >= y
  OBVIOUS
<1>2. \A x \in {0, n} : (\A y \in {0, n} : x >= y) => x = m
  OBVIOUS
<1>. QED BY <1>1, <1>2 DEF Max

\* A balance whose sides change by as much is kept.
LEMMA BalanceKept ==
    ASSUME NEW n \in Int, NEW s \in Int, NEW w \in Int, NEW a \in Int, NEW b \in Int,
           NEW ds \in Int, NEW dw \in Int, NEW da \in Int, NEW db \in Int,
           s = n + w - a + b, ds = dw - da + db
    PROVE  s + ds = n + (w + dw) - (a + da) + (b + db)
  OBVIOUS

\* A step that changes stock, drift, what was sold and what is owed by as much.
LEMMA KeepsBalance ==
    ASSUME StockInv, OrdersInv', TasksAreTrue', NothingMeanwhile', drift' \in [why : Int, lost : Int, adjusted : Int, stale : BOOLEAN],
           NEW ds \in Int, NEW dw \in Int, NEW da \in Int, NEW db \in Int,
           stock' = stock + ds, drift'.why = drift.why + dw,
           SumFunctionOnSet(Sold, Standing)' = SumFunctionOnSet(Sold, Standing) + da,
           SumFunctionOnSet(Owed, tasks)' = SumFunctionOnSet(Owed, tasks) + db,
           ds = dw - da + db
    PROVE  StockInv'
<1>1. SumFunctionOnSet(Sold, Standing) \in Int /\ SumFunctionOnSet(Owed, tasks) \in Int
  <2>1. order \in [Orders -> Order] /\ TasksAreTrue
    BY DEF StockInv, OrdersInv
  <2>. QED BY <2>1, SumsAreNumbers
<1>2. stock \in Int /\ drift.why \in Int /\ InitialStock \in Int
  BY OrdersAssumption DEF StockInv
<1>3. Balanced'
  <2>1. stock = InitialStock + drift.why - SumFunctionOnSet(Sold, Standing) + SumFunctionOnSet(Owed, tasks)
    BY DEF StockInv, Balanced
  <2>2. stock + ds = InitialStock + (drift.why + dw) - (SumFunctionOnSet(Sold, Standing) + da)
                       + (SumFunctionOnSet(Owed, tasks) + db)
    BY <1>1, <1>2, <2>1, BalanceKept
  <2>. QED BY <2>2 DEF Balanced
<1>4. stock' \in Int
  BY <1>2
<1>. QED BY <1>3, <1>4 DEF StockInv

\* The stock is accounted for at the start.
LEMMA StockInvInit == Init => StockInv
<1>. SUFFICES ASSUME Init PROVE StockInv
  OBVIOUS
<1>1. Standing = {} /\ tasks = {}
  BY DEF Init, Standing, NoOrder
<1>2. SumFunctionOnSet(Sold, Standing) = 0 /\ SumFunctionOnSet(Owed, tasks) = 0
  BY <1>1, SumOfNone
<1>3. stock = InitialStock /\ drift.why = 0 /\ InitialStock \in Int /\ drift \in [why : Int, lost : Int, adjusted : Int, stale : BOOLEAN]
  BY OrdersAssumption DEF Init
<1>4. Balanced
  BY <1>2, <1>3 DEF Balanced
<1>5. TasksAreTrue
  BY <1>1, FS_EmptySet DEF TasksAreTrue
<1>6. NothingMeanwhile
  BY DEF Init, NothingMeanwhile
<1>. QED BY <1>3, <1>4, <1>5, <1>6, OrdersInvInit DEF StockInv

\* A step that leaves the orders alone sold nothing; one that leaves the tasks alone
\* owes what was owed.
LEMMA NothingSold ==
    /\ UNCHANGED order => SumFunctionOnSet(Sold, Standing)' = SumFunctionOnSet(Sold, Standing)
    /\ UNCHANGED tasks => SumFunctionOnSet(Owed, tasks)' = SumFunctionOnSet(Owed, tasks)
BY DEF Sold, Standing, Owed

\* A step that writes a row and starts nothing.
LEMMA RowAlone ==
    ASSUME StockInv, OrdersInv', adjusting = None, NEW i \in Orders, NEW r \in Order, order' = [order EXCEPT ![i] = r],
           order[i].exists, r.exists, order[i].status = "CANCELLED" <=> r.status = "CANCELLED",
           UNCHANGED <<stock, tasks, adjusting>>, drift' \in [why : Int, lost : Int, adjusted : Int, stale : BOOLEAN],
           drift'.why = drift.why + (IF r.status = "CANCELLED" THEN 0 ELSE r.qty - order[i].qty)
    PROVE  StockInv'
<1>1. order \in [Orders -> Order] /\ order[i] \in Order /\ DOMAIN order = Orders
      /\ order' \in [Orders -> Order] /\ DOMAIN order' = Orders /\ order'[i] = r /\ TasksAreTrue
      /\ \A j \in Orders \ {i} : order'[j] = order[j]
  BY DEF StockInv, OrdersInv
<1>2. r.qty \in Int /\ order[i].qty \in Int
  BY <1>1 DEF Order
<1>3. TasksAreTrue'
  BY <1>1 DEF TasksAreTrue, Task
<1>4. NothingMeanwhile'
  BY DEF NothingMeanwhile
<1>5. PICK d \in Int : d = IF r.status = "CANCELLED" THEN 0 ELSE r.qty - order[i].qty
  BY <1>2
<1>6. SumFunctionOnSet(Sold, Standing)' = SumFunctionOnSet(Sold, Standing) + d
  <2>1. (i \in Standing <=> r.status # "CANCELLED") /\ (i \in Standing' <=> r.status # "CANCELLED")
    BY <1>1 DEF Standing
  <2>2. SumFunctionOnSet(Sold, Standing)' = SumFunctionOnSet(Sold, Standing)
             - (IF i \in Standing THEN order[i].qty ELSE 0) + (IF i \in Standing' THEN r.qty ELSE 0)
    BY <1>1, RowSold
  <2>3. SumFunctionOnSet(Sold, Standing) \in Int
    BY <1>1, SumsAreNumbers
  <2>. QED BY <1>2, <1>5, <2>1, <2>2, <2>3
<1>7. SumFunctionOnSet(Owed, tasks)' = SumFunctionOnSet(Owed, tasks) + 0
  <2>1. SumFunctionOnSet(Owed, tasks) \in Int
    BY <1>1, SumsAreNumbers
  <2>. QED BY <2>1, NothingSold
<1>8. stock' = stock + 0 /\ drift'.why = drift.why + d /\ 0 = d - d + 0 /\ 0 \in Int
  BY <1>5 DEF StockInv
<1>. QED BY <1>3, <1>4, <1>5, <1>6, <1>7, <1>8, KeepsBalance

\* A step that writes a row and starts the movement that follows.
LEMMA RowWithTask ==
    ASSUME StockInv, OrdersInv', adjusting = None, NEW i \in Orders, NEW r \in Order, order' = [order EXCEPT ![i] = r],
           NEW t \in Task, t.order = i, tasks' = tasks \cup {t}, r.exists, UNCHANGED <<stock, adjusting, drift>>,
           \/ ~order[i].exists /\ t.direction = "consume" /\ r.status # "CANCELLED" /\ t.qty = r.qty
           \/ order[i].exists /\ t.direction = "restock" /\ order[i].status # "CANCELLED" /\ r.status = "CANCELLED"
                /\ t.qty = order[i].qty
    PROVE  StockInv'
<1>1. order \in [Orders -> Order] /\ order[i] \in Order /\ DOMAIN order = Orders
      /\ order' \in [Orders -> Order] /\ DOMAIN order' = Orders /\ order'[i] = r /\ TasksAreTrue
      /\ \A j \in Orders \ {i} : order'[j] = order[j]
  BY DEF StockInv, OrdersInv
<1>2. t \notin tasks
  BY <1>1 DEF TasksAreTrue
<1>3. /\ IsFiniteSet(tasks') /\ tasks' \subseteq Task /\ Takes(t) \in Int
      /\ SumFunctionOnSet(Owed, tasks)' = SumFunctionOnSet(Owed, tasks) + Takes(t)
  BY <1>1, <1>2, TaskOwed
<1>4. TasksAreTrue'
  <2>1. ASSUME NEW u \in tasks' PROVE order'[u.order].exists /\ (u.direction = "restock" => order'[u.order].status = "CANCELLED")
    <3>1. CASE u = t
      BY <1>1, <3>1
    <3>2. CASE u \in tasks
      <4>1. u.order \in Orders /\ order[u.order].exists /\ (u.direction = "restock" => order[u.order].status = "CANCELLED")
        BY <1>1, <3>2 DEF TasksAreTrue, Task
      <4>. QED BY <1>1, <4>1
    <3>. QED BY <3>1, <3>2
  <2>. QED BY <1>3, <2>1 DEF TasksAreTrue
<1>5. NothingMeanwhile'
  BY DEF NothingMeanwhile
<1>6. SumFunctionOnSet(Sold, Standing)' = SumFunctionOnSet(Sold, Standing) + Takes(t)
  <2>1. SumFunctionOnSet(Sold, Standing)' = SumFunctionOnSet(Sold, Standing)
             - (IF i \in Standing THEN order[i].qty ELSE 0) + (IF i \in Standing' THEN r.qty ELSE 0)
    BY <1>1, RowSold
  <2>2. (i \in Standing <=> order[i].exists /\ order[i].status # "CANCELLED") /\ (i \in Standing' <=> r.status # "CANCELLED")
    BY <1>1 DEF Standing
  <2>3. SumFunctionOnSet(Sold, Standing) \in Int /\ r.qty \in Int /\ order[i].qty \in Int
    BY <1>1, SumsAreNumbers DEF Order
  <2>. QED BY <2>1, <2>2, <2>3 DEF Takes
<1>7. stock' = stock + 0 /\ drift'.why = drift.why + 0 /\ 0 = 0 - Takes(t) + Takes(t) /\ 0 \in Int
      /\ drift' \in [why : Int, lost : Int, adjusted : Int, stale : BOOLEAN]
  BY <1>3 DEF StockInv
<1>. QED BY <1>3, <1>4, <1>5, <1>6, <1>7, KeepsBalance

\* What may happen finds no correction under way.
LEMMA MayAlone == \A op : May(op) => adjusting = None
BY DEF May, Quiet

\* A client that is creating or removing an order neither.
LEMMA BusyAlone == ASSUME StockInv, NEW c \in Clients, client[c].step # "idle" PROVE adjusting = None
BY DEF StockInv, NothingMeanwhile, Idle

\* A new order, and the sale that follows it.
LEMMA StockInsert ==
    ASSUME StockInv, OrdersInv', NEW c \in Clients, NEW f \in {"DELIVERY", "OTHER"}, NEW q \in Quantities,
           NEW s \in BOOLEAN, InsertOrder(c, f, q, s)
    PROVE  StockInv'
<1>1. adjusting = None /\ UNCHANGED <<stock, adjusting, drift>>
  BY BusyAlone DEF InsertOrder
<1>2. CASE ~Inserts(client[c].key)
  <2>1. UNCHANGED <<order, tasks>>
    BY <1>2 DEF InsertOrder
  <2>2. UNCHANGED <<Sold, Standing, Owed>>
    BY <2>1 DEF Sold, Standing, Owed
  <2>. QED BY <1>1, <2>1, <2>2 DEF StockInv, TasksAreTrue, NothingMeanwhile, Balanced
<1>3. CASE Inserts(client[c].key)
  <2>. DEFINE r == [exists |-> TRUE, removed |-> FALSE, key |-> client[c].key, fulfillment |-> f,
                    status |-> IF s THEN "PREPARING" ELSE "PENDING", qty |-> q, credited |-> FALSE,
                    stamps |-> IF s THEN {"ACCEPTED", "PREPARING"} ELSE {}]
              t(i) == [order |-> i, direction |-> "consume", qty |-> q]
  <2>1. \E i \in Orders : ~order[i].exists /\ order' = [order EXCEPT ![i] = r] /\ tasks' = tasks \cup {t(i)}
    BY <1>3 DEF InsertOrder, Start
  <2>2. PICK i \in Orders : ~order[i].exists /\ order' = [order EXCEPT ![i] = r] /\ tasks' = tasks \cup {t(i)}
    BY <2>1
  <2>3. order \in [Orders -> Order] /\ order' \in [Orders -> Order] /\ order'[i] = r
    BY <2>2 DEF StockInv, OrdersInv
  <2>4. r \in Order
    BY <2>3
  <2>5. t(i) \in Task /\ t(i).order = i /\ t(i).direction = "consume" /\ t(i).qty = r.qty
    BY OrdersAssumption DEF Task
  <2>6. r.exists /\ r.status # "CANCELLED"
    OBVIOUS
  <2>. HIDE DEF r, t
  <2>. QED BY <1>1, <2>2, <2>4, <2>5, <2>6, RowWithTask
<1>. QED BY <1>2, <1>3

\* Going to a state; the cancelled order gives back what it sold.
LEMMA StockStatus ==
    ASSUME StockInv, OrdersInv', NEW i \in Orders, NEW next \in Status, UpdateStatus(i, next)
    PROVE  StockInv'
<1>. DEFINE r == [order[i] EXCEPT !.status = next, !.stamps = Stamps(@, next)]
            t == [order |-> i, direction |-> "restock", qty |-> order[i].qty]
<1>1. adjusting = None /\ UNCHANGED <<client, stock, adjusting, drift>> /\ order' = [order EXCEPT ![i] = r]
      /\ order[i].exists /\ order[i].status # "CANCELLED"
  BY MayAlone DEF UpdateStatus, Visible
<1>2. order \in [Orders -> Order] /\ order[i] \in Order /\ order' \in [Orders -> Order] /\ order'[i] = r
  BY <1>1 DEF StockInv, OrdersInv
<1>3. r \in Order
  BY <1>2
<1>4. r.exists /\ r.status = next /\ r.qty = order[i].qty /\ order[i].qty \in Nat
  BY <1>1, <1>2 DEF Order
<1>5. CASE next = "CANCELLED"
  <2>1. tasks' = tasks \cup {t}
    BY <1>5 DEF UpdateStatus, Start
  <2>2. t \in Task /\ t.order = i /\ t.direction = "restock" /\ t.qty = order[i].qty
    BY <1>4 DEF Task
  <2>. HIDE DEF r, t
  <2>. QED BY <1>1, <1>3, <1>4, <1>5, <2>1, <2>2, RowWithTask
<1>6. CASE next # "CANCELLED"
  <2>1. UNCHANGED tasks
    BY <1>6 DEF UpdateStatus
  <2>2. drift' \in [why : Int, lost : Int, adjusted : Int, stale : BOOLEAN] /\ drift'.why = drift.why + (r.qty - order[i].qty)
    <3>1. drift.why \in Int /\ drift \in [why : Int, lost : Int, adjusted : Int, stale : BOOLEAN]
      BY DEF StockInv
    <3>. HIDE DEF r
    <3>. QED BY <1>1, <1>4, <3>1
  <2>. HIDE DEF r
  <2>. QED BY <1>1, <1>3, <1>4, <1>6, <2>1, <2>2, RowAlone
<1>. QED BY <1>5, <1>6

\* Payment leaves what was sold; an edition changes it, and the stock does not follow.
LEMMA StockOtherRows ==
    ASSUME StockInv, OrdersInv', NEW i \in Orders,
           AcreditPayment(i) \/ DesacreditPayment(i) \/ \E q \in Quantities : PatchOrder(i, q)
    PROVE  StockInv'
<1>1. drift.why \in Int /\ drift \in [why : Int, lost : Int, adjusted : Int, stale : BOOLEAN] /\ order \in [Orders -> Order]
      /\ order' \in [Orders -> Order] /\ order[i] \in Order /\ order[i].qty \in Int
  BY DEF StockInv, OrdersInv, Order
<1>2. ASSUME NEW r, order' = [order EXCEPT ![i] = r], order[i].exists, r.exists <=> order[i].exists, r.status = order[i].status,
             r.qty = order[i].qty, adjusting = None, UNCHANGED <<client, stock, tasks, adjusting, drift>>
      PROVE  StockInv'
  <2>1. r \in Order
    BY <1>1, <1>2
  <2>2. drift'.why = drift.why + (IF r.status = "CANCELLED" THEN 0 ELSE r.qty - order[i].qty)
    BY <1>1, <1>2
  <2>. QED BY <1>1, <1>2, <2>1, <2>2, RowAlone
<1>3. CASE AcreditPayment(i)
  <2>. DEFINE r == [order[i] EXCEPT !.credited = TRUE]
  <2>1. order' = [order EXCEPT ![i] = r] /\ order[i].exists /\ adjusting = None
        /\ UNCHANGED <<client, stock, tasks, adjusting, drift>>
    BY <1>3, MayAlone DEF AcreditPayment, Visible
  <2>2. (r.exists <=> order[i].exists) /\ r.status = order[i].status /\ r.qty = order[i].qty
    BY <1>1 DEF Order
  <2>. HIDE DEF r
  <2>. QED BY <1>2, <2>1, <2>2
<1>4. CASE DesacreditPayment(i)
  <2>. DEFINE r == [order[i] EXCEPT !.credited = FALSE]
  <2>1. order' = [order EXCEPT ![i] = r] /\ order[i].exists /\ adjusting = None
        /\ UNCHANGED <<client, stock, tasks, adjusting, drift>>
    BY <1>4, MayAlone DEF DesacreditPayment, Visible
  <2>2. (r.exists <=> order[i].exists) /\ r.status = order[i].status /\ r.qty = order[i].qty
    BY <1>1 DEF Order
  <2>. HIDE DEF r
  <2>. QED BY <1>2, <2>1, <2>2
<1>6. ASSUME NEW q \in Quantities, PatchOrder(i, q) PROVE StockInv'
  <2>. DEFINE r == [order[i] EXCEPT !.qty = q]
  <2>1. order' = [order EXCEPT ![i] = r] /\ order[i].exists /\ order[i].status # "CANCELLED" /\ adjusting = None
        /\ UNCHANGED <<client, stock, tasks, adjusting>> /\ drift' = [drift EXCEPT !.why = @ + (q - order[i].qty)]
    BY <1>6, MayAlone DEF PatchOrder, Visible, Drifts
  <2>2. (r.exists <=> order[i].exists) /\ r.status = order[i].status /\ r.qty = q /\ q \in Int
    BY <1>1, OrdersAssumption DEF Order
  <2>3. r \in Order
    BY <1>1, <2>1
  <2>4. drift' \in [why : Int, lost : Int, adjusted : Int, stale : BOOLEAN] /\ drift'.why = drift.why + (q - order[i].qty)
    BY <1>1, <2>1, <2>2
  <2>. HIDE DEF r
  <2>. QED BY <2>1, <2>2, <2>3, <2>4, RowAlone
<1>. QED BY <1>3, <1>4, <1>6

\* A removal that puts back no state and no quantity leaves what was sold.
LEMMA StockRemoval ==
    ASSUME StockInv, OrdersInv', NEW c \in Clients, SaveRemoved(c) \/ SoftRemove(c), ~drift'.stale
    PROVE  StockInv'
<1>. DEFINE i == client[c].id
<1>1. i \in Orders /\ order[i].exists /\ client[c].row.exists /\ client[c] \in Caller /\ adjusting = None
  BY BusyAlone DEF StockInv, OrdersInv, RemovalsRight, RemovalSteps, SaveRemoved, SoftRemove
<1>2. client[c].row \in Order /\ order \in [Orders -> Order] /\ order[i] \in Order
      /\ drift.why \in Int /\ drift \in [why : Int, lost : Int, adjusted : Int, stale : BOOLEAN] /\ order[i].qty \in Int
  BY <1>1 DEF Caller, StockInv, OrdersInv, Order
<1>3. PICK r : /\ order' = [order EXCEPT ![i] = r] /\ r \in Order /\ r.exists
               /\ r.status = order[i].status /\ r.qty = order[i].qty
               /\ UNCHANGED <<stock, tasks, adjusting>>
               /\ drift' \in [why : Int, lost : Int, adjusted : Int, stale : BOOLEAN] /\ drift'.why = drift.why
  <2>1. CASE SaveRemoved(c)
    <3>. DEFINE r == FreesKey(client[c].row)
    <3>1. order' = [order EXCEPT ![i] = r] /\ UNCHANGED <<stock, tasks, adjusting>>
          /\ drift' = [drift EXCEPT !.stale = @ \/ ~SameSale(client[c].row, order[i])]
      BY <2>1 DEF SaveRemoved
    <3>2. r \in Order /\ r.exists /\ r.status = client[c].row.status /\ r.qty = client[c].row.qty
      BY <1>1, <1>2 DEF FreesKey, Order
    <3>3. /\ SameSale(client[c].row, order[i])
          /\ drift' \in [why : Int, lost : Int, adjusted : Int, stale : BOOLEAN] /\ drift'.why = drift.why
      BY <1>2, <3>1
    <3>. HIDE DEF r
    <3>. QED BY <3>1, <3>2, <3>3 DEF SameSale
  <2>2. CASE SoftRemove(c)
    <3>. DEFINE r == [order[i] EXCEPT !.removed = TRUE]
    <3>1. order' = [order EXCEPT ![i] = r] /\ UNCHANGED <<stock, tasks, adjusting, drift>>
      BY <2>2 DEF SoftRemove
    <3>2. r \in Order /\ r.exists /\ r.status = order[i].status /\ r.qty = order[i].qty
      BY <1>1, <1>2 DEF Order
    <3>. HIDE DEF r
    <3>. QED BY <1>2, <3>1, <3>2
  <2>. QED BY <2>1, <2>2
<1>4. drift'.why = drift.why + (IF r.status = "CANCELLED" THEN 0 ELSE r.qty - order[i].qty)
  BY <1>2, <1>3
<1>. QED BY <1>1, <1>3, <1>4, RowAlone

\* The end of a stock movement, applied or lost.
LEMMA StockMoves ==
    ASSUME StockInv, OrdersInv', NEW t \in tasks, ApplySaleStock(t) \/ LoseTask(t)
    PROVE  StockInv'
<1>1. t \in Task /\ tasks' = tasks \ {t} /\ UNCHANGED <<order, client, adjusting>> /\ adjusting = None
  BY DEF StockInv, TasksAreTrue, ApplySaleStock, LoseTask, NothingMeanwhile
<1>2. /\ IsFiniteSet(tasks') /\ tasks' \subseteq Task /\ Takes(t) \in Int
      /\ SumFunctionOnSet(Owed, tasks)' = SumFunctionOnSet(Owed, tasks) - Takes(t)
  BY <1>1, TaskOwed DEF StockInv
<1>3. TasksAreTrue' /\ NothingMeanwhile'
  BY <1>1, <1>2 DEF StockInv, TasksAreTrue, NothingMeanwhile
<1>4. /\ stock \in Int /\ drift.why \in Int /\ drift \in [why : Int, lost : Int, adjusted : Int, stale : BOOLEAN]
      /\ SumFunctionOnSet(Sold, Standing) \in Int /\ SumFunctionOnSet(Owed, tasks) \in Int
  BY SumsAreNumbers DEF StockInv, OrdersInv
<1>5. SumFunctionOnSet(Sold, Standing)' = SumFunctionOnSet(Sold, Standing) + 0
  BY <1>1, <1>4, NothingSold
<1>6. SumFunctionOnSet(Owed, tasks)' = SumFunctionOnSet(Owed, tasks) + (-Takes(t))
  BY <1>2, <1>4
<1>7. t.qty \in Nat /\ t.direction \in {"consume", "restock"}
  BY <1>1 DEF Task
<1>8. \E ds, dw \in Int : /\ stock' = stock + ds /\ drift'.why = drift.why + dw /\ ds = dw - 0 + (-Takes(t))
                          /\ drift' \in [why : Int, lost : Int, adjusted : Int, stale : BOOLEAN]
  <2>1. CASE ApplySaleStock(t) /\ t.direction = "restock"
    <3>1. stock' = stock + t.qty /\ drift' = drift /\ Takes(t) = -t.qty
      BY <1>7, <2>1 DEF ApplySaleStock, Restocked, Takes
    <3>. QED BY <1>4, <1>7, <3>1
  <2>2. CASE ApplySaleStock(t) /\ t.direction = "consume"
    <3>1. /\ stock' = IF t.qty > stock THEN 0 ELSE stock - t.qty
          /\ drift' = [drift EXCEPT !.why = @ + Max({0, t.qty - stock})] /\ Takes(t) = t.qty
      BY <1>7, <2>2 DEF ApplySaleStock, Consumed, Drifts, Takes
    <3>2. t.qty - stock \in Int
      BY <1>4, <1>7
    <3>3. PICK dw \in Int : dw = (IF t.qty - stock > 0 THEN t.qty - stock ELSE 0) /\ Max({0, t.qty - stock}) = dw
      BY <3>2, LargerOfTwo
    <3>4. stock' = stock + (dw - t.qty) /\ dw - t.qty \in Int /\ dw - t.qty = dw - 0 + (-t.qty)
      BY <1>4, <1>7, <3>1, <3>3
    <3>5. drift'.why = drift.why + dw /\ drift' \in [why : Int, lost : Int, adjusted : Int, stale : BOOLEAN]
      <4>1. drift' = [drift EXCEPT !.why = drift.why + dw]
        BY <1>4, <3>1, <3>3
      <4>2. PICK w \in Int : w = drift.why + dw
        BY <1>4
      <4>. QED BY <1>4, <4>1, <4>2
    <3>. QED BY <3>1, <3>4, <3>5
  <2>3. CASE LoseTask(t)
    <3>1. stock' = stock /\ drift' = [drift EXCEPT !.lost = @ + 1, !.why = @ + Takes(t)]
      BY <2>3 DEF LoseTask, Takes
    <3>2. drift'.why = drift.why + Takes(t) /\ drift' \in [why : Int, lost : Int, adjusted : Int, stale : BOOLEAN]
      <4>1. drift' = [why |-> drift.why + Takes(t), lost |-> drift.lost + 1, adjusted |-> drift.adjusted, stale |-> drift.stale]
        BY <1>4, <3>1
      <4>2. drift.why + Takes(t) \in Int /\ drift.lost + 1 \in Int /\ drift.adjusted \in Int
        BY <1>2, <1>4
      <4>3. drift.stale \in BOOLEAN
        BY <1>4
      <4>4. PICK w \in Int, l \in Int : w = drift.why + Takes(t) /\ l = drift.lost + 1
        BY <4>2
      <4>. QED BY <4>1, <4>2, <4>3, <4>4
    <3>3. stock' = stock + 0 /\ 0 = Takes(t) - 0 + (-Takes(t)) /\ 0 \in Int
      BY <1>2, <1>4, <3>1
    <3>. QED BY <1>2, <3>2, <3>3
  <2>. QED BY <1>7, <2>1, <2>2, <2>3
<1>9. PICK ds \in Int, dw \in Int : /\ stock' = stock + ds /\ drift'.why = drift.why + dw /\ ds = dw - 0 + (-Takes(t))
                                    /\ drift' \in [why : Int, lost : Int, adjusted : Int, stale : BOOLEAN]
  BY <1>8
<1>10. -Takes(t) \in Int /\ 0 \in Int
  BY <1>2
<1>. QED BY <1>3, <1>5, <1>6, <1>9, <1>10, KeepsBalance

\* A correction by hand, when nothing overlaps with it.
LEMMA StockCorrected ==
    ASSUME AdjustAlone, StockInv, OrdersInv', NEW delta \in {-1, 1}, ReadProduct \/ SaveProduct(delta)
    PROVE  StockInv'
<1>1. UNCHANGED <<order, client, tasks>>
  BY DEF ReadProduct, SaveProduct
<1>2. TasksAreTrue'
  BY <1>1 DEF StockInv, TasksAreTrue
<1>3. /\ SumFunctionOnSet(Sold, Standing)' = SumFunctionOnSet(Sold, Standing) + 0
      /\ SumFunctionOnSet(Owed, tasks)' = SumFunctionOnSet(Owed, tasks) + 0
  <2>1. SumFunctionOnSet(Sold, Standing) \in Int /\ SumFunctionOnSet(Owed, tasks) \in Int
    BY SumsAreNumbers DEF StockInv, OrdersInv
  <2>. QED BY <1>1, <2>1, NothingSold
<1>4. stock \in Int /\ drift.why \in Int /\ drift \in [why : Int, lost : Int, adjusted : Int, stale : BOOLEAN]
  BY DEF StockInv
<1>5. CASE ReadProduct
  <2>1. Quiet /\ adjusting' = stock /\ UNCHANGED <<stock, drift>>
    BY <1>5 DEF ReadProduct, May, AdjustAlone
  <2>2. NothingMeanwhile'
    BY <1>1, <2>1 DEF NothingMeanwhile, Quiet
  <2>3. stock' = stock + 0 /\ drift'.why = drift.why + 0 /\ 0 = 0 - 0 + 0 /\ 0 \in Int
    BY <1>4, <2>1
  <2>. QED BY <1>2, <1>3, <1>4, <2>1, <2>2, <2>3, KeepsBalance
<1>6. CASE SaveProduct(delta)
  <2>1. adjusting = stock
    BY <1>6 DEF SaveProduct, StockInv, NothingMeanwhile
  <2>2. PICK after \in Int : after = Max({0, adjusting + delta})
    BY <1>4, <2>1, LargerOfTwo
  <2>3. /\ stock' = after /\ drift' = [drift EXCEPT !.why = @ + (after - adjusting), !.adjusted = @ + 1]
        /\ adjusting' = None
    BY <1>6, <2>2 DEF SaveProduct
  <2>4. NothingMeanwhile'
    BY <2>3 DEF NothingMeanwhile
  <2>5. PICK d \in Int : d = after - stock
    BY <1>4
  <2>6. stock' = stock + d /\ d = d - 0 + 0 /\ 0 \in Int
    BY <1>4, <2>3, <2>5
  <2>7. drift'.why = drift.why + d /\ drift' \in [why : Int, lost : Int, adjusted : Int, stale : BOOLEAN]
    <3>1. drift' = [why |-> drift.why + d, lost |-> drift.lost, adjusted |-> drift.adjusted + 1, stale |-> drift.stale]
      BY <1>4, <2>1, <2>3, <2>5
    <3>2. drift.why + d \in Int /\ drift.lost \in Int /\ drift.adjusted + 1 \in Int
      BY <1>4
    <3>3. drift.stale \in BOOLEAN
      BY <1>4
    <3>4. PICK w \in Int, a \in Int : w = drift.why + d /\ a = drift.adjusted + 1
      BY <3>2
    <3>. QED BY <3>1, <3>2, <3>3, <3>4
  <2>. QED BY <1>2, <1>3, <2>4, <2>5, <2>6, <2>7, KeepsBalance
<1>. QED BY <1>5, <1>6

\* Every step keeps it.
LEMMA StockInvNext == ASSUME AdjustAlone PROVE StockInv /\ [Next]_orderVars /\ ~drift'.stale => StockInv'
<1>. SUFFICES ASSUME StockInv, [Next]_orderVars, ~drift'.stale PROVE StockInv'
  OBVIOUS
<1>1. OrdersInv'
  BY OrdersInvNext DEF StockInv
<1>2. ASSUME UNCHANGED <<order, stock, tasks, adjusting, drift>>, UNCHANGED client \/ adjusting = None
      PROVE  StockInv'
  <2>1. UNCHANGED <<Sold, Standing, Owed>>
    BY <1>2 DEF Sold, Standing, Owed
  <2>. QED BY <1>1, <1>2, <2>1 DEF StockInv, TasksAreTrue, NothingMeanwhile, Balanced
<1>3. CASE UNCHANGED orderVars
  BY <1>2, <1>3 DEF orderVars
<1>4. ASSUME NEW c \in Clients, NEW k, LookUpKey(c, k) PROVE StockInv'
  BY <1>2, <1>4, MayAlone DEF LookUpKey
<1>5. ASSUME NEW c \in Clients, NEW i \in Orders, RemoveStaff(c, i) PROVE StockInv'
  BY <1>2, <1>5, MayAlone DEF RemoveStaff
<1>. QED BY <1>1, <1>3, <1>4, <1>5, StockInsert, StockStatus, StockOtherRows, StockRemoval, StockMoves, StockCorrected DEF Next

\* A removal that put back what others changed is not forgotten.
DriftTells == DOMAIN drift = {"why", "lost", "adjusted", "stale"} /\ drift.stale \in BOOLEAN
LEMMA StaleStays == DriftTells /\ [Next]_orderVars => DriftTells' /\ (drift.stale => drift'.stale)
<1>. SUFFICES ASSUME DriftTells, [Next]_orderVars PROVE DriftTells' /\ (drift.stale => drift'.stale)
  OBVIOUS
<1>. USE DEF DriftTells
<1>1. CASE UNCHANGED drift
  BY <1>1
<1>2. ASSUME NEW c \in Clients, SaveRemoved(c) PROVE DriftTells' /\ (drift.stale => drift'.stale)
  BY <1>2 DEF SaveRemoved
<1>3. ASSUME NEW i \in Orders, NEW q, PatchOrder(i, q) PROVE DriftTells' /\ (drift.stale => drift'.stale)
  BY <1>3 DEF PatchOrder, Drifts
<1>4. ASSUME NEW t \in tasks, ApplySaleStock(t) \/ LoseTask(t) PROVE DriftTells' /\ (drift.stale => drift'.stale)
  BY <1>4 DEF ApplySaleStock, LoseTask, Drifts
<1>5. ASSUME NEW delta \in {-1, 1}, SaveProduct(delta) PROVE DriftTells' /\ (drift.stale => drift'.stale)
  BY <1>5 DEF SaveProduct
<1>6. ASSUME NEW c \in Clients, NEW k, NEW f, NEW q, NEW s, NEW i,
             LookUpKey(c, k) \/ InsertOrder(c, f, q, s) \/ RemoveStaff(c, i) \/ SoftRemove(c)
      PROVE  UNCHANGED drift
  BY <1>6 DEF LookUpKey, InsertOrder, RemoveStaff, SoftRemove
<1>7. ASSUME NEW i, NEW next, UpdateStatus(i, next) \/ AcreditPayment(i) \/ DesacreditPayment(i) \/ ReadProduct
      PROVE  UNCHANGED drift
  BY <1>7 DEF UpdateStatus, AcreditPayment, DesacreditPayment, ReadProduct
<1>. QED BY <1>1, <1>2, <1>3, <1>4, <1>5, <1>6, <1>7 DEF Next, orderVars

\* For any number of orders, clients and quantities, whatever the order in which sales,
\* returns, editions and status changes reach the product, and however many movements
\* are lost: the stock is what the orders leave, up to what `drift' records, as long as
\* a correction by hand overlaps with nothing and until a removal puts back a state or
\* a quantity that was changed while it ran (products.service.ts, applySaleStock).
THEOREM StockIsAccounted == ASSUME AdjustAlone PROVE Spec => []StockAccounted
<1>. DEFINE Inv == DriftTells /\ (~drift.stale => StockInv)
<1>1. Init => Inv
  BY StockInvInit DEF Init, DriftTells
<1>2. Inv /\ [Next]_orderVars => Inv'
  BY AdjustAlone, StockInvNext, StaleStays
<1>3. Inv => StockAccounted
  <2>. SUFFICES ASSUME StockInv, tasks = {}, adjusting = None
                PROVE  stock = InitialStock + drift.why - SumFunctionOnSet(Sold, Standing)
    BY DEF StockAccounted
  <2>1. SumFunctionOnSet(Owed, tasks) = 0
    BY SumOfNone
  <2>2. SumFunctionOnSet(Sold, Standing) \in Int /\ drift.why \in Int /\ InitialStock \in Int
    BY SumsAreNumbers, OrdersAssumption DEF StockInv, OrdersInv
  <2>. QED BY <2>1, <2>2 DEF StockInv, Balanced
<1>. HIDE DEF Inv
<1>. QED BY <1>1, <1>2, <1>3, PTL DEF Spec
-----------------------------------------------------------------------------
(* The seats of a day                                                         *)

\* upsertDayNotice saves the day as it read it: seats taken meanwhile would come back.
DayAlone == "day" \notin Parallel

BookingRow  == [state : {"none", "CONFIRMED", "MARKED", "SEATED", "left", "removed"}, size : Nat,
                area : Areas \cup {"INSIDE"}, from : Petitions \cup {Unset}, counted : BOOLEAN]
PetitionRow == [state : {"none", "new", "PENDING", "ACCEPTED", "REJECTED", "removed"}, size : Nat,
                area : Areas \cup {"INSIDE"}]
Errand      == [op : {"none", "public", "accept", "reject", "day"},
                step : {"idle", "consume", "insert", "book", "answer", "saveDay"},
                id : Petitions \cup {Unset}, row : PetitionRow, day : Day \cup {Unset}]

TablesTyped ==
    /\ seats \in Day /\ offered \in [Areas -> Nat \cup {Unset}]
    /\ booking \in [Bookings -> BookingRow] /\ petition \in [Petitions -> PetitionRow]
    /\ \A i \in Bookings : booking[i].state = "none" => ~booking[i].counted
    /\ \A i \in Petitions : petition[i].state # "none" => petition[i].area \in Areas

\* Who works for a party knows its area; who has read the day to save it is alone.
ErrandsAreTrue ==
    \A p \in Requests :
        /\ running[p].step \in {"consume", "insert", "book", "answer"} => running[p].row.area \in Areas
        /\ running[p].step = "saveDay" => /\ running[p].op = "day" /\ running[p].day = seats
                                          /\ \A q \in Requests \ {p} : running[q] = Resting

\* The seats of the parties that booked themselves, and of those that have their seats
\* and are about to be written down.
Counts(r, a)     == r.counted /\ r.area = a
Booked(table, a) == SumFunctionOnSet([i \in Bookings |-> table[i].size],
                                     {i \in Bookings : Counts(table[i], a)})
HasSeats(r, a)      == r.op = "public" /\ r.step = "book" /\ r.row.area = a
Taken(table, a)  == SumFunctionOnSet([p \in Requests |-> table[p].row.size], {p \in Requests : HasSeats(table[p], a)})

SeatsAreKept ==
    \A a \in Areas : /\ seats.left[a] = Unset <=> offered[a] = Unset
                     /\ offered[a] # Unset => seats.left[a] + Booked(booking, a) + Taken(running, a) <= offered[a]

ReservationInv == TablesTyped /\ running \in [Requests -> Errand] /\ ErrandsAreTrue /\ SeatsAreKept

LEMMA RestingErrand == Resting \in Errand /\ Resting.step = "idle" /\ Resting.op = "none"
BY DEF Resting, Errand, NoPetition, PetitionRow

LEMMA BookingsFinite == IsFiniteSet(Bookings)
BY ReservationsAssumption, FS_Interval DEF Bookings

\* Both sums are numbers of seats.
LEMMA SeatsAreNumbers ==
    ASSUME NEW table \in [Bookings -> BookingRow], NEW errands \in [Requests -> Errand], NEW a
    PROVE  Booked(table, a) \in Nat /\ Taken(errands, a) \in Nat
<1>1. IsFiniteSet({i \in Bookings : Counts(table[i], a)})
  BY BookingsFinite, FS_Subset
<1>2. IsFiniteSet({p \in Requests : HasSeats(errands[p], a)})
  BY ReservationsAssumption, FS_Subset
<1>3. \A i \in Bookings : [k \in Bookings |-> table[k].size][i] \in Nat
  BY DEF BookingRow
<1>4. \A p \in Requests : [q \in Requests |-> errands[q].row.size][p] \in Nat
  BY DEF Errand, PetitionRow
<1>5. Booked(table, a) \in Nat
  BY <1>1, <1>3, SumIsNatural DEF Booked
<1>6. Taken(errands, a) \in Nat
  BY <1>2, <1>4, SumIsNatural DEF Taken
<1>. QED BY <1>5, <1>6

\* One booking changes.
Replaces(table, new, i, r) ==
    table \in [Bookings -> BookingRow] /\ i \in Bookings /\ r \in BookingRow /\ new = [table EXCEPT ![i] = r]

LEMMA BookedChanges ==
    ASSUME NEW table, NEW new, NEW i, NEW r, Replaces(table, new, i, r), NEW a
    PROVE  Booked(new, a)
             = Booked(table, a) - (IF Counts(table[i], a) THEN table[i].size ELSE 0)
                                + (IF Counts(r, a) THEN r.size ELSE 0)
<1>. DEFINE f   == [k \in Bookings |-> table[k].size]
            g   == [k \in Bookings |-> new[k].size]
            S   == {k \in Bookings : Counts(table[k], a)}
            T   == {k \in Bookings : Counts(new[k], a)}
<1>0. table \in [Bookings -> BookingRow] /\ i \in Bookings /\ r \in BookingRow /\ new = [table EXCEPT ![i] = r]
  BY DEF Replaces
<1>1. IsFiniteSet(S) /\ IsFiniteSet(T)
  BY BookingsFinite, FS_Subset
<1>2. new \in [Bookings -> BookingRow] /\ new[i] = r /\ \A k \in Bookings \ {i} : new[k] = table[k]
  BY <1>0
<1>3. \A k \in Bookings : f[k] = table[k].size /\ f[k] \in Int /\ g[k] = new[k].size /\ g[k] \in Int
  BY <1>0, <1>2 DEF BookingRow
<1>4. S \ {i} = T \ {i} /\ \A k \in S \ {i} : g[k] = f[k]
  BY <1>0, <1>2
<1>5. (i \in S <=> Counts(table[i], a)) /\ (i \in T <=> Counts(r, a))
  BY <1>0, <1>2
<1>6. f[i] = table[i].size /\ g[i] = r.size
  BY <1>0, <1>2, <1>3
<1>7. OneChanges(f, g, S, T, i)
  BY <1>1, <1>3, <1>4 DEF OneChanges
<1>8. Booked(table, a) = SumFunctionOnSet(f, S) /\ Booked(new, a) = SumFunctionOnSet(g, T)
  BY DEF Booked
<1>. HIDE DEF f, g, S, T
<1>9. SumFunctionOnSet(g, T) = SumFunctionOnSet(f, S) - (IF i \in S THEN f[i] ELSE 0) + (IF i \in T THEN g[i] ELSE 0)
  BY <1>7, SumChanges
<1>10. Booked(new, a) = Booked(table, a) - (IF Counts(table[i], a) THEN table[i].size ELSE 0)
                                + (IF Counts(r, a) THEN r.size ELSE 0)
  BY <1>5, <1>6, <1>8, <1>9
<1>. QED BY <1>10

\* One request moves on.
LEMMA TakenChanges ==
    ASSUME NEW table \in [Requests -> Errand], NEW p \in Requests, NEW r \in Errand, NEW a
    PROVE  Taken([table EXCEPT ![p] = r], a)
             = Taken(table, a) - (IF HasSeats(table[p], a) THEN table[p].row.size ELSE 0)
                               + (IF HasSeats(r, a) THEN r.row.size ELSE 0)
<1>. DEFINE new == [table EXCEPT ![p] = r]
            f   == [k \in Requests |-> table[k].row.size]
            g   == [k \in Requests |-> new[k].row.size]
            S   == {k \in Requests : HasSeats(table[k], a)}
            T   == {k \in Requests : HasSeats(new[k], a)}
<1>1. IsFiniteSet(S) /\ IsFiniteSet(T)
  BY ReservationsAssumption, FS_Subset
<1>2. new \in [Requests -> Errand] /\ new[p] = r /\ \A k \in Requests \ {p} : new[k] = table[k]
  OBVIOUS
<1>3. \A k \in Requests : f[k] = table[k].row.size /\ f[k] \in Int /\ g[k] = new[k].row.size /\ g[k] \in Int
  BY <1>2 DEF Errand, PetitionRow
<1>4. S \ {p} = T \ {p} /\ \A k \in S \ {p} : g[k] = f[k]
  BY <1>2
<1>5. (p \in S <=> HasSeats(table[p], a)) /\ (p \in T <=> HasSeats(r, a))
  BY <1>2
<1>6. f[p] = table[p].row.size /\ g[p] = r.row.size
  BY <1>2, <1>3
<1>7. OneChanges(f, g, S, T, p)
  BY <1>1, <1>3, <1>4 DEF OneChanges
<1>8. Taken(table, a) = SumFunctionOnSet(f, S) /\ Taken(new, a) = SumFunctionOnSet(g, T)
  BY DEF Taken
<1>. HIDE DEF f, g, S, T, new
<1>9. SumFunctionOnSet(g, T) = SumFunctionOnSet(f, S) - (IF p \in S THEN f[p] ELSE 0) + (IF p \in T THEN g[p] ELSE 0)
  BY <1>7, SumChanges
<1>10. Taken(new, a) = Taken(table, a) - (IF HasSeats(table[p], a) THEN table[p].row.size ELSE 0)
                               + (IF HasSeats(r, a) THEN r.row.size ELSE 0)
  BY <1>5, <1>6, <1>8, <1>9
<1>. QED BY <1>10 DEF new

\* Who begins or goes on with an errand that is not about the day finds nobody with it.
LEMMA NobodyHasTheDay ==
    ASSUME DayAlone, ReservationInv, NEW p \in Requests,
           running[p].step \in {"consume", "insert", "book", "answer"} \/ (\E op : MayAsk(p, op) /\ op # "day")
    PROVE  \A q \in Requests : running[q].step # "saveDay"
<1>1. SUFFICES ASSUME NEW q \in Requests, running[q].step = "saveDay" PROVE FALSE
  OBVIOUS
<1>2. running[q].op = "day" /\ \A k \in Requests \ {q} : running[k] = Resting
  BY <1>1 DEF ReservationInv, ErrandsAreTrue
<1>3. running[q] # Resting
  BY <1>1, RestingErrand
<1>4. CASE running[p].step \in {"consume", "insert", "book", "answer"}
  BY <1>1, <1>2, <1>4, RestingErrand
<1>5. CASE \E op : MayAsk(p, op) /\ op # "day"
  BY <1>2, <1>3, <1>5 DEF MayAsk, DayAlone
<1>. QED BY <1>4, <1>5

\* No seats appear: what is left, what is booked and what is being taken do not grow.
NoSeatsAppear ==
    \A a \in Areas :
        /\ seats'.left[a] = Unset <=> seats.left[a] = Unset
        /\ seats.left[a] # Unset => seats'.left[a] + Booked(booking', a) + Taken(running', a)
                                     <= seats.left[a] + Booked(booking, a) + Taken(running, a)

\* One request goes on, and no seats appear.
LEMMA ErrandGoesOn ==
    ASSUME ReservationInv, NEW p \in Requests, NEW r \in Errand, running' = [running EXCEPT ![p] = r],
           \A q \in Requests : running[q].step # "saveDay", r.step # "saveDay",
           r.step \in {"consume", "insert", "book", "answer"} => r.row.area \in Areas,
           TablesTyped', offered' = offered, NoSeatsAppear
    PROVE  ReservationInv'
<1>1. running \in [Requests -> Errand] /\ running' \in [Requests -> Errand]
  BY DEF ReservationInv
<1>2. ErrandsAreTrue'
  BY <1>1 DEF ReservationInv, ErrandsAreTrue
<1>3. SeatsAreKept'
  <2>1. SUFFICES ASSUME NEW a \in Areas
                 PROVE  /\ seats'.left[a] = Unset <=> offered[a] = Unset
                        /\ offered[a] # Unset => seats'.left[a] + Booked(booking', a) + Taken(running', a) <= offered[a]
    BY DEF SeatsAreKept
  <2>2. /\ seats.left[a] = Unset <=> offered[a] = Unset
        /\ offered[a] # Unset => seats.left[a] + Booked(booking, a) + Taken(running, a) <= offered[a]
    BY DEF ReservationInv, SeatsAreKept
  <2>3. /\ Booked(booking, a) \in Nat /\ Taken(running, a) \in Nat
        /\ Booked(booking', a) \in Nat /\ Taken(running', a) \in Nat
    BY <1>1, SeatsAreNumbers DEF ReservationInv, TablesTyped
  <2>4. /\ seats.left[a] \in Nat \cup {Unset} /\ seats'.left[a] \in Nat \cup {Unset}
        /\ offered[a] \in Nat \cup {Unset}
    BY DEF ReservationInv, TablesTyped, Day
  <2>5. /\ seats'.left[a] = Unset <=> seats.left[a] = Unset
        /\ seats.left[a] # Unset => seats'.left[a] + Booked(booking', a) + Taken(running', a)
                                     <= seats.left[a] + Booked(booking, a) + Taken(running, a)
    BY DEF NoSeatsAppear
  <2>. DEFINE was == seats.left[a]
              now == seats'.left[a]
              sum == Booked(booking, a) + Taken(running, a)
              new == Booked(booking', a) + Taken(running', a)
  <2>6. sum \in Nat /\ new \in Nat
    BY <2>3
  <2>7. was # Unset => was \in Nat /\ now \in Nat /\ offered[a] \in Nat /\ was + sum <= offered[a] /\ now + new <= was + sum
    BY <2>2, <2>3, <2>4, <2>5
  <2>8. was # Unset => now + new <= offered[a]
    <3>. HIDE DEF was, now, sum, new
    <3>. QED BY <2>6, <2>7
  <2>9. was # Unset => now + Booked(booking', a) + Taken(running', a) <= offered[a]
    BY <2>3, <2>7, <2>8
  <2>. QED BY <2>2, <2>5, <2>9
<1>. QED BY <1>1, <1>2, <1>3 DEF ReservationInv

\* The table of bookings and the seats stay; the request takes no seats.
LEMMA NoSeatsMove ==
    ASSUME ReservationInv, NEW p \in Requests, NEW r \in Errand, running' = [running EXCEPT ![p] = r],
           \A q \in Requests : running[q].step # "saveDay",
           r.step \in {"idle", "consume", "insert", "answer"}, r.step # "idle" => r.row.area \in Areas,
           petition' \in [Petitions -> PetitionRow],
           \A i \in Petitions : petition'[i].state # "none" => petition'[i].area \in Areas,
           UNCHANGED <<seats, booking, offered>>
    PROVE  ReservationInv'
<1>1. running \in [Requests -> Errand]
  BY DEF ReservationInv
<1>2. TablesTyped'
  BY DEF ReservationInv, TablesTyped
<1>3. ASSUME NEW a \in Areas, seats.left[a] # Unset
      PROVE  seats'.left[a] + Booked(booking', a) + Taken(running', a)
                                     <= seats.left[a] + Booked(booking, a) + Taken(running, a)
  <2>1. Taken(running', a) = Taken(running, a) - (IF HasSeats(running[p], a) THEN running[p].row.size ELSE 0)
                               + (IF HasSeats(r, a) THEN r.row.size ELSE 0)
    BY <1>1, TakenChanges
  <2>2. ~HasSeats(r, a) /\ running[p].row.size \in Nat
    BY <1>1 DEF HasSeats, Errand, PetitionRow
  <2>3. Taken(running, a) \in Nat /\ Booked(booking, a) \in Nat
    BY <1>1, SeatsAreNumbers DEF ReservationInv, TablesTyped
  <2>4. seats.left[a] \in Nat
    BY <1>3 DEF ReservationInv, TablesTyped, Day
  <2>. QED BY <2>1, <2>2, <2>3, <2>4
<1>4. NoSeatsAppear
  BY <1>3 DEF NoSeatsAppear
<1>. QED BY <1>2, <1>4, ErrandGoesOn

LEMMA AskPublicKeeps ==
    ASSUME DayAlone, ReservationInv, NEW p \in Requests, NEW a \in Areas, NEW n \in Sizes, AskPublic(p, a, n)
    PROVE  ReservationInv'
<1>. DEFINE r == [op |-> "public", step |-> IF Managed(seats, a) THEN "consume" ELSE "insert", id |-> Unset,
                  row |-> [state |-> "new", size |-> n, area |-> a], day |-> Unset]
<1>1. r \in Errand /\ r.step \in {"consume", "insert"} /\ r.row.area = a
  BY ReservationsAssumption DEF Errand, PetitionRow
<1>2. running' = [running EXCEPT ![p] = r]
  BY DEF AskPublic, Become
<1>. HIDE DEF r
<1>3. UNCHANGED <<seats, booking, petition, offered>> /\ MayAsk(p, "public")
  BY DEF AskPublic
<1>4. /\ petition' \in [Petitions -> PetitionRow]
      /\ \A i \in Petitions : petition'[i].state # "none" => petition'[i].area \in Areas
  BY <1>3 DEF ReservationInv, TablesTyped
<1>5. \A q \in Requests : running[q].step # "saveDay"
  BY <1>3, NobodyHasTheDay
<1>. QED BY <1>1, <1>2, <1>3, <1>4, <1>5, NoSeatsMove

LEMMA AskPanelKeeps ==
    ASSUME DayAlone, ReservationInv, NEW p \in Requests, NEW op, NEW i \in Petitions, AskPanel(p, op, i)
    PROVE  ReservationInv'
<1>. DEFINE row   == petition[i]
            moved == op = "accept" /\ "OUTSIDE" \in Areas /\ ~Fits(row.area, row.size) /\ AreaOpen(seats, "OUTSIDE")
            r     == [op |-> op, step |-> IF op = "accept" THEN "consume" ELSE "answer", id |-> i,
                      row |-> [row EXCEPT !.area = IF moved THEN "OUTSIDE" ELSE @], day |-> Unset]
<1>1. op \in {"accept", "reject"} /\ MayAsk(p, op) /\ row.state = "PENDING" /\ running' = [running EXCEPT ![p] = r]
      /\ UNCHANGED <<seats, booking, petition, offered>>
  BY DEF AskPanel, Become
<1>2. row \in PetitionRow /\ row.area \in Areas
  BY <1>1 DEF ReservationInv, TablesTyped
<1>3. r.row \in PetitionRow /\ r.row.area \in Areas
  BY <1>2 DEF PetitionRow
<1>4. r \in Errand /\ r.step \in {"consume", "answer"}
  BY <1>1, <1>3 DEF Errand
<1>. HIDE DEF r
<1>5. /\ petition' \in [Petitions -> PetitionRow]
      /\ \A k \in Petitions : petition'[k].state # "none" => petition'[k].area \in Areas
  BY <1>1 DEF ReservationInv, TablesTyped
<1>6. op # "day"
  BY <1>1
<1>. QED BY <1>1, <1>3, <1>4, <1>5, <1>6, NobodyHasTheDay, NoSeatsMove

\* The last step of a petition that is left pending, or answered; and a process that dies.
LEMMA EndKeeps ==
    ASSUME DayAlone, ReservationInv, NEW p \in Requests, InsertPending(p) \/ SaveAnswer(p) \/ (Die(p) /\ running[p].step # "saveDay")
    PROVE  ReservationInv'
<1>1. running' = [running EXCEPT ![p] = Resting] /\ UNCHANGED <<seats, booking, offered>>
  BY DEF InsertPending, SaveAnswer, Die, End, Become
<1>2. running \in [Requests -> Errand] /\ petition \in [Petitions -> PetitionRow]
      /\ \A i \in Petitions : petition[i].state # "none" => petition[i].area \in Areas
  BY DEF ReservationInv, TablesTyped
<1>3. \A q \in Requests : running[q].step # "saveDay"
  <2>1. CASE InsertPending(p) \/ SaveAnswer(p)
    <3>1. running[p].step \in {"consume", "insert", "book", "answer"}
      BY <2>1 DEF InsertPending, SaveAnswer
    <3>. QED BY <3>1, NobodyHasTheDay
  <2>2. CASE Die(p) /\ running[p].step # "saveDay"
    BY <2>2 DEF Die, ReservationInv, ErrandsAreTrue
  <2>. QED BY <2>1, <2>2
<1>4. /\ petition' \in [Petitions -> PetitionRow]
      /\ \A i \in Petitions : petition'[i].state # "none" => petition'[i].area \in Areas
  <2>. DEFINE fits(row) == row \in PetitionRow /\ row.area \in Areas
  <2>1. ASSUME NEW i \in Petitions, NEW row, fits(row), petition' = [petition EXCEPT ![i] = row]
        PROVE  /\ petition' \in [Petitions -> PetitionRow]
               /\ \A k \in Petitions : petition'[k].state # "none" => petition'[k].area \in Areas
    BY <1>2, <2>1
  <2>2. CASE InsertPending(p) \/ SaveAnswer(p)
    <3>1. running[p].row \in PetitionRow /\ running[p].row.area \in Areas /\ running[p].id \in Petitions \cup {Unset}
      BY <1>2, <2>2 DEF InsertPending, SaveAnswer, Errand, ReservationInv, ErrandsAreTrue
    <3>2. \A state \in {"PENDING", "REJECTED", "ACCEPTED"} : fits([running[p].row EXCEPT !.state = state])
      BY <3>1 DEF PetitionRow
    <3>3. PICK i \in Petitions, state \in {"PENDING", "REJECTED", "ACCEPTED"} :
             petition' = [petition EXCEPT ![i] = [running[p].row EXCEPT !.state = state]]
      BY <2>2, <3>1 DEF InsertPending, SaveAnswer
    <3>. HIDE DEF fits
    <3>. QED BY <2>1, <3>2, <3>3
  <2>3. CASE Die(p)
    BY <1>2, <2>3 DEF Die
  <2>. QED BY <2>2, <2>3
<1>. QED BY <1>1, <1>3, <1>4, RestingErrand, NoSeatsMove

\* consumeDayAreaCapacity: the seats go from those left to those being taken.
LEMMA ConsumeKeeps ==
    ASSUME DayAlone, ReservationInv, NEW p \in Requests, Consume(p)
    PROVE  ReservationInv'
<1>. DEFINE b == running[p].row.area
            n == running[p].row.size
            r == [running[p] EXCEPT !.step = "book"]
<1>1. running[p].step = "consume" /\ UNCHANGED <<booking, petition, offered>>
  BY DEF Consume
<1>2. running \in [Requests -> Errand] /\ b \in Areas /\ n \in Nat /\ seats \in Day
  BY <1>1 DEF ReservationInv, TablesTyped, ErrandsAreTrue, Errand, PetitionRow
<1>3. \A q \in Requests : running[q].step # "saveDay"
  BY <1>1, NobodyHasTheDay
<1>4. r \in Errand /\ r.step = "book" /\ r.row = running[p].row /\ r.op = running[p].op
  BY <1>2 DEF Errand
<1>5. \A a : ~HasSeats(running[p], a)
  BY <1>1 DEF HasSeats
<1>6. CASE End(p) /\ UNCHANGED seats
  <2>1. running' = [running EXCEPT ![p] = Resting] /\ UNCHANGED <<seats, booking, offered>>
    BY <1>1, <1>6 DEF End, Become
  <2>2. /\ petition' \in [Petitions -> PetitionRow]
        /\ \A i \in Petitions : petition'[i].state # "none" => petition'[i].area \in Areas
    BY <1>1 DEF ReservationInv, TablesTyped
  <2>. QED BY <1>3, <2>1, <2>2, RestingErrand, NoSeatsMove
<1>7. CASE Goto(p, "book") /\ seats.left[b] = Unset /\ UNCHANGED seats
  <2>1. running' = [running EXCEPT ![p] = r]
    BY <1>7 DEF Goto, Become
  <2>2. TablesTyped'
    BY <1>1, <1>7 DEF ReservationInv, TablesTyped
  <2>3. NoSeatsAppear
    <3>1. SUFFICES ASSUME NEW a \in Areas, seats.left[a] # Unset
                   PROVE  Booked(booking', a) = Booked(booking, a) /\ Taken(running', a) = Taken(running, a)
                          /\ seats.left[a] \in Nat /\ Taken(running, a) \in Nat /\ Booked(booking, a) \in Nat
      BY <1>7 DEF NoSeatsAppear
    <3>2. ~HasSeats(r, a)
      BY <1>4, <1>7, <3>1 DEF HasSeats
    <3>3. Taken(running', a) = Taken(running, a) - 0 + 0
      BY ZenonT(40), <1>2, <1>4, <1>5, <2>1, <3>2, TakenChanges
    <3>4. Taken(running, a) \in Nat /\ Booked(booking, a) \in Nat
      BY <1>2, SeatsAreNumbers DEF ReservationInv, TablesTyped
    <3>5. seats.left[a] \in Nat
      BY <1>2, <3>1 DEF Day
    <3>. QED BY <1>1, <3>3, <3>4, <3>5
  <2>. QED BY <1>1, <1>2, <1>3, <1>4, <2>1, <2>2, <2>3, ErrandGoesOn
<1>8. CASE /\ Goto(p, "book") /\ seats.left[b] # Unset
           /\ running[p].op = "accept" \/ Enough(n, seats.left[b])
           /\ seats' = [seats EXCEPT !.left[b] = IF n < seats.left[b] THEN seats.left[b] - n ELSE 0]
  <2>. DEFINE left == seats.left[b]
              rest == IF n < left THEN left - n ELSE 0
  <2>1. running' = [running EXCEPT ![p] = r]
    BY <1>8 DEF Goto, Become
  <2>2. left \in Nat /\ rest \in Nat /\ rest # Unset /\ rest <= left
    BY <1>2, <1>8, ReservationsAssumption DEF Day
  <2>3. /\ seats' \in Day /\ seats'.left[b] = rest
        /\ \A a \in Areas \ {b} : seats'.left[a] = seats.left[a]
    BY <1>2, <1>8, <2>2 DEF Day
  <2>4. TablesTyped'
    BY <1>1, <2>3 DEF ReservationInv, TablesTyped
  <2>5. HasSeats(r, b) => rest + n <= left
    BY <1>2, <1>4, <1>8, <2>2 DEF HasSeats, Enough
  <2>. HIDE DEF rest
  <2>6. NoSeatsAppear
    <3>1. SUFFICES ASSUME NEW a \in Areas, seats.left[a] # Unset
                   PROVE  seats'.left[a] # Unset
                          /\ seats'.left[a] + Booked(booking, a) + Taken(running', a)
                               <= seats.left[a] + Booked(booking, a) + Taken(running, a)
      BY <1>1, <1>8, <2>2, <2>3 DEF NoSeatsAppear
    <3>a. r.row.size = n
      BY <1>4
    <3>. HIDE DEF n
    <3>b. Taken(running', a) = Taken(running, a) - 0 + (IF HasSeats(r, a) THEN r.row.size ELSE 0)
      BY ZenonT(40), <1>2, <1>4, <1>5, <2>1, TakenChanges
    <3>2. Taken(running', a) = Taken(running, a) - 0 + (IF HasSeats(r, a) THEN n ELSE 0)
      BY <3>a, <3>b
    <3>3. Taken(running, a) \in Nat /\ Booked(booking, a) \in Nat
      BY <1>2, SeatsAreNumbers DEF ReservationInv, TablesTyped
    <3>4. seats.left[a] \in Nat
      BY <1>2, <3>1 DEF Day
    <3>5. CASE a = b
      BY <1>2, <2>2, <2>3, <2>5, <3>2, <3>3, <3>5
    <3>6. CASE a # b
      <4>1. ~HasSeats(r, a) /\ seats'.left[a] = seats.left[a]
        BY <1>4, <2>3, <3>6 DEF HasSeats
      <4>. QED BY <3>1, <3>2, <3>3, <3>4, <4>1
    <3>. QED BY <3>5, <3>6
  <2>. QED BY <1>1, <1>2, <1>3, <1>4, <2>1, <2>4, <2>6, ErrandGoesOn
<1>. QED BY <1>6, <1>7, <1>8 DEF Consume

\* A booking is written down, or changed.
LEMMA BookingAdded ==
    ASSUME booking \in [Bookings -> BookingRow], NEW i \in Bookings, NEW r \in BookingRow, booking' = [booking EXCEPT ![i] = r]
    PROVE  \A a : Booked(booking', a) = Booked(booking, a) - (IF Counts(booking[i], a) THEN booking[i].size ELSE 0)
                                       + (IF Counts(r, a) THEN r.size ELSE 0)
<1>1. Replaces(booking, booking', i, r)
  BY DEF Replaces
<1>. QED BY <1>1, BookedChanges

\* The seats go from those being taken to those booked.
LEMMA BookKeeps ==
    ASSUME DayAlone, ReservationInv, NEW p \in Requests, Book(p)
    PROVE  ReservationInv'
<1>. DEFINE b == running[p].row.area
            n == running[p].row.size
            r == [running[p] EXCEPT !.step = "answer"]
<1>1. running[p].step = "book" /\ UNCHANGED <<seats, petition, offered>>
  BY DEF Book
<1>2. running \in [Requests -> Errand] /\ b \in Areas /\ n \in Nat /\ booking \in [Bookings -> BookingRow]
  BY <1>1 DEF ReservationInv, TablesTyped, ErrandsAreTrue, Errand, PetitionRow
<1>3. \A q \in Requests : running[q].step # "saveDay"
  BY <1>1, NobodyHasTheDay
<1>4. r \in Errand /\ r.step = "answer" /\ r.row = running[p].row
  BY <1>2 DEF Errand
<1>5. PICK row \in BookingRow :
         row = [state |-> "CONFIRMED", size |-> n, area |-> b, from |-> running[p].id,
                counted |-> running[p].op = "public" /\ offered[b] # Unset]
  <2>1. [state |-> "CONFIRMED", size |-> n, area |-> b, from |-> running[p].id,
         counted |-> running[p].op = "public" /\ offered[b] # Unset] \in BookingRow
    BY <1>2 DEF BookingRow, Errand
  <2>. QED BY <2>1
<1>6. running' = [running EXCEPT ![p] = r]
  BY DEF Book, Goto, Become
<1>7. PICK i \in Bookings : Free(i, booking) /\ booking' = [booking EXCEPT ![i] = row]
  BY <1>5 DEF Book
<1>8. ~booking[i].counted
  BY <1>7 DEF Free, ReservationInv, TablesTyped
<1>9. TablesTyped'
  <2>1. row.state # "none"
    BY <1>5
  <2>. QED BY <1>1, <1>2, <1>5, <1>7, <2>1 DEF ReservationInv, TablesTyped
<1>10. NoSeatsAppear
  <2>1. SUFFICES ASSUME NEW a \in Areas, seats.left[a] # Unset
                 PROVE  seats.left[a] + Booked(booking', a) + Taken(running', a)
                          <= seats.left[a] + Booked(booking, a) + Taken(running, a)
    BY <1>1 DEF NoSeatsAppear
  <2>2. Taken(running', a) = Taken(running, a) - (IF HasSeats(running[p], a) THEN running[p].row.size ELSE 0)
                               + (IF HasSeats(r, a) THEN r.row.size ELSE 0)
    BY ZenonT(40), <1>2, <1>4, <1>6, TakenChanges
  <2>3. ~HasSeats(r, a) /\ (HasSeats(running[p], a) <=> running[p].op = "public" /\ b = a)
    BY <1>1, <1>4 DEF HasSeats
  <2>4. Booked(booking', a) = Booked(booking, a) - (IF Counts(booking[i], a) THEN booking[i].size ELSE 0)
                                + (IF Counts(row, a) THEN row.size ELSE 0)
    BY <1>2, <1>7, BookingAdded
  <2>5. (row.counted => running[p].op = "public") /\ row.area = b /\ row.size = n
    BY <1>5
  <2>6. Taken(running, a) \in Nat /\ Booked(booking, a) \in Nat
    BY <1>2, SeatsAreNumbers
  <2>7. seats.left[a] \in Nat
    BY <2>1 DEF ReservationInv, TablesTyped, Day
  <2>8. ~Counts(booking[i], a) /\ (Counts(row, a) => running[p].op = "public" /\ b = a)
    BY <1>8, <2>5 DEF Counts
  <2>. HIDE DEF r
  <2>. QED BY <1>2, <2>2, <2>3, <2>4, <2>5, <2>6, <2>7, <2>8
<1>. QED BY <1>1, <1>2, <1>3, <1>4, <1>6, <1>9, <1>10, ErrandGoesOn

\* The staff and the board change rows without a glance at the seats.
LEMMA RowsKeep ==
    ASSUME ReservationInv, UNCHANGED <<seats, running, offered>>, TablesTyped',
           \A a \in Areas : Booked(booking', a) = Booked(booking, a)
    PROVE  ReservationInv'
BY DEF ReservationInv, ErrandsAreTrue, SeatsAreKept

LEMMA BoardKeeps ==
    ASSUME ReservationInv, NEW i \in Bookings, NEW r \in BookingRow, booking' = [booking EXCEPT ![i] = r],
           r.counted = booking[i].counted, r.counted => r.size = booking[i].size /\ r.area = booking[i].area,
           r.state # "none", UNCHANGED <<seats, petition, running, offered>>
    PROVE  ReservationInv'
<1>1. booking \in [Bookings -> BookingRow] /\ running \in [Requests -> Errand]
  BY DEF ReservationInv, TablesTyped
<1>2. TablesTyped'
  BY <1>1 DEF ReservationInv, TablesTyped
<1>3. ASSUME NEW a \in Areas PROVE Booked(booking', a) = Booked(booking, a)
  <2>1. Booked(booking', a) = Booked(booking, a) - (IF Counts(booking[i], a) THEN booking[i].size ELSE 0)
                                + (IF Counts(r, a) THEN r.size ELSE 0)
    BY <1>1, BookingAdded
  <2>2. Booked(booking, a) \in Nat /\ booking[i].size \in Nat
    BY <1>1, SeatsAreNumbers DEF BookingRow
  <2>3. (Counts(r, a) <=> Counts(booking[i], a)) /\ (Counts(r, a) => r.size = booking[i].size)
    BY DEF Counts
  <2>. QED BY <2>1, <2>2, <2>3
<1>. QED BY <1>2, <1>3, RowsKeep

LEMMA StaffKeeps ==
    ASSUME ReservationInv, NEW p \in Requests,
           \/ \E a \in Areas, n \in Sizes : BookStaff(p, a, n)
           \/ \E i \in Bookings : Seat(p, i) \/ RemoveReservation(p, i) \/ Dismiss(p, i)
    PROVE  ReservationInv'
<1>1. booking \in [Bookings -> BookingRow] /\ \A i \in Bookings : booking[i].state = "none" => booking[i].counted = FALSE
  BY DEF ReservationInv, TablesTyped, BookingRow
<1>2. CASE \E a \in Areas, n \in Sizes : BookStaff(p, a, n)
  <2>1. PICK a \in Areas, n \in Sizes : BookStaff(p, a, n)
    BY <1>2
  <2>. DEFINE r == [NoBooking EXCEPT !.state = "CONFIRMED", !.size = n, !.area = a]
  <2>2. PICK i \in Bookings : Free(i, booking) /\ booking' = [booking EXCEPT ![i] = r]
    BY <2>1 DEF BookStaff
  <2>3. r \in BookingRow /\ r.counted = FALSE /\ r.state # "none"
    BY ReservationsAssumption DEF NoBooking, BookingRow
  <2>4. r.counted = booking[i].counted
    BY <1>1, <2>2, <2>3 DEF Free
  <2>5. UNCHANGED <<seats, petition, running, offered>>
    BY <2>1 DEF BookStaff
  <2>. HIDE DEF r
  <2>. QED BY <2>2, <2>3, <2>4, <2>5, BoardKeeps
<1>3. CASE \E i \in Bookings : Seat(p, i) \/ RemoveReservation(p, i) \/ Dismiss(p, i)
  <2>1. PICK i \in Bookings : Seat(p, i) \/ RemoveReservation(p, i) \/ Dismiss(p, i)
    BY <1>3
  <2>2. booking[i] \in BookingRow
    BY <1>1
  <2>3. PICK state \in {"CONFIRMED", "MARKED", "SEATED", "left", "removed"} : booking' = [booking EXCEPT ![i].state = state]
    <3>1. CASE Seat(p, i)
      <4>1. booking[i].state \in {"CONFIRMED", "MARKED", "SEATED"} /\ booking' = [booking EXCEPT ![i].state = NextStatus[booking[i].state]]
        BY <3>1 DEF Seat, NextStatus
      <4>2. NextStatus[booking[i].state] \in {"CONFIRMED", "MARKED", "SEATED"}
        BY <4>1 DEF NextStatus
      <4>. QED BY <4>1, <4>2
    <3>2. CASE RemoveReservation(p, i)
      BY <3>2 DEF RemoveReservation
    <3>3. CASE Dismiss(p, i)
      BY <3>3 DEF Dismiss
    <3>. QED BY <2>1, <3>1, <3>2, <3>3
  <2>4. UNCHANGED <<seats, petition, running, offered>>
    BY <2>1 DEF Seat, RemoveReservation, Dismiss
  <2>. DEFINE r == [booking[i] EXCEPT !.state = state]
  <2>5. /\ r \in BookingRow /\ r.counted = booking[i].counted /\ r.size = booking[i].size
        /\ r.area = booking[i].area /\ r.state # "none"
    BY <2>2, <2>3 DEF BookingRow
  <2>6. booking' = [booking EXCEPT ![i] = r]
    BY <2>3
  <2>. HIDE DEF r
  <2>. QED BY <2>4, <2>5, <2>6, BoardKeeps
<1>. QED BY <1>2, <1>3

LEMMA RemovePetitionKeeps ==
    ASSUME ReservationInv, NEW p \in Requests, NEW i \in Petitions, RemovePetition(p, i)
    PROVE  ReservationInv'
<1>1. UNCHANGED <<seats, booking, running, offered>> /\ petition[i].state = "PENDING"
      /\ petition' = [petition EXCEPT ![i].state = "removed"]
  BY DEF RemovePetition
<1>2. petition \in [Petitions -> PetitionRow] /\ petition[i].area \in Areas
  BY <1>1 DEF ReservationInv, TablesTyped
<1>3. petition' \in [Petitions -> PetitionRow] /\ petition'[i].area = petition[i].area
      /\ \A k \in Petitions \ {i} : petition'[k] = petition[k]
  BY <1>1, <1>2 DEF PetitionRow
<1>4. TablesTyped'
  BY <1>1, <1>2, <1>3 DEF ReservationInv, TablesTyped
<1>. QED BY <1>1, <1>4, RowsKeep

\* The day is read by somebody who is alone, and saved with nobody else about.
LEMMA ReadDayKeeps ==
    ASSUME DayAlone, ReservationInv, NEW p \in Requests, ReadDay(p)
    PROVE  ReservationInv'
<1>. DEFINE r == [Resting EXCEPT !.op = "day", !.step = "saveDay", !.day = seats]
<1>1. \A q \in Requests : running[q] = Resting
  BY DEF ReadDay, MayAsk, DayAlone
<1>2. UNCHANGED <<seats, booking, petition, offered>> /\ running' = [running EXCEPT ![p] = r]
  BY DEF ReadDay, Become
<1>3. seats \in Day /\ running \in [Requests -> Errand] /\ TablesTyped
  BY DEF ReservationInv, TablesTyped
<1>4. r \in Errand /\ r.step = "saveDay" /\ r.op = "day" /\ r.day = seats
  BY <1>3 DEF Errand, Resting, NoPetition, PetitionRow
<1>. HIDE DEF r
<1>5. running' \in [Requests -> Errand] /\ ErrandsAreTrue'
  BY <1>1, <1>2, <1>3, <1>4, RestingErrand DEF ErrandsAreTrue
<1>6. ASSUME NEW a \in Areas PROVE Taken(running', a) = Taken(running, a)
  <2>1. Taken(running', a) = Taken(running, a) - 0 + 0
    <3>1. ~HasSeats(r, a) /\ ~HasSeats(running[p], a)
      BY <1>1, <1>4, RestingErrand DEF HasSeats
    <3>. QED BY <1>2, <1>3, <1>4, <3>1, TakenChanges
  <2>2. Taken(running, a) \in Nat
    BY <1>3, SeatsAreNumbers DEF TablesTyped
  <2>. QED BY <2>1, <2>2
<1>7. TablesTyped' /\ SeatsAreKept'
  BY <1>2, <1>3, <1>6 DEF TablesTyped, SeatsAreKept, ReservationInv
<1>. QED BY <1>5, <1>7 DEF ReservationInv

\* Nobody is taking seats when everybody rests.
LEMMA NothingTaken ==
    ASSUME NEW table, NEW a, \A q \in Requests : table[q] = Resting
    PROVE  Taken(table, a) = 0
<1>1. {q \in Requests : HasSeats(table[q], a)} = {}
  BY RestingErrand DEF HasSeats
<1>. QED BY <1>1, SumOfNone DEF Taken

LEMMA DayGivenUp ==
    ASSUME ReservationInv, NEW p \in Requests, running[p].step = "saveDay", running' = [running EXCEPT ![p] = Resting]
    PROVE  /\ running' \in [Requests -> Errand] /\ ErrandsAreTrue'
           /\ \A a \in Areas : Taken(running', a) = 0
<1>1. running \in [Requests -> Errand] /\ \A q \in Requests \ {p} : running[q] = Resting
  BY DEF ReservationInv, ErrandsAreTrue
<1>2. running' \in [Requests -> Errand] /\ \A q \in Requests : running'[q] = Resting
  BY <1>1, RestingErrand
<1>3. ErrandsAreTrue'
  BY <1>2, RestingErrand DEF ErrandsAreTrue
<1>. QED BY <1>2, <1>3, NothingTaken

LEMMA SaveDayKeeps ==
    ASSUME DayAlone, ReservationInv, NEW p \in Requests, NEW d \in Day, SaveDay(p, d)
    PROVE  ReservationInv'
<1>. DEFINE set == {a \in Areas : d.left[a] # seats.left[a]}
<1>1. running[p].step = "saveDay" /\ running[p].day = seats /\ running' = [running EXCEPT ![p] = Resting]
  BY DEF SaveDay, End, Become, ReservationInv, ErrandsAreTrue
<1>2. /\ seats' = d /\ UNCHANGED petition
      /\ offered' = [a \in Areas |-> IF a \in set THEN d.left[a] ELSE offered[a]]
      /\ booking' = [i \in Bookings |-> [booking[i] EXCEPT !.counted = @ /\ booking[i].area \notin set]]
  BY <1>1 DEF SaveDay
<1>3. /\ running' \in [Requests -> Errand] /\ ErrandsAreTrue'
      /\ \A a \in Areas : Taken(running', a) = 0
  BY <1>1, DayGivenUp
<1>4. seats \in Day /\ TablesTyped /\ running \in [Requests -> Errand] /\ SeatsAreKept
  BY DEF ReservationInv, TablesTyped
<1>. HIDE DEF set
<1>5. ASSUME NEW i \in Bookings
      PROVE  /\ booking'[i] \in BookingRow
             /\ booking'[i].counted <=> booking[i].counted /\ booking[i].area \notin set
             /\ booking'[i].area = booking[i].area /\ booking'[i].size = booking[i].size /\ booking'[i].state = booking[i].state
  <2>1. booking[i] \in BookingRow
    BY <1>4 DEF TablesTyped
  <2>2. booking'[i] = [booking[i] EXCEPT !.counted = @ /\ booking[i].area \notin set]
    BY <1>2
  <2>. QED BY <2>1, <2>2 DEF BookingRow
<1>6. TablesTyped'
  <2>1. booking' \in [Bookings -> BookingRow]
    BY <1>2, <1>5
  <2>2. offered' \in [Areas -> Nat \cup {Unset}]
    BY <1>2, <1>4 DEF TablesTyped, Day
  <2>3. \A i \in Bookings : booking'[i].state = "none" => ~booking'[i].counted
    BY <1>4, <1>5 DEF TablesTyped
  <2>. QED BY <1>2, <1>4, <2>1, <2>2, <2>3 DEF TablesTyped
<1>7. ASSUME NEW a \in Areas
      PROVE  /\ seats'.left[a] = Unset <=> offered'[a] = Unset
             /\ offered'[a] # Unset => seats'.left[a] + Booked(booking', a) + Taken(running', a) <= offered'[a]
  <2>1. CASE a \in set
    <3>1. {i \in Bookings : Counts(booking'[i], a)} = {}
      BY <1>5, <2>1 DEF Counts
    <3>2. Booked(booking', a) = 0
      BY <3>1, SumOfNone DEF Booked
    <3>3. seats'.left[a] = offered'[a] /\ (offered'[a] # Unset => offered'[a] \in Nat)
      BY <1>2, <1>6, <2>1 DEF TablesTyped
    <3>. QED BY <1>3, <3>2, <3>3
  <2>2. CASE a \notin set
    <3>1. seats'.left[a] = seats.left[a] /\ offered'[a] = offered[a]
      BY <1>2, <2>2 DEF set
    <3>2. Booked(booking', a) = Booked(booking, a)
      <4>. DEFINE S == {i \in Bookings : Counts(booking[i], a)}
      <4>1. {i \in Bookings : Counts(booking'[i], a)} = S
        BY <1>5, <2>2 DEF Counts
      <4>2. IsFiniteSet(S) /\ \A i \in S : [k \in Bookings |-> booking'[k].size][i] = [k \in Bookings |-> booking[k].size][i]
        BY <1>5, BookingsFinite, FS_Subset
      <4>3. SumFunctionOnSet([k \in Bookings |-> booking'[k].size], S) = SumFunctionOnSet([k \in Bookings |-> booking[k].size], S)
        <5>. DEFINE f == [k \in Bookings |-> booking'[k].size]
                    g == [k \in Bookings |-> booking[k].size]
        <5>1. IsFiniteSet(S) /\ \A i \in S : f[i] = g[i]
          BY <4>2
        <5>. HIDE DEF S, f, g
        <5>2. SumFunctionOnSet(f, S) = SumFunctionOnSet(g, S)
          BY <5>1, SumDependsOnValues
        <5>. QED BY <5>2 DEF f, g
      <4>. QED BY <4>1, <4>3 DEF Booked
    <3>3. /\ seats.left[a] = Unset <=> offered[a] = Unset
          /\ offered[a] # Unset => seats.left[a] + Booked(booking, a) + Taken(running, a) <= offered[a]
      BY <1>4 DEF SeatsAreKept
    <3>4. Booked(booking, a) \in Nat /\ Taken(running, a) \in Nat
      BY <1>4, SeatsAreNumbers DEF TablesTyped
    <3>5. offered[a] # Unset => seats.left[a] \in Nat /\ offered[a] \in Nat
      BY <1>4, <3>3 DEF TablesTyped, Day
    <3>. QED BY <1>3, <3>1, <3>2, <3>3, <3>4, <3>5
  <2>. QED BY <2>1, <2>2
<1>. QED BY <1>3, <1>6, <1>7 DEF ReservationInv, SeatsAreKept

LEMMA DieKeeps ==
    ASSUME DayAlone, ReservationInv, NEW p \in Requests, Die(p)
    PROVE  ReservationInv'
<1>1. CASE running[p].step # "saveDay"
  BY <1>1, EndKeeps
<1>2. CASE running[p].step = "saveDay"
  <2>1. running' = [running EXCEPT ![p] = Resting] /\ UNCHANGED <<seats, booking, petition, offered>>
    BY DEF Die, End, Become
  <2>2. /\ running' \in [Requests -> Errand] /\ ErrandsAreTrue'
        /\ \A a \in Areas : Taken(running', a) = 0
    BY <1>2, <2>1, DayGivenUp
  <2>3. TablesTyped'
    BY <2>1 DEF ReservationInv, TablesTyped
  <2>4. ASSUME NEW a \in Areas
        PROVE  /\ seats.left[a] = Unset <=> offered[a] = Unset
               /\ offered[a] # Unset => seats.left[a] + Booked(booking, a) + 0 <= offered[a]
    <3>1. /\ seats.left[a] = Unset <=> offered[a] = Unset
          /\ offered[a] # Unset => seats.left[a] + Booked(booking, a) + Taken(running, a) <= offered[a]
      BY DEF ReservationInv, SeatsAreKept
    <3>2. Booked(booking, a) \in Nat /\ Taken(running, a) \in Nat
      BY SeatsAreNumbers DEF ReservationInv, TablesTyped
    <3>3. offered[a] # Unset => seats.left[a] \in Nat /\ offered[a] \in Nat
      BY <3>1 DEF ReservationInv, TablesTyped, Day
    <3>. QED BY <3>1, <3>2, <3>3
  <2>5. SeatsAreKept'
    BY <2>1, <2>2, <2>4 DEF SeatsAreKept
  <2>. QED BY <2>2, <2>3, <2>5 DEF ReservationInv
<1>. QED BY <1>1, <1>2

LEMMA ReservationStep == ASSUME DayAlone, ReservationInv, [ReservationNext]_reservationVars PROVE ReservationInv'
<1>1. CASE ReservationNext
  <2>1. PICK p \in Requests :
           \/ \E a \in Areas, n \in Sizes : AskPublic(p, a, n)
           \/ InsertPending(p) \/ Consume(p) \/ Book(p) \/ SaveAnswer(p) \/ Die(p) \/ ReadDay(p)
           \/ \E op \in {"accept", "reject"}, i \in Petitions : AskPanel(p, op, i)
           \/ \E i \in Petitions : RemovePetition(p, i)
           \/ \E d : running[p].step = "saveDay" /\ SaveDay(p, d) /\ d \in Day
           \/ \E a \in Areas, n \in Sizes : BookStaff(p, a, n)
           \/ \E i \in Bookings : Seat(p, i) \/ RemoveReservation(p, i) \/ Dismiss(p, i)
    <3>1. ASSUME NEW p \in Requests, running[p].step = "saveDay"
          PROVE  /\ \A a \in Areas, c \in Capacities \cup {Unset} : [running[p].day EXCEPT !.left[a] = c] \in Day
                 /\ \A s \in BOOLEAN : [running[p].day EXCEPT !.signup = s] \in Day
      <4>1. running[p].day \in Day
        BY <3>1 DEF ReservationInv, ErrandsAreTrue, TablesTyped
      <4>. QED BY <4>1, ReservationsAssumption DEF Day
    <3>. QED BY <1>1, <3>1 DEF ReservationNext
  <2>. QED BY <2>1, AskPublicKeeps, EndKeeps, ConsumeKeeps, BookKeeps, DieKeeps, ReadDayKeeps, AskPanelKeeps,
              RemovePetitionKeeps, SaveDayKeeps, StaffKeeps
<1>2. CASE UNCHANGED reservationVars
  BY <1>2 DEF reservationVars, ReservationInv, TablesTyped, ErrandsAreTrue, SeatsAreKept
<1>. QED BY <1>1, <1>2

LEMMA ReservationStart == ReservationInit => ReservationInv
<1>1. SUFFICES ASSUME ReservationInit PROVE ReservationInv
  OBVIOUS
<1>2. TablesTyped
  BY <1>1 DEF ReservationInit, TablesTyped, Day, NoBooking, BookingRow, NoPetition, PetitionRow
<1>3. running \in [Requests -> Errand] /\ \A p \in Requests : running[p] = Resting
  BY <1>1, RestingErrand DEF ReservationInit
<1>4. ErrandsAreTrue
  BY <1>3, RestingErrand DEF ErrandsAreTrue
<1>5. SeatsAreKept
  BY <1>1 DEF ReservationInit, SeatsAreKept
<1>. QED BY <1>2, <1>3, <1>4, <1>5 DEF ReservationInv

\* For any areas, sizes, petitions, bookings and requests: what the web and the panel book at
\* the same time never exceeds the seats offered, and a death in between loses seats at most.
THEOREM SeatsAreWithinOffer == ASSUME DayAlone PROVE ReservationSpec => []SeatsWithinOffer
<1>1. ReservationInit => ReservationInv
  BY ReservationStart
<1>2. ReservationInv /\ [ReservationNext]_reservationVars => ReservationInv'
  BY ReservationStep
<1>3. ReservationInv => SeatsWithinOffer
  <2>1. SUFFICES ASSUME ReservationInv, NEW a \in Areas, offered[a] # Unset
                 PROVE  seats.left[a] + Booked(booking, a) <= offered[a]
    BY DEF SeatsWithinOffer, Booked, Counts
  <2>2. seats.left[a] # Unset /\ seats.left[a] + Booked(booking, a) + Taken(running, a) <= offered[a]
    BY <2>1 DEF ReservationInv, SeatsAreKept
  <2>3. Booked(booking, a) \in Nat /\ Taken(running, a) \in Nat
    <3>1. booking \in [Bookings -> BookingRow] /\ running \in [Requests -> Errand]
      BY <2>1 DEF ReservationInv, TablesTyped
    <3>. QED BY <3>1, SeatsAreNumbers
  <2>4. seats.left[a] \in Nat /\ offered[a] \in Nat
    BY <2>1, <2>2 DEF ReservationInv, TablesTyped, Day
  <2>. QED BY <2>2, <2>3, <2>4
<1>. QED BY <1>1, <1>2, <1>3, PTL DEF ReservationSpec
-----------------------------------------------------------------------------
(* Reimbursements                                                             *)

\* updateMine saves the row it loaded: overlapping with a payment it would be pending again.
EditionAlone == "update" \notin AtOnce

Errands == [op : {"none", "pay", "update", "cancel", "remove"}, id : Claims \cup {0}, row : ClaimRow]

ClaimsTyped ==
    /\ claim \in [Claims -> ClaimRow] /\ handed \in [Claims -> Nat] /\ asked \in [Callers -> Errands]
    /\ \A i \in Claims : claim[i].active => claim[i].exists

\* A request has loaded a row that was there; an edition has loaded it as it still is.
AskedFor(p) ==
    /\ asked[p].op # "none" => asked[p].id \in Claims /\ asked[p].row.exists
    /\ asked[p].op = "update" => /\ asked[p].row = claim[asked[p].id]
                                 /\ \A q \in Callers \ {p} : asked[q] = NotAsking

\* The money of a row that can still be claimed was not given.
GivenOnce(i) == handed[i] = 0 \/ (handed[i] = 1 /\ claim[i].exists /\ ~Claimed(i))

ClaimInv == ClaimsTyped /\ (\A p \in Callers : AskedFor(p)) /\ \A i \in Claims : GivenOnce(i)

\* What an idle request and a free row look like.
LEMMA NotAskingErrand == NotAsking \in Errands /\ NotAsking.op = "none" /\ NoClaim \in ClaimRow /\ ~NoClaim.active /\ ~NoClaim.exists
BY DEF NotAsking, Errands, NoClaim, ClaimRow

\* The invariant holds at the start.
LEMMA ClaimStart == ClaimInit => ClaimInv
BY NotAskingErrand DEF ClaimInit, ClaimInv, ClaimsTyped, AskedFor, GivenOnce

\* A row is written while nobody edits another request's row.
LEMMA RowIsWritten ==
    ASSUME ClaimInv, NEW p \in Callers, NEW i \in Claims, NEW r \in ClaimRow, r.exists,
           \A q \in Callers \ {p} : asked[q].op # "update",
           claim' = [claim EXCEPT ![i] = r], asked' = [asked EXCEPT ![p] = NotAsking],
           handed' \in [Claims -> Nat], \A k \in Claims \ {i} : handed'[k] = handed[k], GivenOnce(i)'
    PROVE  ClaimInv'
<1>1. claim' \in [Claims -> ClaimRow] /\ claim'[i] = r /\ \A k \in Claims \ {i} : claim'[k] = claim[k]
  BY DEF ClaimInv, ClaimsTyped
<1>2. asked' \in [Callers -> Errands] /\ asked'[p] = NotAsking /\ \A q \in Callers \ {p} : asked'[q] = asked[q]
  BY NotAskingErrand DEF ClaimInv, ClaimsTyped
<1>3. ClaimsTyped'
  BY <1>1, <1>2 DEF ClaimInv, ClaimsTyped
<1>4. \A q \in Callers : AskedFor(q)'
  BY <1>2, NotAskingErrand DEF ClaimInv, AskedFor
<1>5. \A k \in Claims : GivenOnce(k)'
  BY <1>1 DEF ClaimInv, GivenOnce, Claimed
<1>. QED BY <1>3, <1>4, <1>5 DEF ClaimInv

\* While a request runs no other one edits.
LEMMA NobodyEdits ==
    ASSUME ClaimInv, NEW p \in Callers, asked[p].op # "none"
    PROVE  \A q \in Callers \ {p} : asked[q].op # "update"
BY NotAskingErrand DEF ClaimInv, AskedFor

\* A producer asks for money back: a free row, whose money nobody gave.
LEMMA CreateKeeps ==
    ASSUME ClaimInv, NEW p \in Callers, NEW i \in Claims, CreateMine(p, i), EditionAlone
    PROVE  ClaimInv'
<1>. DEFINE r == [exists |-> TRUE, active |-> TRUE, status |-> "PENDING"]
<1>1. r \in ClaimRow /\ r.exists
  BY DEF ClaimRow
<1>2. claim' = [claim EXCEPT ![i] = r] /\ handed' = handed /\ asked' = asked /\ ~claim[i].exists /\ asked[p] = NotAsking
  BY DEF CreateMine, MayClaim
<1>. HIDE DEF r
<1>3. asked' = [asked EXCEPT ![p] = NotAsking]
  BY <1>2 DEF ClaimInv, ClaimsTyped
<1>4. \A q \in Callers \ {p} : asked[q].op # "update"
  BY NotAskingErrand DEF CreateMine, MayClaim, EditionAlone
<1>5. GivenOnce(i)'
  BY <1>2 DEF ClaimInv, GivenOnce
<1>. QED BY <1>1, <1>2, <1>3, <1>4, <1>5, RowIsWritten DEF ClaimInv, ClaimsTyped

\* A request loads a row that can still be claimed; an edition finds nobody else at work.
LEMMA LoadKeeps ==
    ASSUME ClaimInv, EditionAlone, NEW p \in Callers, NEW op \in {"pay", "update", "cancel", "remove"}, NEW i \in Claims,
           LoadClaim(p, op, i)
    PROVE  ClaimInv'
<1>. DEFINE e == [op |-> op, id |-> i, row |-> claim[i]]
<1>1. asked' = [asked EXCEPT ![p] = e] /\ UNCHANGED <<claim, handed>> /\ claim[i].active /\ asked[p] = NotAsking
  BY DEF LoadClaim, MayClaim
<1>2. e \in Errands /\ e.op = op /\ e.id = i /\ e.row = claim[i] /\ claim[i].exists
  BY <1>1 DEF ClaimInv, ClaimsTyped, Errands
<1>. HIDE DEF e
<1>3. asked' \in [Callers -> Errands] /\ asked'[p] = e /\ \A q \in Callers \ {p} : asked'[q] = asked[q]
  BY <1>1, <1>2 DEF ClaimInv, ClaimsTyped
<1>4. ClaimsTyped' /\ \A k \in Claims : GivenOnce(k)'
  BY <1>1, <1>3 DEF ClaimInv, ClaimsTyped, GivenOnce, Claimed
<1>5. op = "update" => \A q \in Callers \ {p} : asked[q] = NotAsking
  BY DEF LoadClaim, MayClaim, EditionAlone
<1>6. \A q \in Callers \ {p} : asked[q].op # "update"
  <2>1. ASSUME NEW q \in Callers \ {p} PROVE asked[q] = NotAsking \/ asked[q].op \in AtOnce
    BY DEF LoadClaim, MayClaim
  <2>. QED BY <2>1, NotAskingErrand DEF EditionAlone
<1>7. AskedFor(p)'
  BY <1>1, <1>2, <1>3, <1>5 DEF AskedFor
<1>8. \A q \in Callers \ {p} : AskedFor(q)'
  BY <1>1, <1>3, <1>6 DEF ClaimInv, AskedFor
<1>. QED BY <1>4, <1>7, <1>8 DEF ClaimInv

\* The UPDATE of pay claims the row or changes nothing.
LEMMA PayKeeps ==
    ASSUME ClaimInv, NEW p \in Callers, PayClaim(p)
    PROVE  ClaimInv'
<1>0. PICK i \in Claims : i = asked[p].id
  BY DEF PayClaim, ClaimInv, AskedFor
<1>1. asked[p].op = "pay" /\ asked' = [asked EXCEPT ![p] = NotAsking]
  BY DEF PayClaim
<1>2. \A q \in Callers \ {p} : asked[q].op # "update"
  BY <1>1, NobodyEdits
<1>3. claim[i] \in ClaimRow /\ handed[i] \in Nat
  BY <1>1 DEF ClaimInv, ClaimsTyped
<1>4. CASE Claimed(i)
  <2>. DEFINE r == [claim[i] EXCEPT !.status = "PAID"]
  <2>1. claim' = [claim EXCEPT ![i] = r] /\ handed' = [handed EXCEPT ![i] = handed[i] + 1]
    BY <1>0, <1>4 DEF PayClaim
  <2>2. r \in ClaimRow /\ r.exists = claim[i].exists /\ r.status = "PAID"
    BY <1>3 DEF ClaimRow
  <2>3. claim[i].exists /\ handed[i] = 0
    BY <1>1, <1>4 DEF ClaimInv, ClaimsTyped, GivenOnce, Claimed
  <2>. HIDE DEF r
  <2>4. handed' \in [Claims -> Nat] /\ handed'[i] = 1 /\ (\A k \in Claims \ {i} : handed'[k] = handed[k]) /\ claim'[i] = r
    BY <1>1, <2>1, <2>2, <2>3 DEF ClaimInv, ClaimsTyped
  <2>5. GivenOnce(i)'
    BY <2>2, <2>3, <2>4 DEF GivenOnce, Claimed
  <2>. QED BY <1>1, <1>2, <2>1, <2>2, <2>3, <2>4, <2>5, RowIsWritten
<1>5. CASE ~Claimed(i)
  <2>1. UNCHANGED <<claim, handed>>
    BY <1>0, <1>5 DEF PayClaim
  <2>2. asked' \in [Callers -> Errands] /\ asked'[p] = NotAsking /\ \A q \in Callers \ {p} : asked'[q] = asked[q]
    BY <1>1, NotAskingErrand DEF ClaimInv, ClaimsTyped
  <2>. QED BY <1>2, <2>1, <2>2, NotAskingErrand DEF ClaimInv, ClaimsTyped, AskedFor, GivenOnce, Claimed
<1>. QED BY <1>4, <1>5

\* What the others write can no longer be claimed, save for an edition that wrote what was there.
LEMMA SaveKeeps ==
    ASSUME ClaimInv, NEW p \in Callers, SaveClaim(p)
    PROVE  ClaimInv'
<1>0. PICK i \in Claims : i = asked[p].id
  BY DEF SaveClaim, ClaimInv, AskedFor
<1>9. PICK r : r = CASE asked[p].op = "cancel" -> [asked[p].row EXCEPT !.status = "CANCELLED"]
                      [] asked[p].op = "remove" -> [asked[p].row EXCEPT !.active = FALSE]
                      [] OTHER                  -> asked[p].row
  OBVIOUS
<1>1. claim' = [claim EXCEPT ![i] = r] /\ asked' = [asked EXCEPT ![p] = NotAsking] /\ handed' = handed
      /\ asked[p].op \in {"update", "cancel", "remove"}
  BY <1>0, <1>9 DEF SaveClaim
<1>2. i \in Claims /\ asked[p].row \in ClaimRow /\ asked[p].row.exists
  BY <1>1 DEF ClaimInv, ClaimsTyped, AskedFor, Errands
<1>3. r \in ClaimRow /\ r.exists /\ (r.active /\ r.status = "PENDING" => asked[p].op = "update" /\ r = asked[p].row)
  BY <1>9, <1>1, <1>2 DEF ClaimRow
<1>4. asked[p].op = "update" => asked[p].row = claim[i]
  BY <1>0 DEF ClaimInv, AskedFor
<1>5. \A q \in Callers \ {p} : asked[q].op # "update"
  BY <1>1, NobodyEdits
<1>6. claim'[i] = r
  BY <1>1, <1>2 DEF ClaimInv, ClaimsTyped
<1>7. GivenOnce(i)'
  BY <1>1, <1>2, <1>3, <1>4, <1>6 DEF ClaimInv, GivenOnce, Claimed
<1>. QED BY <1>1, <1>2, <1>3, <1>5, <1>7, RowIsWritten DEF ClaimInv, ClaimsTyped

\* pay: however many people pay, cancel and remove a reimbursement at the same time, its
\* money is given once, for any number of requests and reimbursements.
THEOREM PaidOnlyOnce ==
    ASSUME EditionAlone PROVE ClaimSpec => []PaidOnce
<1>1. ClaimInv /\ [ClaimNext]_claimVars => ClaimInv'
  <2>. SUFFICES ASSUME ClaimInv, [ClaimNext]_claimVars PROVE ClaimInv'
    OBVIOUS
  <2>1. CASE UNCHANGED claimVars
    BY <2>1 DEF claimVars, ClaimInv, ClaimsTyped, AskedFor, GivenOnce, Claimed
  <2>. QED BY <2>1, EditionAlone, CreateKeeps, LoadKeeps, PayKeeps, SaveKeeps DEF ClaimNext
<1>2. ClaimInv => PaidOnce
  BY DEF ClaimInv, ClaimsTyped, GivenOnce, PaidOnce
<1>. QED BY <1>1, <1>2, ClaimStart, PTL DEF ClaimSpec
=============================================================================
