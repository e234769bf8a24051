------------------------------ MODULE MCCounter ------------------------------
(***************************************************************************)
(* The components that serve customers and pay the people who do, each in a    *)
(* scene of its own: orders and their stock, the bill of a table, reservations, *)
(* reimbursements, attendance and payroll; the concepts that money is filed under *)
(* with the reports of money, and the reports of sales.                          *)
(***************************************************************************)
EXTENDS Orders, Reservations, Reimbursements, TLC

CONSTANTS
    Scenes        \* the scenes to play

VARIABLES
    scene,
    days, punching, withHours,
    work, cooked, period, wages, generating, due,
    lines, assigned, available, edits,
    concept, movement, payment, expense, setting, job, removed, mixed, filings,
    sale, imported, link, labels, rubro, rule, turns

\* The orders of the configuration: two, sent twice, removed and paid (by one at a
\* time); their stock movements are all done.
\* One order, edited, with stock that is corrected by hand and movements that are lost.
OneOrder == INSTANCE Orders WITH
    Orders <- {1}, Quantities <- {1, 2}, MaxLost <- 1, MaxAdjusted <- 1,
    Together <- {"create", "status", "credit", "remove"}, Alone <- {"patch", "adjust"}

Clock == INSTANCE Attendance WITH
    Together <- {"punch"}, Alone <- {"upsert"}, Shifts <- {"noon", "night"}, Rotating <- {"night"},
    Hours <- {1, 2}, In <- 1, Out <- 2, BlankRows <- FALSE

\* One employee who works both shifts of a two-day month of two weeks.
Month == INSTANCE Payroll WITH
    lines <- wages,
    Employees <- {"ana"}, Dates <- {1, 2}, ShopShifts <- <<"noon", "night">>,
    Length <- [s \in {"noon", "night"} |-> IF s = "noon" THEN 1 ELSE 2],
    Worked <- [e \in {"ana"} |-> {"noon", "night"}], Weeks <- {{1}, {2}}, Ranges <- {{1, 2}}, MaxEdits <- 1

\* Two promos that compete for the same item, and an extra no promo covers.
Bill == INSTANCE TablePromos WITH
    Items <- {"agua", "birra"}, Extras <- {"hielo"},
    Carte <- [x \in {"agua", "birra", "hielo"} |-> CASE x = "agua" -> 2 [] x = "birra" -> 3 [] x = "hielo" -> 1],
    Promos <- [x \in {"dos", "birras"} |->
                 IF x = "dos" THEN [pool |-> <<"agua", "birra">>, packQty |-> 2, fixedPrice |-> 3]
                              ELSE [pool |-> <<"birra">>, packQty |-> 3, fixedPrice |-> 4]],
    Quantities <- {1, 3}, Prices <- {0, 3}, Caps <- {1, None}, MaxLines <- 2, MaxEdits <- 1

\* Two concepts and room for a third, two movements, and two unifications at once.
Filing == INSTANCE MoneyReports WITH
    changes <- filings, Ids <- 1..3, Movements <- {1, 2}, Payments <- {1}, Expenses <- {1}, Jobs <- {"one", "other"},
    Bases <- {"Luz"}, Seed <- [n \in {<<"Otros", 1>>} |-> "EXPENSE"], Otros <- "Otros", Traspaso <- "Traspaso",
    Known <- [c \in {1, 2} |-> [name |-> <<IF c = 1 THEN "Otros" ELSE "Luz", 1>>, kind |-> "EXPENSE",
                                on |-> TRUE, marked |-> FALSE, gone |-> FALSE]],
    Account <- [a \in {"caja", "egresos", "ingresos", "proveedor"} |->
                  [named |-> CASE a = "egresos" -> "egreso" [] a = "ingresos" -> "ingreso" [] OTHER -> None,
                   coded |-> CASE a = "egresos" -> "egreso" [] a = "ingresos" -> "ingreso" [] OTHER -> None,
                   party |-> a = "proveedor"]],
    Routes <- {<<"caja", "egresos">>, <<"ingresos", "caja">>, <<"caja", "proveedor">>, <<None, "caja">>, <<"caja", "ingresos">>},
    Labels <- {"luz"}, Amount <- [m \in {1, 2} |-> m], Day <- [m \in {1, 2} |-> m], MaxChanges <- 3

\* One order made on the eve, on the day or two days later, and a ticket of two products.
Tally == INSTANCE Summaries WITH
    order <- sale, changes <- turns, Orders <- {1}, Instants <- {2, 3, 7}, Periods <- {<<0, 3>>, <<1, 1>>},
    Plates <- {[n |-> "asado", item |-> "a", promo |-> FALSE, amount |-> 1], [n |-> "combo", item |-> "a", promo |-> TRUE, amount |-> 2]},
    Pays <- {"efectivo"},
    Tickets <- {[id |-> "t1", day |-> 1, pay |-> None, lines |-> {[code |-> 1, cat |-> "carnes", sub |-> None, amount |-> 4],
                                                                 [code |-> 2, cat |-> None, sub |-> None, amount |-> 8]}]},
    Items <- {"a", "b"}, Codes <- {1, 2}, Labelled <- <<"carnes", None>>, Categories <- {"carnes"}, Employees <- {"ana"}, Rules <- {1, 2}, MaxChanges <- 3

attendanceVars  == <<days, punching, withHours>>
payrollVars     == <<work, cooked, period, wages, generating, due>>
promoVars       == <<lines, assigned, available, edits>>
conceptVars     == <<concept, movement, payment, expense, setting, job, removed, mixed, filings>>
salesVars       == <<sale, imported, link, labels, rubro, rule, turns>>
counterVars     == <<scene, orderVars, reservationVars, claimVars, attendanceVars, payrollVars, promoVars, conceptVars, salesVars>>

MCInit ==
    /\ scene \in Scenes
    /\ IF scene = "orders" THEN Init ELSE OneOrder!Init
    /\ ReservationInit /\ ClaimInit /\ Clock!Init /\ Month!Init /\ Bill!Init /\ Filing!Init
    /\ Tally!Init /\ (scene # "sales" => imported = {})

MCNext ==
    /\ UNCHANGED scene
    /\ \/ scene = "orders" /\ Next
          /\ UNCHANGED <<reservationVars, claimVars, attendanceVars, payrollVars, promoVars, conceptVars, salesVars>>
       \/ scene = "stock" /\ OneOrder!Next
          /\ UNCHANGED <<reservationVars, claimVars, attendanceVars, payrollVars, promoVars, conceptVars, salesVars>>
       \/ scene = "reservations" /\ ReservationNext
          /\ UNCHANGED <<orderVars, claimVars, attendanceVars, payrollVars, promoVars, conceptVars, salesVars>>
       \/ scene = "reimbursements" /\ ClaimNext
          /\ UNCHANGED <<orderVars, reservationVars, attendanceVars, payrollVars, promoVars, conceptVars, salesVars>>
       \/ scene = "attendance" /\ Clock!Next
          /\ UNCHANGED <<orderVars, reservationVars, claimVars, payrollVars, promoVars, conceptVars, salesVars>>
       \/ scene = "payroll" /\ Month!Next
          /\ UNCHANGED <<orderVars, reservationVars, claimVars, attendanceVars, promoVars, conceptVars, salesVars>>
       \/ scene = "promos" /\ Bill!Next
          /\ UNCHANGED <<orderVars, reservationVars, claimVars, attendanceVars, payrollVars, conceptVars, salesVars>>
       \/ scene = "concepts" /\ Filing!Next
          /\ UNCHANGED <<orderVars, reservationVars, claimVars, attendanceVars, payrollVars, promoVars, salesVars>>
       \/ scene = "sales" /\ Tally!Next
          /\ UNCHANGED <<orderVars, reservationVars, claimVars, attendanceVars, payrollVars, promoVars, conceptVars>>

MCSpec == MCInit /\ [][MCNext]_counterVars

Symmetry == Permutations(Requests) \cup Permutations(Keys)

\* No item is in two packs of a bill, no pack is missed, and no promo makes it dearer.
TableBillRight == scene = "promos" => Bill!EachItemOnce /\ Bill!NoPackMissed /\ Bill!NeverDearer
\* The lists and the reports of money agree on every movement, and what is filed under
\* unified concepts is found under the one they became; the reports of sales, the preview
\* of a merge, the dashboard and the commissions agree; and a payroll pays every hour and
\* every bonus once.
ReportsTell ==
    /\ scene = "payroll" => Month!PayrollPaysOnce
    /\ scene = "concepts" => /\ Filing!ListsPartition /\ Filing!PivotsAddUp /\ Filing!SummariesAgree
                             /\ Filing!NamesTell /\ Filing!UnifyLeavesNoReference
    /\ scene = "sales" => /\ Tally!BreakdownsAddUp /\ Tally!DrillDownTells /\ Tally!PreviewTellsMerge
                          /\ Tally!SaleInItsDay /\ Tally!DashboardAndCommissionsAgree
\* A punch that was recorded stays, and a unification moves no money between lists.
StepsStand == [][(scene = "attendance" => Clock!EntryStands) /\ (scene = "concepts" => Filing!TotalsStand)]_counterVars
=============================================================================
