------------------------------- MODULE Levels -------------------------------
(***************************************************************************)
(* The levels a member has in the modules of a shop: what an editor sends,     *)
(* what is saved (sanitizeModulePermissions), what is in effect when the         *)
(* session is built (buildAuthUser) and the permissions that follow                *)
(* (expandModulePermissions).  One module stands for those that are treated        *)
(* alike, and a behaviour edits one family of modules that read each other.        *)
(***************************************************************************)
EXTENDS FiniteSets

CONSTANTS
    Families,     \* sets of modules edited together
    Roles,        \* roles without all the permissions
    None

VARIABLES
    family,
    role,         \* of the member
    saved,        \* modulePermissions, None for a member who has those of the role
    effect        \* what the member could do after the last edition

levelVars == <<family, role, saved, effect>>

When(c, S)   == IF c THEN S ELSE {}
Has(m, k)    == k \in DOMAIN m
Level(m, k)  == IF Has(m, k) THEN m[k] ELSE None
Chosen(m, k) == Level(m, k) \notin {None, "none"}
Put(m, k, v) == [x \in DOMAIN m \cup {k} |-> IF x = k THEN v ELSE m[x]]
Fill(c, m, k, v) == IF c THEN Put(m, k, v) ELSE m
Drop(m, k)   == [x \in DOMAIN m \ {k} |-> m[x]]

Publics  == {"publicMenu", "publicOrdering"}
Payments == {"paymentsSuppliers", "paymentsEmployees"}
Salon    == {"salonTables", "diagrama"}

\* The levels of each module.
Offered(k) ==
    CASE k = "closings"       -> {"none", "create", "read", "update", "lock"}
      [] k = "reports"        -> {"none", "read", "export"}
      [] k = "attendance"     -> {"none", "self", "read", "manage"}
      [] k = "tips"           -> {"none", "read", "create", "manage"}
      [] k = "comandaMonitor" -> {"none", "basic", "read"}
      [] k \in Publics \cup {"publicPages", "reportsSales", "reportsStats", "accountBalances", "customerOrdersMonitor"} -> {"none", "read"}
      [] OTHER                -> {"none", "read", "manage"}
\* Modules that no editor shows any more.
Former == {"movements", "salon", "payments", "publicPages"}

\* Orders of customers and of tables were one module each.
OrdersSplit(m) ==
    LET parent == Level(m, "customerOrders")
        a == Fill(~Has(m, "customerOrdersHistory"), m, "customerOrdersHistory", parent)
    IN IF Chosen(m, "customerOrders") THEN Fill(~Has(a, "customerOrdersMonitor"), a, "customerOrdersMonitor", "read") ELSE m
ComandaSplit(m) ==
    LET a == Fill(~Has(m, "comandaReceipts"), m, "comandaReceipts", IF Level(m, "comanda") = "manage" THEN "manage" ELSE "read")
    IN IF Chosen(m, "comanda") THEN Fill(~Has(a, "comandaMonitor"), a, "comandaMonitor", "read") ELSE m
FillAll(m, keys, v) == [x \in DOMAIN m \cup keys |-> IF x \in keys /\ ~Chosen(m, x) THEN v ELSE m[x]]
Split(m, former, keys) == IF Chosen(m, former) THEN Drop(FillAll(m, keys, m[former]), former) ELSE m

Migrated(m0) ==
    LET m1 == Split(m0, "movements", {"expenses", "accountTransfers"})
        m2 == Fill(Chosen(m1, "expenses") /\ ~Chosen(m1, "incomes"), m1, "incomes", Level(m1, "expenses"))
        stocks == {Level(m2, k) : k \in {"stock", "shortages"}}
        m3 == IF Has(m2, "orders") THEN m2 ELSE
              Fill(stocks \cap {"read", "manage"} # {}, m2, "orders", IF "manage" \in stocks THEN "manage" ELSE "read")
        m4 == Fill(~Has(m3, "shopConfig") /\ Chosen(m3, "shop"), m3, "shopConfig", Level(m3, "shop"))
        m5 == Fill(~Has(m4, "attendanceFichar") /\ Level(m4, "attendance") = "manage", m4, "attendanceFichar", "manage")
        m6 == Split(m5, "salon", Salon)
    IN ComandaSplit(OrdersSplit(Split(m6, "payments", Payments)))

\* What is saved of what an editor sends: a level "none" only where its absence would mean something else.
Sanitized(m0, allowUsers) ==
    LET m == Migrated(m0)
        kept == {k \in DOMAIN m : /\ k \notin Former /\ m[k] \in Offered(k) /\ (k = "users" => allowUsers)
                                  /\ m[k] = "none" => k \in {"orders", "shopConfig", "reportsSales"}}
        pages == When(Level(m, "publicPages") = "read", Publics)
    IN [k \in kept \cup pages |-> IF k \in kept THEN m[k] ELSE "read"]

\* What is in effect of what is saved.
Effective(m0) ==
    LET m1 == Fill(/\ ~Has(m0, "reportsSales")
                   /\ Level(m0, "reports") \in {"read", "export"} \/ Level(m0, "reportsStats") = "read", m0, "reportsSales", "read")
        m2 == Fill(~Has(m0, "attendanceFichar") /\ Level(m0, "attendance") = "manage", m1, "attendanceFichar", "manage")
    IN ComandaSplit(OrdersSplit(m2))
-----------------------------------------------------------------------------
(* Permissions                                                                *)

Of(k, level) == When(level \in {"read", "manage"}, {<<k, "read">>}) \cup When(level = "manage", {<<k, "manage">>})
Paired == {"stock", "shortages", "orders", "customerOrders", "customerOrdersHistory", "comanda", "comandaReceipts", "suppliers",
           "productionAttendance", "splits", "orderingCatalog", "promos", "employees", "users"} \cup Salon \cup Payments

ExpandMoney(m) ==
    LET former    == When(Level(m, "movements") \in {"read", "manage"}, {m["movements"]})
        or(k, ls) == IF Has(m, k) THEN {m[k]} ELSE ls
        expenses  == or("expenses", former)
        transfers == or("accountTransfers", former)
        incomes   == or("incomes", expenses)
        splits    == or("partnerSplits", transfers)
        money     == expenses \cup transfers \cup incomes
        all(k, ls) == UNION {Of(k, l) : l \in ls}
    IN all("expenses", expenses) \cup all("accountTransfers", transfers) \cup all("incomes", incomes) \cup all("partnerSplits", splits)
       \cup When(money \cap {"read", "manage"} # {}, {<<"movements", "read">>}) \cup When("manage" \in money, {<<"movements", "manage">>})
       \cup UNION {When(Level(m, k) \in {"read", "manage"},
                        {<<x, "read">> : x \in {k, "expenses", "accountTransfers", "incomes", "movements"}}) : k \in {"accounts", "concepts"}}
       \cup UNION {When(Level(m, k) = "manage", {<<k, "manage">>}) : k \in {"accounts", "concepts"}}
       \cup When(Level(m, "accountBalances") = "read", {<<"accountBalances", "read">>})
\* Who manages payments may add who is paid.
ExpandPayments(m) ==
    LET levels == {Level(m, k) : k \in Payments \cup {"payments"}}
    IN When(levels \cap {"read", "manage"} # {}, {<<"payments", "read">>, <<"suppliers", "read">>})
       \cup When("manage" \in levels, {<<"payments", "manage">>, <<"suppliers", "manage">>})
ExpandStaff(m) ==
    LET a == Level(m, "attendance")
        t == Level(m, "tips")
    IN When(a = "self", {<<"attendance", "self">>}) \cup Of("attendance", a)
       \cup When(Level(m, "attendanceFichar") \in {"read", "manage"}, {<<"attendance", "checkIn">>})
       \cup When(t \in {"read", "create", "manage"}, {<<"tips", "read">>}) \cup When(t \in {"create", "manage"}, {<<"tips", "create">>})
       \cup When(t = "manage", {<<"tips", "manage">>})
ExpandClosings(m) ==
    LET c == Level(m, "closings")
        r == Level(m, "reports")
    IN When(c \in {"create", "read", "update", "lock"}, {<<"closings", "read">>})
       \cup When(c \in {"create", "update", "lock"}, {<<"closings", "create">>})
       \cup When(c \in {"update", "lock"}, {<<"closings", "update">>}) \cup When(c = "lock", {<<"closings", "lock">>})
       \cup When(r \in {"read", "export"}, {<<"reports", "view">>}) \cup When(r = "export", {<<"reports", "export">>})
       \cup When(Level(m, "reportsSales") = "read", {<<"reportsSales", "read">>})
       \cup When(Level(m, "reportsStats") = "read", {<<"reportsStats", "read">>})
ExpandShop(m) ==
    Of("shops", Level(m, "shop")) \cup Of("shopConfig", IF Has(m, "shopConfig") THEN m["shopConfig"] ELSE Level(m, "shop"))
ExpandScreens(m) ==
    When(Level(m, "customerOrdersMonitor") = "read", {<<"customerOrdersMonitor", "read">>})
    \cup When(Level(m, "comandaMonitor") \in {"basic", "read"}, {<<"comandaMonitor", "read">>})
    \cup When(Level(m, "comandaMonitor") = "read", {<<"comandaMonitor", "amounts">>})
    \cup {<<k, "read">> : k \in {x \in Publics : Level(m, x) = "read"} \cup When(Level(m, "publicPages") = "read", Publics)}

Expand(m0) ==
    LET m == ComandaSplit(OrdersSplit(m0))
    IN UNION {Of(k, Level(m, k)) : k \in Paired} \cup ExpandMoney(m) \cup ExpandPayments(m) \cup ExpandStaff(m)
       \cup ExpandClosings(m) \cup ExpandShop(m) \cup ExpandScreens(m)

\* The permissions a role stands for.
Everyone == {<<"closings", "create">>, <<"tips", "create">>, <<"tips", "read">>}
Readable == {"closings", "employees", "attendance", "expenses", "accountTransfers", "partnerSplits", "incomes", "payments", "suppliers",
             "stock", "shortages", "orders", "customerOrders", "customerOrdersHistory", "customerOrdersMonitor", "comanda", "comandaMonitor",
             "comandaReceipts", "tips"} \cup Publics
Viewer   == {<<k, "read">> : k \in Readable} \cup {<<"reports", "view">>, <<"reports", "export">>, <<"comandaMonitor", "amounts">>}
Manager  == Viewer \cup Everyone \cup {<<k, "read">> : k \in Salon \cup {"accounts", "concepts", "shops", "shopConfig", "orderingCatalog", "promos", "users"}}
            \cup {<<k, "manage">> : k \in (Readable \ ({"closings", "customerOrdersMonitor", "comandaMonitor"} \cup Publics))
                                          \cup Salon \cup {"accounts", "concepts", "shops", "shopConfig", "orderingCatalog", "promos"}}
            \cup {<<"closings", "update">>, <<"closings", "lock">>, <<"attendance", "checkIn">>}
RolePermissions(r) == CASE r = "cashier" -> Everyone [] r = "viewer" -> Viewer [] r = "manager" -> Manager

\* The levels of a role.
Derived(r) ==
    LET has(k, p) == <<k, p>> \in RolePermissions(r)
        level(k)  == IF has(k, "manage") THEN "manage" ELSE IF has(k, "read") THEN "read" ELSE "none"
        view(c)   == IF c THEN "read" ELSE "none"
        from(k, l) == IF level(k) = "none" THEN l ELSE level(k)
        derived(k) ==
            CASE k = "closings" -> IF has(k, "lock") THEN "lock" ELSE IF has(k, "update") THEN "update" ELSE IF has(k, "create") THEN "create"
                                   ELSE view(has(k, "read"))
              [] k = "reports"  -> IF has(k, "export") THEN "export" ELSE view(has(k, "view"))
              [] k \in {"reportsSales", "reportsStats"} -> view(has(k, "read") \/ has("reports", "view"))
              [] k = "attendance" -> IF level(k) = "none" /\ has(k, "self") THEN "self" ELSE level(k)
              [] k = "attendanceFichar" -> IF has("attendance", "checkIn") \/ has("attendance", "manage") THEN "manage" ELSE "none"
              [] k = "tips"     -> IF has(k, "manage") THEN "manage" ELSE IF has(k, "create") THEN "create" ELSE view(has(k, "read"))
              [] k = "productionAttendance" -> from(k, level("attendance"))
              [] k = "splits"   -> from(k, level("partnerSplits"))
              [] k = "promos"   -> from(k, level("orderingCatalog"))
              [] k = "accountBalances" -> view(\E x \in {k, "expenses", "incomes", "accountTransfers"} : has(x, "read"))
              [] k \in Payments -> from(k, level("payments"))
              [] k = "shop"     -> level("shops")
              [] k = "shopConfig" -> from(k, level("shops"))
              [] k = "comandaMonitor" -> IF has(k, "amounts") THEN "read" ELSE IF has(k, "read") THEN "basic" ELSE "none"
              [] k = "customerOrdersMonitor" -> view(has(k, "read"))
              [] k \in Publics  -> view(has(k, "read") \/ has("publicPages", "read"))
              [] OTHER          -> level(k)
    IN [k \in (UNION Families) \ Former |-> derived(k)]

\* What a session has, and what the editor of members shows (effectiveModulesForLink).
Session == IF saved = None THEN Derived(role) ELSE Effective(saved)
Shown   == IF saved = None THEN Derived(role) ELSE Effective(saved)
-----------------------------------------------------------------------------
Forms(f) == UNION {[ks -> UNION {Offered(k) : k \in ks}] : ks \in SUBSET f}
Valid(m) == \A k \in DOMAIN m : m[k] \in Offered(k)

Init == family \in Families /\ role \in Roles /\ saved = None /\ effect = Expand(Session)

\* Somebody who manages every shop chooses levels.
Edit ==
    /\ saved = None
    /\ \E m \in Forms(family) : Valid(m) /\ saved' = Sanitized(m, TRUE)
    /\ effect' = Expand(Effective(saved')) /\ UNCHANGED <<family, role>>

\* The form is saved as it was shown.
SaveAgain == saved' = Sanitized(Shown, TRUE) /\ UNCHANGED <<family, role, effect>>

Next == Edit \/ SaveAgain
Spec == Init /\ [][Next]_levelVars
-----------------------------------------------------------------------------
(* Properties                                                                 *)

\* Saving what the editor shows changes nothing of what the member may do, whether the levels came from the role,
\* from a form of today or from one of before the modules were split.
EditorRoundTrip == Expand(Session) = effect

\* A higher level never takes anything away.
Higher(k, l) ==
    CASE k = "closings"   -> [create |-> {"update", "lock"}, read |-> {"create", "update", "lock"}, update |-> {"lock"}, lock |-> {}][l]
      [] k = "attendance" -> [self |-> {}, read |-> {"manage"}, manage |-> {}][l]
      [] OTHER -> Offered(k) \cap [basic |-> {"read"}, read |-> {"create", "export", "manage"}, create |-> {"manage"}, export |-> {}, manage |-> {}][l]
RaisingGives ==
    saved # None =>
        \A k \in DOMAIN saved : saved[k] # "none" =>
            \A l \in Higher(k, saved[k]) : effect \subseteq Expand(Effective([saved EXCEPT ![k] = l]))
=============================================================================
