----------------------------- MODULE ShopBackup -----------------------------
(***************************************************************************)
(* The dump, the reset and the restore of a shop, by module.  The shop is one  *)
(* row of each table with all its references; a table a filter splits is one   *)
(* row for each part.  A restore gives every row a new id and translates the    *)
(* references to what it has read so far; the file decides what it deletes.     *)
(* A restore and a reset are one transaction each.                              *)
(***************************************************************************)
EXTENDS Integers, Sequences, FiniteSets, SequencesExt, FiniteSetsExt

CONSTANTS
    Selections,   \* sets of modules an administrator asks for
    MaxSteps,     \* bound: operations
    None

VARIABLES
    db,           \* rows of the shop
    file,         \* the backup that was last taken, None before
    steps

backupVars == <<db, file, steps>>
-----------------------------------------------------------------------------
\* BACKUP_MODULES: what a module dumps and deletes, and what is cleared with it.
Module(rows, clears) == [rows |-> rows, clears |-> clears]
PaymentModules == {"paymentsSuppliers", "paymentsServices", "paymentsEmployees"}
LedgerModules  == {"movements", "expenses", "incomes"}

MoneyModules ==
    [closings     |-> Module({"cash_closings", "closing_expenses", "closing_extra_lines", "closing_source_amounts",
                              "closing_step_files", "shop_closing_sources"}, {"cashWithdrawals", "settlements"}),
     cashWithdrawals |-> Module({"cash_pending_withdrawals", "cash_pending_withdrawal_offsets"}, {}),
     settlements  |-> Module({}, {}),
     tips         |-> Module({"tip_days", "tip_allocations"}, {}),
     serviceRules |-> Module({"service_rule_categories", "service_rules"}, {}),
     customerOrders |-> Module({"table_sessions", "customer_orders", "comanda_line_audits"}, {}),
     expenses     |-> Module({"expense"}, {}),
     incomes      |-> Module({"income"}, {}),
     movements    |-> Module({"transfer"}, {}),
     partnerSplits |-> Module({"partner_split_configs", "partner_split_runs"}, {}),
     paymentsSuppliers |-> Module({"payment_supplier"}, {}),
     paymentsServices  |-> Module({"payment_service"}, {}),
     paymentsEmployees |-> Module({"payment_employee"}, {})]
FloorModules ==
    [suppliers    |-> Module({"suppliers"}, {"paymentsSuppliers"}),
     services     |-> Module({"services"}, {"paymentsServices"}),
     reservations |-> Module({"reservations", "reservation_requests", "reservation_day_notices"}, {}),
     waitingList  |-> Module({"waiting_list_entries"}, {}),
     salon        |-> Module({"salon_sectors", "salon_tables", "salon_map_objects", "salon_area_rules"}, {"customerOrders"}),
     stock        |-> Module({"food_category", "food", "food_adjustment"}, {}),
     beverageStock |-> Module({"beverage_category", "beverage", "beverage_adjustment"}, {}),
     shortages    |-> Module({"shortages"}, {}),
     orders       |-> Module({"orders", "order_lines"}, {})]
StaffModules ==
    [staff        |-> Module({"employees", "vacations", "employee_salary_history"},
                             {"attendance", "productionAttendance", "payroll", "commissions", "reimbursements", "tips",
                              "paymentsEmployees"}),
     candidates   |-> Module({"candidates"}, {}),
     payroll      |-> Module({"payroll_periods", "payroll_lines"}, {}),
     commissions  |-> Module({"employee_commission_rules"}, {}),
     attendance   |-> Module({"attendance_days"}, {}),
     productionAttendance |-> Module({"production_attendance_days"}, {}),
     reimbursements |-> Module({"reimbursements"}, {}),
     posMenu      |-> Module({"pos_categories", "pos_subcategories", "pos_products"}, {"posSales"}),
     posSales     |-> Module({"pos_sale_imports", "pos_sale_tickets", "pos_sale_ticket_lines", "pos_sale_dailies"}, {}),
     catalog      |-> Module({"ledger_accounts", "ledger_account_users"},
                             LedgerModules \cup PaymentModules \cup {"suppliers", "services", "partnerSplits", "cashWithdrawals"}),
     concepts     |-> Module({"concepts"}, LedgerModules \cup PaymentModules),
     shopConfig   |-> Module({"shop", "user_shops", "shop_integrations"}, {})]
Modules == MoneyModules @@ FloorModules @@ StaffModules

\* expandBackupModules: what is cleared with a module may clear others.
Cleared(ids) == ids \cup UNION {Modules[m].clears : m \in ids}
Expand(ids) == Cleared(Cleared(Cleared(ids)))
RowsOf(ids) == UNION {Modules[m].rows : m \in ids}

\* What goes to the file: the three filters of payments together are no filter.
Dumped(ids) ==
    RowsOf(ids) \cup (IF PaymentModules \subseteq ids THEN {"payment_partner"} ELSE {})
                \cup (IF "settlements" \in ids THEN {"closing_source_amounts"} ELSE {})

Payments == {"payment_supplier", "payment_service", "payment_employee", "payment_partner"}
\* purgeStepsForModules, without settlement_fields.
Purged(ids) ==
    RowsOf(ids \ {"shopConfig"}) \cup (IF "catalog" \in ids THEN Payments ELSE {})
                                 \cup (IF "customerOrders" \in ids THEN {"print_jobs"} ELSE {})

\* PURGE_STEP_ORDER, in groups: "settled" clears the settlement of the sources of closings.
PurgedFirst ==
    <<<<"tip_allocations", "tip_days", "comanda_line_audits", "customer_orders", "table_sessions", "print_jobs",
        "order_lines", "orders", "shortages">>,
      <<"food_adjustment", "beverage_adjustment", "food", "beverage", "food_category", "beverage_category">>,
      <<"waiting_list_entries", "reservation_requests", "reservations", "reservation_day_notices", "salon_tables",
        "salon_map_objects", "salon_sectors", "salon_area_rules", "service_rules", "service_rule_categories">>,
      <<"reimbursements", "production_attendance_days", "vacations", "employee_salary_history", "candidates",
        "cash_pending_withdrawal_offsets", "cash_pending_withdrawals">>,
      <<"pos_sale_ticket_lines", "pos_sale_tickets", "pos_sale_dailies", "pos_sale_imports", "payroll_lines",
        "payroll_periods", "attendance_days", "employee_commission_rules">>,
      <<"payment_supplier", "payment_service", "payment_employee", "payment_partner", "partner_split_runs",
        "partner_split_configs", "settled", "closing_step_files", "closing_source_amounts">>,
      <<"transfer", "expense", "income", "closing_expenses", "closing_extra_lines", "cash_closings",
        "shop_closing_sources", "suppliers", "services">>>>
PurgedLast ==
    <<<<"ledger_account_users", "pos_products", "pos_subcategories", "pos_categories", "concepts", "ledger_accounts",
        "employees">>>>
PurgeParentsFirst == PurgedLast \o PurgedFirst
PurgeOrder == PurgedFirst \o PurgedLast

\* importFromWorkbook, whose errors undo the restore.
StaffSheets ==
    <<"ledger_accounts", "ledger_account_users", "concepts", "pos_categories", "pos_subcategories", "pos_products",
        "employees", "employee_commission_rules", "attendance_days", "payroll_periods", "payroll_lines">>
ClosingSheets ==
    <<"cash_closings", "closing_expenses", "closing_extra_lines", "transfer", "expense", "income",
        "pos_sale_imports", "pos_sale_tickets", "pos_sale_ticket_lines", "pos_sale_dailies">>
\* importExtraSheets, which skips a row it cannot insert; the row of the shop is last.
ExtraOrder ==
    <<"shop_closing_sources", "closing_source_amounts", "cash_pending_withdrawals", "cash_pending_withdrawal_offsets",
        "suppliers", "services", "partner_split_configs", "partner_split_runs",
      "salon_sectors", "salon_tables", "salon_map_objects", "salon_area_rules", "table_sessions", "customer_orders",
        "comanda_line_audits", "reservations", "reservation_day_notices", "reservation_requests", "waiting_list_entries",
      "food_category", "beverage_category", "food", "beverage", "food_adjustment", "beverage_adjustment",
        "shortages", "orders", "order_lines",
      "candidates", "production_attendance_days", "vacations", "employee_salary_history", "tip_days",
        "tip_allocations", "reimbursements", "service_rule_categories", "service_rules", "closing_step_files",
      "payment_supplier", "payment_service", "payment_employee", "payment_partner", "shop_integrations",
        "user_shops", "shop">>
MainOrder == StaffSheets \o ClosingSheets
ImportOrder == MainOrder \o ExtraOrder
-----------------------------------------------------------------------------
\* A reference: what MySQL does when its target is deleted, and what a restore does when the target
\* is not translated: it skips the row, fails to insert it, nulls the reference or keeps the old id;
\* "stale" is never translated and "lost" is not in the file.
Ref(onDelete, miss, pairs) == {[from |-> p[1], to |-> p[2], onDelete |-> onDelete, miss |-> miss] : p \in pairs}
To(to, rows) == rows \X {to}

References ==
    UNION {
        Ref("cascade", "skip",
            To("ledger_accounts", {"ledger_account_users"}) \cup To("pos_categories", {"pos_subcategories"})
            \cup To("employees", {"employee_commission_rules", "attendance_days"})
            \cup To("payroll_periods", {"payroll_lines"}) \cup To("pos_sale_tickets", {"pos_sale_ticket_lines"})
            \cup To("cash_closings", {"closing_expenses", "closing_extra_lines", "closing_source_amounts", "closing_step_files"})
            \cup To("cash_pending_withdrawals", {"cash_pending_withdrawal_offsets"})
            \cup To("orders", {"order_lines"}) \cup To("tip_days", {"tip_allocations"})),
        Ref("cascade", "fail",
            To("expense", {"cash_pending_withdrawal_offsets"}) \cup To("employees", {"production_attendance_days"})),
        Ref("restrict", "skip",
            To("ledger_accounts", {"transfer", "expense", "income"}) \cup To("employees", {"payroll_lines", "employee_salary_history"})
            \cup To("pos_sale_imports", {"pos_sale_tickets", "pos_sale_dailies"})
            \cup To("cash_closings", {"cash_pending_withdrawals"}) \cup To("salon_sectors", {"salon_tables"})
            \cup To("salon_tables", {"table_sessions"})),
        Ref("restrict", "fail",
            To("ledger_accounts", {"suppliers", "services"}) \cup To("salon_sectors", {"salon_map_objects"})
            \cup To("food_category", {"food"}) \cup To("beverage_category", {"beverage"})
            \cup To("employees", {"tip_allocations", "reimbursements"}) \cup To("service_rule_categories", {"service_rules"})),
        Ref("restrict", "null",
            To("concepts", {"expense", "income"}) \cup To("employees", {"expense", "vacations", "table_sessions", "payment_employee"})
            \cup To("ledger_accounts", Payments \cup {"shop_closing_sources", "vacations"})
            \cup To("suppliers", {"payment_supplier"}) \cup To("services", {"payment_service"})
            \cup To("cash_closings", {"tip_days"})),
        Ref("null", "skip", To("shop_closing_sources", {"closing_source_amounts"})),
        Ref("null", "null",
            To("pos_categories", {"pos_products"}) \cup To("pos_subcategories", {"pos_products"})
            \cup To("cash_closings", {"income"}) \cup To("ledger_accounts", {"closing_source_amounts", "shop_integrations"})
            \cup To("concepts", Payments) \cup To("expense", Payments \ {"payment_partner"}) \cup To("transfer", {"payment_partner"})
            \cup To("reservations", {"reservation_requests"}) \cup To("shop_closing_sources", {"shop_integrations"})),
        Ref("none", "skip",
            To("food", {"food_adjustment"}) \cup To("beverage", {"beverage_adjustment"}) \cup To("table_sessions", {"comanda_line_audits"})),
        Ref("none", "null",
            To("employees", {"cash_closings", "customer_orders", "comanda_line_audits"})
            \cup To("ledger_accounts", {"cash_closings", "transfer", "shop"})
            \cup To("income", {"closing_source_amounts"}) \cup To("shop_closing_sources", {"closing_step_files"})
            \cup To("salon_tables", {"customer_orders", "comanda_line_audits"}) \cup To("table_sessions", {"customer_orders"})
            \cup To("customer_orders", {"comanda_line_audits"}) \cup To("food", {"order_lines"})
            \cup To("shortages", {"order_lines"}) \cup To("concepts", {"shop"})),
        Ref("none", "keep", To("ledger_accounts", {"partner_split_configs", "partner_split_runs", "table_sessions", "customer_orders", "shop"})),
        Ref("none", "stale", To("food", {"shop"}) \cup To("beverage", {"shop"}) \cup To("concepts", {"shop"})
                             \cup To("customer_orders", {"print_jobs"}) \cup To("ledger_accounts", {"cash_closings"})),
        Ref("none", "lost", To("shop", {"pos_products"}) \cup To("ledger_accounts", {"cash_closings"}))}

Kinds == RowsOf(DOMAIN Modules) \cup Payments \cup {"print_jobs"}
RefsOf(kind) == {r \in References : r.from = kind}

\* References the restore does not bring back, whatever the file holds.
Untranslated == {r \in References : r.miss \in {"stale", "lost"}}

Id(kind, n) == [kind |-> kind, n |-> n]
NewRow(kind, n) == [id |-> Id(kind, n), gone |-> FALSE, refs |-> [r \in RefsOf(kind) |-> n]]

Init ==
    /\ db = {NewRow(kind, 0) : kind \in Kinds}
    /\ file = None /\ steps = 0

-----------------------------------------------------------------------------
\* Children read through their parent, or over its rows that are not removed.
Via == [x \in {"closing_expenses", "closing_extra_lines"} |-> "cash_closings"]
       @@ [x \in {"payroll_lines"} |-> "payroll_periods"] @@ [x \in {"pos_sale_ticket_lines"} |-> "pos_sale_tickets"]
\* A join that does not look at what is removed.
EvenGone(ids) == {"tip_allocations"} \cup (IF {"stock", "beverageStock"} \subseteq ids THEN {} ELSE {"food_adjustment", "beverage_adjustment"})

\* exportBackup: its rows and what it was asked for.
Dump(rows, selection) ==
    LET ids == Expand(selection)
        live(x) == ~x.gone \/ x.id.kind \in EvenGone(ids)
        parent(x) == x.id.kind \in DOMAIN Via =>
            \E y \in rows : y.id.kind = Via[x.id.kind] /\ ~y.gone
                            /\ \E r \in DOMAIN x.refs : r.to = y.id.kind /\ x.refs[r] = y.id.n IN
    [modules |-> ids, rows |-> {x \in rows : x.id.kind \in Dumped(ids) /\ live(x) /\ parent(x)}]

\* One DELETE: refused when a row that stays refers to one of those, its children go with them and
\* other references to them are cleared.
Delete(rows, kind) ==
    LET refers(x, targets, rule) == \E r \in DOMAIN x.refs : r.onDelete = rule /\ Id(r.to, x.refs[r]) \in targets
        direct == {x \in rows : x.id.kind = kind}
        ids    == {x.id : x \in direct}
        dead   == direct \cup {x \in rows : refers(x, ids, "cascade")}
        all    == {x.id : x \in dead} IN
    IF \E x \in rows \ dead : refers(x, all, "restrict") THEN None
    ELSE {IF ~refers(x, all, "null") THEN x
          ELSE [x EXCEPT !.refs = [r \in DOMAIN @ |-> IF r.onDelete = "null" /\ Id(r.to, @[r]) \in all THEN None ELSE @[r]]] :
             x \in rows \ dead}

Unsettle(rows) ==
    {IF x.id.kind # "closing_source_amounts" THEN x
     ELSE [x EXCEPT !.refs = [r \in DOMAIN @ |-> IF r.to \in {"income", "ledger_accounts"} THEN None ELSE @[r]]] : x \in rows}

\* purgeShopData: the rows that stay, or None when a step is refused and all is undone.
Purge(rows, selection) ==
    LET ids  == Expand(selection)
        todo == Purged(ids) \cup (IF "settlements" \in ids THEN {"settled"} ELSE {})
        step(acc, kind) == IF acc = None \/ kind \notin todo THEN acc
                           ELSE IF kind = "settled" THEN Unsettle(acc) ELSE Delete(acc, kind) IN
    FoldLeft(LAMBDA acc, group : FoldLeft(step, acc, group), rows, PurgeOrder)
-----------------------------------------------------------------------------
Highest(rows) == Max({x.id.n : x \in rows} \cup {0})

Main == ToSet(MainOrder)
Position == [k \in ToSet(ImportOrder) |-> CHOOSE i \in DOMAIN ImportOrder : ImportOrder[i] = k]
\* What a sheet may find translated: the sheets read before it.
Before(kind, other) == other \in DOMAIN Position /\ Position[other] < Position[kind]

\* A skipped row of these sheets has given its id to the translation all the same.
TranslatedFirst(kind) == kind = "pos_subcategories" \/ kind \notin Main

Misses(x, known, miss) == \E r \in DOMAIN x.refs : r.miss = miss /\ x.refs[r] # None /\ Id(r.to, x.refs[r]) \notin known

\* The ids of the file that have a translation when the sheets that refer to them are read.
Known(f) ==
    LET sheet(kind) == {x \in f.rows : x.id.kind = kind}
        earlier(x) == {r.to : r \in {q \in DOMAIN x.refs : q.miss = "skip" /\ Before(x.id.kind, q.to)}}
        known[kind \in DOMAIN Position] ==
            {x.id : x \in {y \in sheet(kind) :
                TranslatedFirst(kind) \/ ~Misses(y, UNION {known[k] : k \in earlier(y)}, "skip")}} IN
    UNION {known[kind] : kind \in DOMAIN Position}

\* A row of the file once its references are translated: what remains of an id nobody knows depends
\* on the column.
Translated(x, known, shift) ==
    LET value(r) == CASE x.refs[r] = None -> None
                      [] r.miss = "lost"  -> None
                      [] r.miss = "stale" -> x.refs[r]
                      [] Id(r.to, x.refs[r]) \in known -> x.refs[r] + shift
                      [] r.miss = "keep"  -> x.refs[r]
                      [] OTHER -> None IN
    [id |-> Id(x.id.kind, x.id.n + shift), gone |-> FALSE, refs |-> [r \in DOMAIN x.refs |-> value(r)]]

\* importShopConfig updates the row of the shop; members and integrations are replaced.
Replace(rows, f) == {x \in rows : x.id.kind \in {"shop", "user_shops", "shop_integrations"} => "shopConfig" \notin f.modules}

\* rebuildCashPendingFromClosings, for a file without what is to be collected.
Rebuild(rows, f) ==
    LET closings == {x \in rows : x.id.kind = "cash_closings" /\ ~x.gone}
        owed == {c \in closings : ~\E x \in rows : /\ x.id.kind = "cash_pending_withdrawals" /\ ~x.gone
                                                   /\ \E r \in DOMAIN x.refs : r.to = "cash_closings" /\ x.refs[r] = c.id.n}
        n == Highest(rows) + 1 IN
    IF "cashWithdrawals" \in f.modules THEN rows
    ELSE rows \cup {[NewRow("cash_pending_withdrawals", n) EXCEPT
                        !.refs = [r \in DOMAIN @ |-> IF r.to = "cash_closings" THEN c.id.n ELSE None]] : c \in owed}

\* importBackup: the shop after the restore, or None when it is refused: by a step of the purge, by a
\* row of the first sheets that cannot be inserted, or because no row of the others could.
Restored(rows, f) ==
    LET kept  == Purge(rows, f.modules)
        base  == Replace(kept, f)
        shift == Highest(rows \cup f.rows) + 1
        ids   == Known(f)
        known(x) == ids \cap {Id(r.to, x.refs[r]) : r \in {q \in DOMAIN x.refs : Before(x.id.kind, q.to)}}
        read  == {x \in f.rows : ~Misses(x, known(x), "skip")}
        new   == [x \in read |-> Translated(x, known(x), shift)]
        sheet(kind) == {x \in read : x.id.kind = kind}
        \* The rows of a sheet MySQL accepts: what their foreign keys name is there by then.
        there[kind \in DOMAIN Position] ==
            {x \in sheet(kind) :
                /\ ~Misses(x, known(x), "fail")
                /\ \A r \in DOMAIN x.refs :
                      LET target == Id(r.to, new[x].refs[r]) IN
                      (r.onDelete # "none" /\ target.n # None) =>
                          \/ \E y \in base : y.id = target
                          \/ Before(kind, r.to) /\ \E y \in there[r.to] : new[y].id = target}
        inserted == UNION {there[kind] : kind \in DOMAIN Position}
        failed   == {x.id.kind : x \in read \ inserted} IN
    IF \/ kept = None
       \/ failed \cap Main # {}
       \/ failed # {} /\ {x \in inserted : x.id.kind \notin Main} = {} THEN None
    ELSE Rebuild(base \cup {new[x] : x \in inserted}, f)
-----------------------------------------------------------------------------
Step == steps < MaxSteps /\ steps' = steps + 1

Export(selection) == Step /\ file' = Dump(db, selection) /\ UNCHANGED db

Reset(selection) ==
    /\ Step /\ Purge(db, selection) # None /\ db' = Purge(db, selection)
    /\ UNCHANGED file

Import ==
    /\ Step /\ file # None /\ Restored(db, file) # None /\ db' = Restored(db, file)
    /\ UNCHANGED file

\* Rows that are only marked: accounts, concepts and the tips of somebody who takes no part any more.
Removable == {"ledger_accounts", "concepts", "tip_allocations"}
\* The links of an account go and the shop forgets it as the account of dividends.
MarkRemoved(kind) ==
    /\ Step /\ \E x \in db : x.id.kind = kind /\ ~x.gone
    /\ db' = {IF x.id.kind = kind THEN [x EXCEPT !.gone = TRUE]
              ELSE IF kind = "ledger_accounts" /\ x.id.kind = "shop"
              THEN [x EXCEPT !.refs = [r \in DOMAIN @ |-> IF r.to = kind /\ r.miss = "null" THEN None ELSE @[r]]] ELSE x :
                 x \in {y \in db : ~(kind = "ledger_accounts" /\ y.id.kind = "ledger_account_users")}}
    /\ UNCHANGED file

Next ==
    \/ \E selection \in Selections : Export(selection) \/ Reset(selection)
    \/ Import
    \/ \E kind \in Removable : MarkRemoved(kind)

Spec == Init /\ [][Next]_backupVars
-----------------------------------------------------------------------------
Everything == DOMAIN Modules
AfterComplete == Restored(db, Dump(db, Everything))
Live(rows) == {x \in rows : ~x.gone}

\* "dump->purge->restore debe quedar identico": a complete dump brings back every row, and none that
\* was removed.
BackupIdentical ==
    LET after == AfterComplete IN
    after # None /\ \A kind \in Kinds \ {"print_jobs"} :
        Cardinality({x \in after : x.id.kind = kind}) = Cardinality({x \in Live(db) : x.id.kind = kind})

\* A reference of a live row names a live row, or nothing.
Sound(rows, r, n) == n = None \/ \E x \in rows : ~x.gone /\ x.id = Id(r.to, n)
Consistent(rows) == \A x \in Live(rows) : \A r \in DOMAIN x.refs \ Untranslated : Sound(rows, r, x.refs[r])

\* The order of the sheets: in a shop whose live rows refer to live rows, a complete dump and its
\* restore give the same rows with the same references, those nobody translates aside.
CompleteRestore ==
    (Consistent(db) /\ \A x \in db : x.id.kind = "tip_allocations" => ~x.gone) =>
        LET after == AfterComplete
            shift == Highest(db) + 1
            back(n) == IF n = None THEN None ELSE n + shift
            shape(x, f(_)) == [id |-> Id(x.id.kind, f(x.id.n)), refs |-> [r \in DOMAIN x.refs \ Untranslated |-> f(x.refs[r])]] IN
        /\ after # None
        /\ {shape(x, LAMBDA n : n) : x \in after} = {shape(x, back) : x \in {y \in Live(db) : y.id.kind # "print_jobs"}}

\* The order of the purge: a reset is refused only for a row it would leave, never for one it deletes
\* later.
ResetInOrder ==
    \A m \in Everything :
        LET ids == Expand({m})
            doomed == {x.id : x \in {y \in db : y.id.kind \in Purged(ids)}} IN
        Purge(db, {m}) = None =>
            \E x \in db : x.id \notin doomed /\ \E r \in DOMAIN x.refs : r.onDelete = "restrict" /\ Id(r.to, x.refs[r]) \in doomed
=============================================================================
