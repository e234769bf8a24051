-------------------------------- MODULE Boot --------------------------------
(***************************************************************************)
(* What every service does to the database when the server starts            *)
(* (onModuleInit): a sequence of try blocks.  A statement that fails, because    *)
(* it was already done or for any other reason, ends its block in silence and     *)
(* the start goes on; outside a block it ends the start.  The process may die      *)
(* after any statement, and the next start begins again.  The server takes        *)
(* requests once it has started; the one it replaces takes them meanwhile.        *)
(* Services do not share data, so each is started alone; of its rows the model      *)
(* keeps those of one employee, notification, product or table.                    *)
(***************************************************************************)
EXTENDS Integers, Sequences, FiniteSets

CONSTANTS
    Services,     \* the services to start
    MaxSlips,     \* bound: statements that fail for no reason of their own
    MaxEdits,     \* bound: what people save
    None

VARIABLES
    service,      \* the service of this behaviour
    schema,       \* columns, tables and indexes there are
    data,         \* its rows
    marks,        \* rows of app_meta, and the shop whose wages are converted
    at,           \* block and statement that come next
    phase,        \* "booting" or "up"
    clean,        \* nothing but the start happened to the rows since it began
    wish,         \* what was last saved with the server up, None before
    slips, edits

bootVars == <<service, schema, data, marks, at, phase, clean, wish, slips, edits>>

Add(x)       == [do |-> "add", what |-> x, with |-> {}]
Create(x, w) == [do |-> "create", what |-> x, with |-> w]
Run(x)       == [do |-> "run", what |-> x, with |-> {}]
RunOn(x, w)  == [do |-> "run", what |-> x, with |-> w]       \* reads the columns w
Unique(x)    == [do |-> "unique", what |-> x, with |-> {}]
Drop(x, w)   == [do |-> "drop", what |-> x, with |-> w]      \* needs the index w
Unless(m)    == [do |-> "unless", what |-> m, with |-> {}]
Mark(m)      == [do |-> "mark", what |-> m, with |-> {}]

Try(stmts)   == [caught |-> TRUE, run |-> stmts]
Bare(stmts)  == [caught |-> FALSE, run |-> stmts]
Each(stmts)  == [i \in DOMAIN stmts |-> Try(<<stmts[i]>>)]
Adds(xs)     == Each([i \in DOMAIN xs |-> Add(xs[i])])
-----------------------------------------------------------------------------
(* Services that only add tables and columns                                  *)

Reservations   == Adds(<<"area">>) \o Each(<<Create("notices", {})>>) \o Adds(<<"settings", "email">>)
RequestTables  == Each(<<Create("requests", {"area"})>>) \o Adds(<<"area", "comment">>)
Candidates     == Each(<<Create("candidates", {})>>) \o Adds(<<"files">>)
Pickups        == Adds(<<"batch", "confirmed">>) \o Each(<<Create("offsets", {})>>)
Sources        == Adds(<<"role", "posnets", "amounts", "lag">>)
StepFiles      == Each(<<Create("files", {})>>)
Settlements    == Adds(<<"settled", "movement", "batch">>) \o Each(<<Add("index")>>)
CustomerOrders == Each(<<Create("orders", {"discount", "clientKey"})>>) \o Adds(<<"discount", "table", "delivery", "clientRequest", "clientKey">>)
                  \o Each(<<Create("audits", {})>>)
Integrations   == Each(<<Create("integrations", {"webhook"})>>) \o Adds(<<"webhook", "closing", "delivery", "external">>)
Movements      == Each(<<Run("nullable")>>) \o Adds(<<"users", "receipt", "method", "beneficiary">>) \o Each(<<Run("wider")>>)
Push           == Each(<<Create("subscriptions", {})>>)
SupplierOrders == Each(<<Create("orders", {}), Create("lines", {})>>)
Production     == Each(<<Create("days", {})>>)
Profiles       == Adds(<<"avatar", "phone", "navigation", "toolbar">>)
Refunds        == Adds(<<"alias">>) \o Each(<<Create("reimbursements", {})>>)
Vacations      == Each(<<Create("vacations", {})>>)
TipDays        == Adds(<<"enabled">>) \o Each(<<Create("days", {"receipts"}), Create("allocations", {})>>) \o Adds(<<"receipts">>)
Shortages      == Each(<<Create("shortages", {})>>)
Splits         == Each(<<Create("runs", {})>>)
PosCatalog     == Adds(<<"menuItem", "index">>)
\* Two tables in one block, and the phase widened in a block inside it.
ServiceRules   == <<Try(<<Create("categories", {}), Create("rules", {}), Run("phase")>>)>>
Suppliers      == Each(<<Run("narrow"), Create("suppliers", {"alias"})>>) \o Adds(<<"alias", "tax">>)
UtilityBills   == Each(<<Run("narrow"), Create("services", {"alias", "tax"})>>) \o Adds(<<"tax", "alias">>)

Plain == {"reservations", "requests", "candidates", "pickups", "sources", "stepFiles", "settlements", "customerOrders", "integrations",
          "movements", "push", "supplierOrders", "production", "profiles", "refunds", "vacations", "tipDays", "shortages", "splits",
          "posCatalog", "serviceRules", "suppliers", "utilityBills"}
PlainProgram(s) ==
    CASE s = "reservations" -> Reservations [] s = "requests" -> RequestTables [] s = "candidates" -> Candidates [] s = "pickups" -> Pickups
      [] s = "sources" -> Sources [] s = "stepFiles" -> StepFiles [] s = "settlements" -> Settlements
      [] s = "customerOrders" -> CustomerOrders [] s = "integrations" -> Integrations [] s = "movements" -> Movements [] s = "push" -> Push
      [] s = "supplierOrders" -> SupplierOrders [] s = "production" -> Production [] s = "profiles" -> Profiles [] s = "refunds" -> Refunds
      [] s = "vacations" -> Vacations [] s = "tipDays" -> TipDays [] s = "shortages" -> Shortages [] s = "splits" -> Splits
      [] s = "posCatalog" -> PosCatalog [] s = "serviceRules" -> ServiceRules [] s = "suppliers" -> Suppliers [] s = "utilityBills" -> UtilityBills
-----------------------------------------------------------------------------
(* Services that also change rows: the statements, what they do to the rows,   *)
(* what people save and what the start leaves                                  *)

\* A notification: those that were there count as seen, the recent ones become unread again.
Notifications ==
    Each(<<Create("notifications", {}), Add("closing"), Run("kinds")>>) \o <<Try(<<Add("seenAt"), RunOn("see", {"seenAt"})>>), Try(<<Add("index")>>),
    Try(<<Unless("restore"), Run("unread"), Mark("restore")>>), Try(<<Unless("seen2"), RunOn("see", {"seenAt"}), Mark("seen2")>>)>>
NotificationsRun(what, d) ==
    CASE what = "see"    -> [d EXCEPT !.seen = TRUE]
      [] what = "unread" -> IF d.recent THEN [d EXCEPT !.read = FALSE] ELSE d
      [] OTHER           -> d

\* A product: the minimum of its category becomes its own, once.
Stock ==
    Each(<<Create("categories", {"kind"}), Create("products", {"min"}), Add("min"), Add("kind"), Create("adjustments", {}), Add("index")>>)
    \o <<Try(<<Unless("min1"), RunOn("copyMin", {"min"}), Mark("min1")>>)>>
StockRun(what, d) == IF d.category > 0 THEN [d EXCEPT !.min = d.category] ELSE d

\* A member of a shop: visible unless hidden from the cash before.
\* Mutant: the rows before the column they are written to.
MembersTooSoon == Each(<<Add("hide"), RunOn("visible", {"visibility"}), Add("visibility"), Add("flags"), Add("screens"), Add("muted")>>)
Members == Each(<<Add("hide"), Add("visibility"), RunOn("visible", {"visibility"}), Add("flags"), Add("screens"), Add("muted")>>)
MembersRun(what, d) == IF d.visible = None THEN [d EXCEPT !.visible = ~d.hide] ELSE d

\* An employee: waiters are listed when the column is new, whoever cooks is a producer.
Employees ==
    Adds(<<"food", "times">>) \o <<Try(<<Add("listed"), RunOn("list", {"pin", "roles"})>>)>> \o Adds(<<"pin", "roles">>)
    \o Each(<<RunOn("produce", {"food", "roles"})>>)
EmployeesRun(what, d) ==
    CASE what = "list"    -> IF d.pin \/ (d.roles # None /\ "WAITER" \in d.roles) THEN [d EXCEPT !.listed = TRUE] ELSE d
      [] what = "produce" -> IF d.food /\ d.roles \in {None, {}} THEN [d EXCEPT !.roles = {"PRODUCER"}] ELSE d

\* Two sessions of one table: the first stays open, and an index keeps it so.
Salon == Each(<<Create("sessions", {}), Add("ticket"), Add("openTable"), Run("closeOthers"), RunOn("setKeys", {"openTable"}),
                RunOn("clearKeys", {"openTable"}), Unique("oneOpen"), Create("audits", {})>>)
SalonRun(what, d) ==
    CASE what = "closeOthers" -> IF d[1].open /\ d[2].open THEN [d EXCEPT ![2] = [open |-> FALSE, key |-> FALSE]] ELSE d
      [] what = "setKeys"     -> [i \in 1..2 |-> IF d[i].open THEN [d[i] EXCEPT !.key = TRUE] ELSE d[i]]
      [] what = "clearKeys"   -> [i \in 1..2 |-> IF ~d[i].open THEN [d[i] EXCEPT !.key = FALSE] ELSE d[i]]

\* Rows of an employee and day, oldest first: of those without shift one gets the first shift, unless a row has it.
Punches ==
    Adds(<<"times", "shift">>) \o <<Try(<<RunOn("discard", {"shift"}), RunOn("oldest", {"shift"}), RunOn("first", {"shift"})>>)>>
    \o Each(<<Add("index"), Drop("perDay", {"index"}), Unique("perShift")>>)
Blank(r) == r.state = "live" /\ r.shift = None
PunchesRun(what, d) ==
    CASE what = "discard" -> [i \in DOMAIN d |-> IF Blank(d[i]) /\ \E j \in DOMAIN d : d[j].state = "live" /\ d[j].shift = "a"
                                                 THEN [d[i] EXCEPT !.state = "removed"] ELSE d[i]]
      [] what = "oldest"  -> [i \in DOMAIN d |-> IF Blank(d[i]) /\ \E j \in DOMAIN d : j < i /\ Blank(d[j])
                                                 THEN [d[i] EXCEPT !.state = "removed"] ELSE d[i]]
      [] what = "first"   -> [i \in DOMAIN d |-> IF Blank(d[i]) THEN [d[i] EXCEPT !.shift = "a"] ELSE d[i]]
\* The index sees the removed rows too, and not those without shift.
Repeated(d) == \E i, j \in DOMAIN d : i # j /\ d[i].state # "absent" /\ d[j].state # "absent" /\ d[i].shift = d[j].shift /\ d[i].shift # None

\* A payroll: the period of its month, and lines by shift.  database.module prepares the indexes as well.
PayrollIndexes == Each(<<Add("periodIndex"), Add("shift"), Drop("perEmployee", {"periodIndex"}), Unique("perShift")>>)
PayrollPeriods ==
    Adds(<<"holiday", "from">>) \o Each(<<RunOn("dates", {"from"})>>) \o Adds(<<"bonus", "split", "shift">>)
    \o Each(<<Add("periodIndex"), Drop("perEmployee", {"periodIndex"}), Unique("perShift")>>)
PayrollRun(what, d) == IF d.from = None THEN [d EXCEPT !.from = "month"] ELSE d

\* The token of the print agent: its hash is kept, and then not the token.
PrintAgents ==
    Each(<<Create("jobs", {}), Add("claims"), Add("hash"), RunOn("hash", {"hash"}), RunOn("erase", {})>>)
PrintAgentsRun(what, d) ==
    CASE what = "hash"  -> IF d.plain /\ ~d.hash THEN [d EXCEPT !.hash = TRUE] ELSE d
      [] what = "erase" -> [d EXCEPT !.plain = FALSE]

\* Two closings of one day and shop: those without shift get the first one and its key.
ClosingKeys == Each(<<Run("keys"), Add("shift")>>) \o <<Bare(<<RunOn("shifts", {"shift"})>>)>> \o Adds(<<"kind", "change">>)
Keyless(r) == r.state = "live" /\ (r.shift = None \/ r.key = "date")
ClosingKeysRun(what, d) ==
    CASE what = "keys"   -> [i \in DOMAIN d |-> IF d[i].key = None THEN [d[i] EXCEPT !.key = "date"] ELSE d[i]]
      [] what = "shifts" -> [i \in DOMAIN d |-> IF Keyless(d[i]) THEN [d[i] EXCEPT !.shift = "a", !.key = "a"] ELSE d[i]]
SameKey(d) == \E i, j \in DOMAIN d : i # j /\ d[i].state # "absent" /\ d[j].state # "absent" /\ d[i].key = d[j].key

\* The sign of the differences, turned twice, each time marked first.
Differences ==
    <<Try(<<Unless("v3"), Mark("v3"), Run("negate")>>), Try(<<Unless("v4"), Mark("v4"), Run("negate")>>)>>
DifferencesRun(what, d) == [d EXCEPT !.sign = -@]

\* Two employees of a shop, paid by the day until now.
Wages == Adds(<<"multiplier", "converted">>) \o Each(<<Create("history", {})>>)
         \o <<Bare(<<Unless("converted"), Run("first"), Run("second"), Mark("converted")>>)>>
WagesRun(what, d) ==
    LET e == IF what = "first" THEN 1 ELSE 2
    IN IF d.wage[e] > 0 THEN [d EXCEPT !.wage[e] = @ \div 8, !.turned[e] = @ + 1] ELSE d

\* The channels of a closing, worked out again from its sources, and then its books.
Channels == <<Try(<<Unless("channels"), Run("columns"), Run("books"), Mark("channels")>>)>>
ChannelsRun(what, d) ==
    CASE what = "columns" -> IF d.column # d.sources THEN [d EXCEPT !.column = d.sources, !.todo = TRUE] ELSE d
      [] what = "books"   -> IF d.todo THEN [d EXCEPT !.booked = d.column, !.todo = FALSE] ELSE d

\* A concept without categories gets those its name suggests, at every start.
Concepts == Adds(<<"description", "validated", "categories">>) \o <<Bare(<<RunOn("infer", {"categories"}), Run("labels")>>)>>
ConceptsRun(what, d) ==
    CASE what = "infer"  -> IF d.categories = {} THEN [d EXCEPT !.categories = {"MOVEMENTS"}] ELSE d
      [] what = "labels" -> IF d.deleted THEN [d EXCEPT !.deleted = FALSE] ELSE d

\* The expense of a payment, moved from the generic account to the one of its supplier at every start.
Expenses == Each(<<Create("payments", {"supplier"}), Run("nullable"), Add("supplier"), Add("invoice"), RunOn("party", {"supplier"})>>)
ExpensesRun(what, d) == IF what = "party" /\ d.to = "generic" THEN [d EXCEPT !.to = "party"] ELSE d

\* The user an account had before it could have several is linked at every start.
Ledger == Each(<<RunOn("link", {"userId"}), Add("hide"), Run("widen"), Add("lists"), Add("opening"), Add("percents"), Run("widen")>>)
LedgerRun(what, d) == IF what = "link" /\ d.legacy THEN [d EXCEPT !.linked = TRUE] ELSE d

\* Tables without sector go to the one of their area, which is made when there is none of that name.
Sectors == Each(<<Create("sectors", {}), Create("tables", {}), Add("sector"), Add("map"), Create("rules", {})>>)
           \o <<Bare(<<RunOn("inside", {"sector"}), RunOn("outside", {"sector"}), RunOn("first", {"sector"}), RunOn("second", {"sector"})>>)>>
SectorsRun(what, d) ==
    LET some == \E i \in 1..2 : d.sector[i] = None
        move(i) == IF d.sector[i] = None THEN [d EXCEPT !.sector[i] = d.area[i]] ELSE d
    IN CASE what \in {"inside", "outside"} -> IF some /\ d.made[what] = 0 THEN [d EXCEPT !.made[what] = 1] ELSE d
         [] what = "first"  -> move(1)
         [] what = "second" -> move(2)

\* A shop: a point-of-sale system that is not there is forgotten, and there is always a shift.
ShopDoors    == Adds(<<"opening", "reservations", "areas", "production">>)
ShopMail     == Adds(<<"colours", "email", "mailing", "smtp">>)
ShopStaff    == Adds(<<"tips", "punching", "hours", "holidays", "converted">>)
ShopMoney    == Adds(<<"menu", "concepts", "partners">>)
ShopOrdering == Adds(<<"navigation", "shifts", "ordering", "methods", "promos", "sectors", "reasons">>)
ShopColumns  == ShopDoors \o ShopMail \o ShopStaff \o ShopMoney \o ShopOrdering
                \o <<Try(<<Drop("systemKey", {})>>), Bare(<<Run("system"), RunOn("shifts", {"shifts"})>>)>>
ShopColumnsRun(what, d) ==
    CASE what = "system" -> IF d.system = "gone" THEN [d EXCEPT !.system = None] ELSE d
      [] what = "shifts" -> IF d.shifts = None THEN [d EXCEPT !.shifts = "default", !.opening = "default"] ELSE [d EXCEPT !.opening = d.shifts]
-----------------------------------------------------------------------------
Program(s) ==
    CASE s \in Plain         -> PlainProgram(s)
      [] s = "notifications" -> Notifications
      [] s = "stock"         -> Stock
      [] s = "members"       -> Members
      [] s = "employees"     -> Employees
      [] s = "salon"         -> Salon
      [] s = "punches"       -> Punches
      [] s = "payroll"       -> PayrollIndexes \o PayrollPeriods
      [] s = "printAgents"   -> PrintAgents
      [] s = "closingKeys"   -> ClosingKeys
      [] s = "differences"   -> Differences
      [] s = "channels"      -> Channels
      [] s = "wages"         -> Wages
      [] s = "concepts"      -> Concepts
      [] s = "expenses"      -> Expenses
      [] s = "ledger"        -> Ledger
      [] s = "sectors"       -> Sectors
      [] s = "shopColumns"   -> ShopColumns

Ran(s, what, d) ==
    CASE s = "notifications" -> NotificationsRun(what, d)
      [] s = "stock"         -> StockRun(what, d)
      [] s = "members"       -> MembersRun(what, d)
      [] s = "employees"     -> EmployeesRun(what, d)
      [] s = "salon"         -> SalonRun(what, d)
      [] s = "punches"       -> PunchesRun(what, d)
      [] s = "payroll"       -> PayrollRun(what, d)
      [] s = "printAgents"   -> PrintAgentsRun(what, d)
      [] s = "closingKeys"   -> ClosingKeysRun(what, d)
      [] s = "differences"   -> DifferencesRun(what, d)
      [] s = "channels"      -> ChannelsRun(what, d)
      [] s = "wages"         -> WagesRun(what, d)
      [] s = "concepts"      -> ConceptsRun(what, d)
      [] s = "expenses"      -> ExpensesRun(what, d)
      [] s = "ledger"        -> LedgerRun(what, d)
      [] s = "sectors"       -> SectorsRun(what, d)
      [] s = "shopColumns"   -> ShopColumnsRun(what, d)
      [] OTHER               -> d

\* The rows an index allows.
Allowed(s, indexes, d) ==
    /\ s = "punches" /\ "perShift" \in indexes => ~Repeated(d)
    /\ s = "closingKeys" => ~SameKey(d)
    /\ s = "salon" /\ "oneOpen" \in indexes => ~(d[1].key /\ d[2].key)

\* Everything the statements of a service add, and drop.
Names(s, do) == {x.what : x \in {y \in UNION {{b.run[i] : i \in DOMAIN b.run} : b \in {Program(s)[k] : k \in DOMAIN Program(s)}} : y.do \in do}}

\* The rows an earlier release can have left.
Rows(s) ==
    CASE s = "notifications" -> [read : BOOLEAN, seen : {FALSE}, recent : BOOLEAN]
      [] s = "stock"         -> [min : {0}, category : 0..1]
      [] s = "members"       -> [hide : BOOLEAN, visible : {None}]
      [] s = "employees"     -> [food : BOOLEAN, pin : BOOLEAN, roles : {None, {}, {"WAITER"}}, listed : {FALSE}]
      [] s = "salon"         -> [1..2 -> [open : BOOLEAN, key : {FALSE}]]
      [] s = "punches"       -> [1..2 -> [state : {"absent", "live", "removed"}, shift : {None, "a", "b"}]]
      [] s = "payroll"       -> [from : {None}]
      [] s = "printAgents"   -> {[plain |-> b, hash |-> FALSE, issued |-> b] : b \in BOOLEAN}
      [] s = "closingKeys"   -> {d \in [1..2 -> [state : {"absent", "live"}, shift : {None}, key : {"date", None}]] : d[2].state = "absent" /\ d[2].key = None}
      [] s = "differences"   -> [sign : {1}]
      [] s = "channels"      -> [sources : {1}, column : 0..1, booked : {0}, todo : {FALSE}]
      [] s = "wages"         -> [wage : [1..2 -> {0, 64}], turned : [1..2 -> {0}]]
      [] s = "concepts"      -> [categories : {{}, {"SUPPLIERS"}}, deleted : BOOLEAN]
      [] s = "expenses"      -> [to : {"generic", "party", "other"}]
      [] s = "ledger"        -> [legacy : BOOLEAN, linked : {FALSE}]
      [] s = "sectors"       -> [area : [1..2 -> {"inside", "outside"}], sector : [1..2 -> {None}], made : [{"inside", "outside"} -> {0}]]
      [] s = "shopColumns"   -> [system : {None, "gone", "there"}, shifts : {None, "own"}, opening : {"old"}]
      [] OTHER               -> {None}

Old(s) == IF s = "punches" THEN {"perDay"} ELSE IF s = "payroll" THEN {"perEmployee"} ELSE IF s = "ledger" THEN {"userId"} ELSE
          IF s = "shopColumns" THEN {"systemKey"} ELSE {}

Init ==
    /\ service \in Services
    /\ \E new \in SUBSET Names(service, IF service \in Plain THEN {"add", "create"} ELSE {"create"}) : schema = Old(service) \cup new
    /\ data \in Rows(service) /\ Allowed(service, schema, data)
    /\ service = "punches" => ~(data[1].state # "absent" /\ data[2].state # "absent" /\ data[1].shift = None /\ data[2].shift = "a")
    /\ marks = {} /\ at = <<1, 1>> /\ phase = "booting" /\ clean = TRUE /\ wish = None /\ slips = 0 /\ edits = 0

Block     == Program(service)[at[1]]
Statement == Block.run[at[2]]
Over      == at[1] > Len(Program(service))
NextBlock == at' = <<at[1] + 1, 1>>
Advance   == at' = IF at[2] < Len(Block.run) THEN <<at[1], at[2] + 1>> ELSE <<at[1] + 1, 1>>

\* What the database makes of a statement.
Fails(x) ==
    CASE x.do = "add"    -> x.what \in schema
      [] x.do = "run"    -> ~(x.with \subseteq schema) \/ ~Allowed(service, schema, Ran(service, x.what, data))
      [] x.do = "unique" -> x.what \in schema \/ ~Allowed(service, schema \cup {x.what}, data)
      [] x.do = "drop"   -> x.what \notin schema \/ ~(x.with \subseteq schema)
      [] x.do = "mark"   -> x.what \in marks
      [] OTHER           -> FALSE

Done ==
    /\ phase = "booting" /\ ~Over /\ ~Fails(Statement)
    /\ LET x == Statement
       IN /\ schema' = CASE x.do \in {"add", "unique"} -> schema \cup {x.what}
                         [] x.do = "create" /\ x.what \notin schema -> schema \cup {x.what} \cup x.with
                         [] x.do = "drop" -> schema \ {x.what}
                         [] OTHER -> schema
          /\ data'  = IF x.do = "run" THEN Ran(service, x.what, data) ELSE data
          /\ marks' = IF x.do = "mark" THEN marks \cup {x.what} ELSE marks
          /\ IF x.do = "unless" /\ x.what \in marks THEN NextBlock ELSE Advance
    /\ UNCHANGED <<service, phase, clean, wish, slips, edits>>

\* In memory only: what was found to do.
Forgotten(d) == IF service = "channels" THEN [d EXCEPT !.todo = FALSE] ELSE d
Again == at' = <<1, 1>> /\ phase' = "booting" /\ clean' = TRUE /\ data' = Forgotten(data)

\* A failure ends its block, or the start when it has none.
Swallow ==
    /\ phase = "booting" /\ ~Over /\ Fails(Statement)
    /\ IF Block.caught THEN NextBlock /\ UNCHANGED <<phase, clean, data>> ELSE Again
    /\ UNCHANGED <<service, schema, marks, wish, slips, edits>>

\* A lost connection or a lock held too long.
Slip ==
    /\ phase = "booting" /\ ~Over /\ slips < MaxSlips /\ slips' = slips + 1
    /\ IF Block.caught THEN NextBlock /\ clean' = FALSE /\ UNCHANGED <<phase, data>> ELSE Again
    /\ UNCHANGED <<service, schema, marks, wish, edits>>

Crash  == phase = "booting" /\ at # <<1, 1>> /\ Again /\ UNCHANGED <<service, schema, marks, wish, slips, edits>>
Listen == phase = "booting" /\ Over /\ phase' = "up" /\ UNCHANGED <<service, schema, data, marks, at, clean, wish, slips, edits>>
Reboot == phase = "up" /\ Again /\ UNCHANGED <<service, schema, marks, wish, slips, edits>>
-----------------------------------------------------------------------------
(* What people save                                                           *)

\* The field of which people are promised that it stays, and what they may save in it.
Saved(s, d) ==
    CASE s = "notifications" -> d.read
      [] s = "stock"         -> d.min
      [] s = "members"       -> d.visible
      [] s = "employees"     -> d.listed
      [] s = "payroll"       -> d.from
      [] s = "printAgents"   -> d.hash
      [] s = "concepts"      -> d.categories
      [] s = "expenses"      -> d.to
      [] s = "ledger"        -> d.linked
      [] s = "sectors"       -> d.sector[1]
      [] s = "shopColumns"   -> d.shifts
      [] OTHER               -> None
Edits(s, d) ==
    CASE s = "notifications" -> {[d EXCEPT !.read = TRUE, !.seen = TRUE]}
      [] s = "stock"         -> {[d EXCEPT !.min = m] : m \in 0..2}
      [] s = "members"       -> {[d EXCEPT !.visible = b] : b \in BOOLEAN}
      [] s = "employees"     -> {[d EXCEPT !.listed = b] : b \in BOOLEAN} \cup {[d EXCEPT !.food = FALSE, !.roles = IF @ = None THEN @ ELSE @ \ {"PRODUCER"}]}
      [] s = "salon"         -> {[d EXCEPT ![i] = [open |-> b, key |-> b]] : i \in 1..2, b \in BOOLEAN}
      [] s = "punches"       -> {[d EXCEPT ![i] = [state |-> "live", shift |-> x]] : i \in 1..2, x \in {None, "a", "b"}}
                                \cup {[d EXCEPT ![i].state = "removed"] : i \in {k \in DOMAIN d : d[k].state = "live"}}
      [] s = "payroll"       -> {[d EXCEPT !.from = "custom"]}
      [] s = "printAgents"   -> {[d EXCEPT !.hash = TRUE, !.issued = TRUE]}
      [] s = "closingKeys"   -> {[d EXCEPT ![2] = [state |-> "live", shift |-> x, key |-> x]] : x \in {"a", "b"}}
      [] s = "wages"         -> {[d EXCEPT !.wage[1] = 10]}
      [] s = "concepts"      -> {[d EXCEPT !.categories = c] : c \in {{}, {"SERVICES"}}}
      [] s = "expenses"      -> {[d EXCEPT !.to = t] : t \in {"generic", "other"}}
      [] s = "ledger"        -> {[d EXCEPT !.linked = b] : b \in BOOLEAN}
      [] s = "sectors"       -> {[d EXCEPT !.sector[1] = x] : x \in {"inside", "outside"}}
      [] s = "shopColumns"   -> {[d EXCEPT !.shifts = "own", !.opening = "own"]}
      [] OTHER               -> {}

Edit ==
    /\ phase = "up" /\ edits < MaxEdits /\ edits' = edits + 1
    /\ \E d \in Edits(service, data) : Allowed(service, schema, d) /\ data' = d /\ wish' = Saved(service, d)
    /\ clean' = FALSE /\ UNCHANGED <<service, schema, marks, at, phase, slips>>

\* The release that is being replaced does not know what the start adds.
OldRows(s, d) ==
    CASE s = "notifications" -> {[d EXCEPT !.read = TRUE]}
      [] s = "salon"         -> {[d EXCEPT ![i].open = b] : i \in 1..2, b \in BOOLEAN}
      [] s = "members"       -> {[d EXCEPT !.hide = b] : b \in BOOLEAN}
      [] OTHER               -> {}
OldWrites ==
    /\ phase = "booting" /\ edits < MaxEdits /\ edits' = edits + 1
    /\ \E d \in OldRows(service, data) : Allowed(service, schema, d) /\ data' = d
    /\ clean' = FALSE /\ UNCHANGED <<service, schema, marks, at, phase, wish, slips>>

Next == Done \/ Swallow \/ Slip \/ Crash \/ Listen \/ Reboot \/ Edit \/ OldWrites
Spec == Init /\ [][Next]_bootVars
-----------------------------------------------------------------------------
(* Properties                                                                 *)

\* What the code that follows counts on.
Healed(s, d) ==
    CASE s = "notifications" -> d.seen
      [] s = "stock"         -> d.category > 0 => d.min = d.category
      [] s = "members"       -> d.visible # None
      [] s = "employees"     -> d.food => d.roles \notin {None, {}}
      [] s = "salon"         -> ~(d[1].open /\ d[2].open)
      [] s = "punches"       -> \A i \in DOMAIN d : Blank(d[i]) => \E j \in DOMAIN d : d[j].state = "removed" /\ d[j].shift = "a"
      [] s = "payroll"       -> d.from # None
      [] s = "printAgents"   -> ~d.plain /\ (d.issued => d.hash)
      [] s = "closingKeys"   -> \A i \in DOMAIN d : ~Keyless(d[i])
      [] s = "concepts"      -> d.categories # {}
      [] s = "expenses"      -> d.to # "generic"
      [] s = "ledger"        -> d.legacy => d.linked
      [] s = "sectors"       -> \A i \in 1..2 : d.sector[i] # None /\ d.made[d.sector[i]] = 1
      [] s = "shopColumns"   -> d.system # "gone" /\ d.shifts # None
      [] OTHER               -> TRUE

\* A server that came up after a start in which nothing failed and nobody else wrote has every column and
\* index its code uses, and rows as its code expects them, whatever earlier starts did before they died.
BootHeals ==
    phase = "up" /\ clean =>
        /\ Names(service, {"add", "create"}) \subseteq schema
        /\ \/ Names(service, {"unique"}) \subseteq schema
           \/ service = "punches" /\ Repeated(data)
        /\ "perEmployee" \notin schema
        /\ wish = None => Healed(service, data)

\* What people saved once the server was up, later starts leave alone, unless a mark could not be written.
BootKeepsEdits == phase = "up" /\ wish # None /\ slips = 0 => Saved(service, data) = wish

\* "Convierte sueldos diarios existentes a precio hora (una vez por local)." (salaries.service.ts:102), "Una sola vez" (closings.service.ts:218, 242)
\* and "re-sincroniza el libro" (closings.service.ts:280).
ConvertedOnce ==
    phase = "up" /\ edits = 0 =>
        CASE service = "wages"       -> \A e \in 1..2 : data.turned[e] <= 1
          [] service = "differences" -> data.sign = 1
          [] service = "channels"    -> data.booked = data.column
          [] OTHER                   -> TRUE
=============================================================================
