---------------------------- MODULE MCBackOffice ----------------------------
(***************************************************************************)
(* What the owners of a shop set up and read, each part in a scene of its own:     *)
(* when and how orders are taken, the start of the server, the levels of the        *)
(* members and their memberships, the spreadsheets that are uploaded, the takings   *)
(* of a shift, who is told what, the ledger of the closings and their settled rows. *)
(* The registers are those of the configuration, and the members, with an            *)
(* administrator of the first shop and one of both.                                 *)
(***************************************************************************)
EXTENDS Integers, Sequences, TLC, Register, Members

CONSTANTS
    Scenes,       \* the scenes to play
    Settlers, Savers

VARIABLES
    scene,
    shop, drawer, now, order, asked, edits,
    service, schema, data, marks, at, phase, clean, wish, slips, saves,
    family, role, saved, effect,
    known, concept, movement, upload, uploads,
    person, punch, produced, summary, login, job, sheets, touches,
    product, category, subcat, ticket, line, daily, import, edit, mixed, imports, changes,
    clock, sale, session, cut, hint, counted, events,
    contact, tie, inbox, news, flying, letters, device, holder, dead, taps,
    papers, entries, paired, turns,
    alive, row, income, cLock, rLock, w, drops, pc, settler, saver

Zone(i, fee, inside) == [id |-> i, fee |-> fee, inside |-> inside]
Drawn == {Zone("a", 2, {1, 2}), Zone("b", 1, {2})}
\* Two days of three minutes: always open, or past midnight on the first.
Web == INSTANCE Ordering WITH
    DayLength <- 3, Week <- 2,
    Hours <- {None, [d \in 0..1 |-> IF d = 0 THEN {[open |-> 1, close |-> 0]} ELSE {}]},
    Zones <- {{}, {Zone("a", 2, {}), Zone("b", 1, {})}, Drawn}, DefaultZones <- Drawn, Points <- {1, 2, 3},
    Catalogs <- {[i \in {"op_cash", "card"} |->
                    [kind |-> IF i = "card" THEN "CARD" ELSE "CASH", active |-> i # "card", channels |-> {"TAKEAWAY", "DELIVERY"}]],
                 [i \in {"transfer"} |-> [kind |-> "TRANSFER", active |-> TRUE, channels |-> {"TAKEAWAY"}]],
                 [i \in {} |-> None]},
    MaxEdits <- 2

\* One service after the other, each with two things that people save and one failure without a reason.
PlainServices == {"reservations", "requests", "candidates", "pickups", "sources", "stepFiles", "settlements", "customerOrders", "integrations",
                  "movements", "push", "supplierOrders", "production", "profiles", "refunds", "vacations", "tipDays", "shortages", "splits",
                  "posCatalog", "serviceRules", "suppliers", "utilityBills"}
Server == INSTANCE Boot WITH
    Services <- PlainServices \cup {"notifications", "stock", "members", "employees", "salon", "punches", "payroll", "printAgents", "closingKeys",
                 "differences", "channels", "wages", "concepts", "expenses", "ledger", "sectors", "shopColumns"},
    MaxSlips <- 1, MaxEdits <- 2, edits <- saves

\* Modules that read each other are edited together.
Rights == INSTANCE Levels WITH
    Families <- {{"movements", "expenses", "accountTransfers", "incomes", "partnerSplits", "accounts"}, {"stock", "shortages", "orders"},
                 {"shop", "shopConfig"}, {"payments", "paymentsSuppliers", "suppliers"}, {"comanda", "comandaMonitor", "comandaReceipts"},
                 {"customerOrders", "customerOrdersHistory", "customerOrdersMonitor"}, {"publicPages", "publicMenu"}, {"salon", "diagrama"},
                 {"attendance", "attendanceFichar", "productionAttendance"}, {"reports", "reportsSales", "reportsStats"},
                 {"users", "closings"}, {"tips"}, {"splits", "partnerSplits"}, {"promos", "orderingCatalog"}, {"accountBalances", "incomes"}},
    Roles <- {"cashier", "viewer", "manager"}

Line(d, f, t, x, c, uyu, usd, rate) == [date |-> d, from |-> f, to |-> t, text |-> x, concept |-> c, uyu |-> uyu, usd |-> usd, rate |-> rate]
Income == <<"1.", "ingreso">>
\* A known account under another name, one amount of two, a row twice, and rows
\* that are none.
Lines == << Line(1, <<"mp", "toma">>, <<"2.", "egreso">>, "a", <<"materia", "prima">>, 10, 0, 0),
            Line(1, Income, <<"caja">>, "b", <<>>, 0, 2, 4), Line(1, <<"caja">>, <<"mp">>, "c", <<"pase">>, 8, 0, 4),
            Line(1, Income, <<"caja">>, "b", <<>>, 8, 0, 4), Line(None, Income, <<"caja">>, "b", <<>>, 8, 0, 4),
            Line(2, <<"luis">>, <<"luis">>, "x", <<>>, 8, 0, 4) >>
Sheet(name, headed, visible, rows) == [name |-> name, headed |-> headed, visible |-> visible, rows |-> rows]
Bookkeeper == INSTANCE LedgerImport WITH
    account <- known,
    Workbooks <- {<<Sheet("saldos", TRUE, TRUE, <<>>), Sheet("otra", TRUE, TRUE, SubSeq(Lines, 3, 3)), Sheet("movimientos", TRUE, FALSE, Lines)>>,
                  <<Sheet("hoja", TRUE, FALSE, SubSeq(Lines, 2, 3)), Sheet("x", FALSE, TRUE, <<>>)>>},
    Accounts <- {[name |-> <<"mp">>, type |-> "channel", on |-> TRUE], [name |-> <<"egreso">>, type |-> "system", on |-> TRUE]},
    Concepts <- {[name |-> <<"pase">>, kind |-> "transfer", on |-> TRUE]},
    Answers <- {<<>>, (<<"mp", "toma">> :> "create"), (<<"caja">> :> <<"mp">>)},
    Selections <- {{}, {"transfer"}}, Fixes <- {<<>>, (3 :> "income")}, Uploaders <- {"ana"}, MaxUploads <- 2

Attended(n, d, p, h, i, o) == [name |-> n, day |-> d, present |-> p, holiday |-> h, in |-> i, out |-> o]
Cooked(n, d, h)           == [name |-> n, day |-> d, hours |-> h]
Declared(d, sum, total, who) == [day |-> d, sum |-> sum, declared |-> total, who |-> who]
DayFile(kind, rows, listed) == [kind |-> kind, rows |-> rows, listed |-> listed]
Clerk == INSTANCE DayImports WITH
    uploads <- sheets, closing <- summary,
    Files <- {DayFile("attendance", <<Attended("ana", 1, TRUE, FALSE, None, None), Attended("ana", 1, TRUE, FALSE, 9, 12),
                                      Attended("luis", 2, FALSE, TRUE, 9, None)>>, <<"luis">>),
              DayFile("production", <<Cooked("ana", 1, 4), Cooked("ana", 2, -1), Cooked("luis", 1, 0)>>, <<>>),
              DayFile("closings", <<Declared(1, 5, 0, <<"eva">>), Declared(1, 7, 0, <<"eva">>), Declared(2, 0, 3, <<"eva", "paz">>), Declared(None, 2, 2, None)>>, <<>>)},
    Names <- {"ana", "luis"}, Logins <- {<<"eva">>, <<"eva", "paz">>, <<"ema", "eva">>}, Days <- {1, 2}, Shifts <- <<"m", "n">>,
    WithHours <- TRUE, DefaultIn <- 8, DefaultOut <- 16, MaxUploads <- 2, MaxTouches <- 1

Bill(id, d, t, p, v) == [head |-> TRUE, id |-> id, day |-> d, total |-> t, pay |-> p, void |-> v, code |-> None, name |-> None, amount |-> 0]
Dish(c, n, a)        == [head |-> FALSE, id |-> None, day |-> None, total |-> 0, pay |-> None, void |-> FALSE, code |-> c, name |-> n, amount |-> a]
\* A void ticket, a product without a code, a dash of rows that are none; and a
\* ticket that comes twice.
Evening == [system |-> "restosoft",
            rows |-> <<Dish("p", "vino", 1), Bill(<<0, 1>>, 1, 3, "EF", FALSE), Dish("p", "vino", 3), Bill(<<0, 2>>, 1, 2, "XX", FALSE),
                       Dish("w", "malbec", 1), Dish(None, "copa", 1), Dish(None, None, 0), Bill(<<0, 3>>, 1, 9, "EF", TRUE), Dish("p", "vino", 9)>>]
Again   == [system |-> "restosoft",
            rows |-> <<Bill(<<0, 1>>, 1, 3, "EF", FALSE), Dish("w", "malbec", 3), Bill(<<0, 1>>, 1, 4, "MP", FALSE), Dish("p", "vino", 2), Dish("p", "vino", 2)>>]
Board   == [system |-> "wemenu", rows |-> <<[from |-> 1, to |-> 2, total |-> 5]>>]
\* Reports that are uploaded, while one edition of the catalogue is made.
Reporter == INSTANCE Sales WITH
    Reports <- {Evening, Again, Board}, Corrections <- {<<>>, "p" :> <<"COMIDA", None>>}, Importers <- {"ana"},
    Names <- {"vino", "malbec", "copa"}, Codes <- {"p", "w", "copa"}, Seed <- ("p" :> <<"VINOS", None>>), Ranged <- ("w" :> <<"COMIDA", "s">>),
    Variety <- ("malbec" :> "Malbec"), Vague <- {"vino"}, Elsewhere <- {[code |-> "w", name |-> "malbec"]},
    CategoryNames <- {"VINOS", "COMIDA", "X"}, CatIds <- {1, 2}, SubIds <- {1}, Categories <- <<>>, Subcategories <- <<>>, Items <- {"i"},
    PayMap <- ("EF" :> "cash" @@ "MP" :> "mercadoPago" @@ "TOTAL" :> "nada"), Days <- {1, 2}, TicketIds <- {<<0, 1>>, <<0, 2>>, <<1, 2>>},
    MaxImports <- 2, MaxEdits <- 1
\* Editions of a catalogue that is there, and one report.
Curator == INSTANCE Sales WITH
    Reports <- {Evening}, Corrections <- {<<>>, "p" :> <<"COMIDA", None>>}, Importers <- {"ana"},
    Names <- {"vino", "malbec", "copa"}, Codes <- {"p", "w", "copa"}, Seed <- ("p" :> <<"VINOS", None>>), Ranged <- ("w" :> <<"COMIDA", "s">>),
    Variety <- ("malbec" :> "Malbec"), Vague <- {"vino"}, Elsewhere <- {},
    CategoryNames <- {"VINOS", "COMIDA", "X"}, CatIds <- {1, 2}, SubIds <- {1},
    Categories <- (1 :> [name |-> "COMIDA", on |-> TRUE]), Subcategories <- (1 :> [cat |-> 1, name |-> "s", on |-> TRUE]), Items <- {"i"},
    PayMap <- <<>>, Days <- {1, 2}, TicketIds <- {<<0, 1>>, <<0, 2>>}, MaxImports <- 1, MaxEdits <- 2

Way(f, web, pay) == [fulfillment |-> f, web |-> web, pay |-> pay]
Ways == {Way("TAKEAWAY", FALSE, "CASH"), Way("COUNTER", FALSE, "CARD"), Way("DELIVERY", TRUE, "CASH"), Way("DELIVERY", TRUE, "TRANSFER")}
\* From a dinner after midnight to the next lunch: a table of two orders, or two orders that are of none.
Salon  == INSTANCE Takings WITH
    now <- clock, changes <- events, Instants <- {2, 3}, Hints <- {"CASH"}, Sales <- {}, Sessions <- {"s"}, Amounts <- {2}, MaxChanges <- 6
Street == INSTANCE Takings WITH
    now <- clock, changes <- events, Instants <- {1, 2, 3}, Hints <- {"CASH"}, Sales <- {"o", "p"}, Sessions <- {}, Amounts <- {1}, MaxChanges <- 4

Contact(r) == [role |-> r, on |-> TRUE, reachable |-> TRUE]
Tie(admin, duties) == [admin |-> admin, duties |-> duties, app |-> {}, email |-> {}]
\* One event in one of two shops: an owner of all of them, and a cashier who in the first is an administrator or keeps its stock.
Desk == INSTANCE Inbox WITH
    person <- contact, link <- tie, touches <- taps,
    Users <- {"own", "eva"}, Shops <- {"s1", "s2"}, Devices <- {"d"}, Kinds <- {"edited", "assigned", "order", "stock"},
    Persons <- {[u \in {"own", "eva"} |-> Contact(IF u = "own" THEN "owner" ELSE "cashier")]},
    Handed <- {[d \in {"d"} |-> "own"]},
    Links <- {[m \in {"own", "eva"} \X {"s1", "s2"} |->
                 CASE m = <<"own", "s1">> -> Tie(FALSE, {}) [] m = <<"eva", "s1">> -> t [] OTHER -> None] :
                t \in {Tie(TRUE, {}), Tie(FALSE, {"stock"})}},
    MaxTold <- 1, MaxEdits <- 2

Figure(cash, opening, left, spent, source, change, taker, picked) ==
    [cash |-> cash, opening |-> opening, left |-> left, spent |-> spent, source |-> source, change |-> change, taker |-> taker, picked |-> picked]
Moved(from, to, lane) == [from |-> from, to |-> to, lane |-> lane, amount |-> 2]
\* The ledger the closings are written to, resynchronised and recovered: two closings on two
\* days, with and without their own source, a change, a pickup on a later day, and the loose
\* movements that may stand for them: a card payment written by hand, and the cash of a day
\* written as paid to the partner.
Ledger == INSTANCE LedgerSync WITH
    closing <- papers, book <- entries, accounts <- paired, steps <- turns,
    Closings <- {1, 2}, Days <- {1, 2},
    Figures <- {Figure(2, 1, 0, 0, 0, 0, "ana", None), Figure(2, 0, 0, 0, 1, 0, None, None),
                Figure(3, 1, 1, 1, 2, 0, "ana", None), Figure(2, 0, 0, 0, 2, 1, "ana", 2)},
    CashAccounts <- {"caja", "caja2"}, SourceAccounts <- {"banco", None},
    Loose <- {Moved("ingreso", "banco", "card"), Moved("ingreso", "ana", "cash")},
    Amounts <- {1, 2}, MaxRows <- 9, MaxSteps <- 3

\* Everything that happens to the rows of one closing that are settled.
Rows == INSTANCE Settlement WITH
    Closings <- {1}, Sources <- {"rappi"}, Versions <- 3, Amounts <- {1, 2},
    Ops <- {"update", "resync", "unlock", "pick", "remove"}, Exclusive <- {}

orderingVars == <<shop, drawer, now, order, asked, edits>>
bootVars     == <<service, schema, data, marks, at, phase, clean, wish, slips, saves>>
levelVars    == <<family, role, saved, effect>>
ledgerVars   == <<known, concept, movement, upload, uploads>>
dayVars      == <<person, punch, produced, summary, login, job, sheets, touches>>
salesVars    == <<product, category, subcat, ticket, line, daily, import, edit, mixed, imports, changes>>
takingVars   == <<clock, sale, session, cut, hint, counted, events>>
inboxVars    == <<contact, tie, inbox, news, flying, letters, device, holder, dead, taps>>
resyncVars   == <<papers, entries, paired, turns>>
settleVars   == <<alive, row, income, cLock, rLock, w, drops, pc, settler, saver>>
officeVars   == <<scene, orderingVars, bootVars, levelVars, memberVars, ledgerVars, dayVars, salesVars, takingVars, inboxVars,
                  registerVars, resyncVars, settleVars>>

NotBooting == service = None /\ schema = {} /\ data = None /\ marks = {} /\ at = None /\ phase = None /\ clean = TRUE /\ wish = None
              /\ slips = 0 /\ saves = 0
MCInit ==
    /\ scene \in Scenes /\ Init /\ Web!Init
    /\ Rows!Init /\ (scene # "rows" => \A x \in DOMAIN row : row[x].amount < 2)
    /\ Ledger!Init /\ (scene # "resync" => paired = [cash |-> "caja", source |-> None])
    /\ IF scene = "boot" THEN Server!Init ELSE NotBooting
    /\ IF scene = "levels" THEN Rights!Init ELSE family = {} /\ role = None /\ saved = None /\ effect = {}
    /\ MembersInit
    /\ IF scene = "ledger" THEN Bookkeeper!Init ELSE known = {} /\ concept = {} /\ movement = {} /\ upload = <<>> /\ uploads = 0
    /\ IF scene = "days" THEN Clerk!Init
       ELSE person = <<>> /\ punch = <<>> /\ produced = <<>> /\ summary = <<>> /\ login = <<>> /\ job = None /\ sheets = 0 /\ touches = 0
    /\ CASE scene = "sales" -> Reporter!Init
         [] scene = "catalog" -> Curator!Init
         [] OTHER -> /\ product = <<>> /\ category = <<>> /\ subcat = <<>> /\ ticket = <<>> /\ line = {} /\ daily = <<>>
                     /\ import = <<>> /\ edit = None /\ mixed = FALSE /\ imports = 0 /\ changes = 0
    /\ CASE scene = "salon" -> Salon!Init
         [] scene = "street" -> Street!Init
         [] OTHER -> clock = 0 /\ sale = <<>> /\ session = <<>> /\ cut = 0 /\ hint = None /\ counted = <<>> /\ events = 0
    /\ IF scene = "inbox" THEN Desk!Init
       ELSE contact = <<>> /\ tie = <<>> /\ inbox = {} /\ news = <<>> /\ flying = {} /\ letters = {} /\ device = <<>> /\ holder = <<>> /\ dead = {} /\ taps = 0

MCNext ==
    /\ UNCHANGED scene
    /\ \/ scene = "ordering" /\ Web!Next /\ UNCHANGED <<bootVars, levelVars, memberVars, ledgerVars, dayVars, salesVars, takingVars, inboxVars, registerVars, resyncVars, settleVars>>
       \/ scene = "boot" /\ Server!Next /\ UNCHANGED <<orderingVars, levelVars, memberVars, ledgerVars, dayVars, salesVars, takingVars, inboxVars, registerVars, resyncVars, settleVars>>
       \/ scene = "levels" /\ Rights!Next /\ UNCHANGED <<orderingVars, bootVars, memberVars, ledgerVars, dayVars, salesVars, takingVars, inboxVars, registerVars, resyncVars, settleVars>>
       \/ scene = "members" /\ MembersNext /\ UNCHANGED <<orderingVars, bootVars, levelVars, ledgerVars, dayVars, salesVars, takingVars, inboxVars, registerVars, resyncVars, settleVars>>
       \/ scene = "ledger" /\ Bookkeeper!Next /\ UNCHANGED <<orderingVars, bootVars, levelVars, memberVars, dayVars, salesVars, takingVars, inboxVars, registerVars, resyncVars, settleVars>>
       \/ scene = "days" /\ Clerk!Next /\ UNCHANGED <<orderingVars, bootVars, levelVars, memberVars, ledgerVars, salesVars, takingVars, inboxVars, registerVars, resyncVars, settleVars>>
       \/ scene = "sales" /\ Reporter!Next /\ UNCHANGED <<orderingVars, bootVars, levelVars, memberVars, ledgerVars, dayVars, takingVars, inboxVars, registerVars, resyncVars, settleVars>>
       \/ scene = "catalog" /\ Curator!Next /\ UNCHANGED <<orderingVars, bootVars, levelVars, memberVars, ledgerVars, dayVars, takingVars, inboxVars, registerVars, resyncVars, settleVars>>
       \/ scene = "salon" /\ Salon!Next /\ UNCHANGED <<orderingVars, bootVars, levelVars, memberVars, ledgerVars, dayVars, salesVars, inboxVars, registerVars, resyncVars, settleVars>>
       \/ scene = "street" /\ Street!Next /\ UNCHANGED <<orderingVars, bootVars, levelVars, memberVars, ledgerVars, dayVars, salesVars, inboxVars, registerVars, resyncVars, settleVars>>
       \/ scene = "inbox" /\ Desk!Next /\ UNCHANGED <<orderingVars, bootVars, levelVars, memberVars, ledgerVars, dayVars, salesVars, takingVars, registerVars, resyncVars, settleVars>>
       \/ scene = "register" /\ Next /\ UNCHANGED <<orderingVars, bootVars, levelVars, memberVars, ledgerVars, dayVars, salesVars, takingVars, inboxVars, resyncVars, settleVars>>
       \/ scene = "resync" /\ Ledger!Next /\ UNCHANGED <<orderingVars, bootVars, levelVars, memberVars, ledgerVars, dayVars, salesVars, takingVars, inboxVars, registerVars, settleVars>>
       \/ scene = "rows" /\ Rows!Next /\ UNCHANGED <<orderingVars, bootVars, levelVars, memberVars, ledgerVars, dayVars, salesVars, takingVars, inboxVars, registerVars, resyncVars>>

MCSpec == MCInit /\ [][MCNext]_officeVars

Symmetry == Permutations(Requests)

\* Who orders what the page offers is served, and the web offers the methods chosen in the quick panel.
OrderingAgrees == scene = "ordering" => Web!ShownIsServed /\ Web!QuickPanelHeard
\* What closings, receipts, tips and the monitor tell of a shift agrees, and no sale is
\* declared twice.
TakingsTell == /\ scene = "salon" => Salon!TakingsTell
               /\ scene = "street" => Street!TakingsTell
\* Saving the levels of a member as they are shown changes nothing, and a higher one takes
\* nothing away.  The badge counts nothing that was read, a member may mute what he is told,
\* and pushes go to whoever holds the device.
RightsAndInbox == /\ scene = "levels" => Rights!EditorRoundTrip /\ Rights!RaisingGives
                  /\ scene = "inbox" => Desk!InboxInOrder
\* A start that was interrupted is made good by the next one and keeps what people edited;
\* a token that was not hashed is lost, and three services write again at every start.
MCBootHeals ==
    scene = "boot" =>
        /\ (service = "printAgents" /\ slips > 0) \/ Server!BootHeals
        /\ service \in {"concepts", "expenses", "ledger"} \/ Server!BootKeepsEdits
\* A preview says what the resynchronisation then does, and the recovery of incomes
\* leaves nothing to recover.
MCLedgerConverges == scene = "resync" => Ledger!PreviewTellsResync /\ Ledger!RecoveryConverges
\* A closing that is resynchronised again stays as it is, and so does the ledger.
ResyncIdempotent == scene = "resync" => Ledger!ResyncIdempotent
\* An import that ends leaves what its file says, however often it is repeated; the income
\* of a batch is worth what its rows are worth when they are marked.
StepsTell == [][(scene = "ledger" => Bookkeeper!ImportedOnce) /\ (scene = "days" => Clerk!Converged)
                /\ (scene = "sales" => Reporter!SalesInOrder) /\ (scene = "catalog" => Curator!SalesInOrder)
                /\ (scene = "rows" => Rows!MarksWhatItPays)]_officeVars
=============================================================================
