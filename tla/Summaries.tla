------------------------------ MODULE Summaries ------------------------------
(***************************************************************************)
(* The reports of sales: what was ordered in the shop (menu-sales-analytics),       *)
(* what files of other systems of sale brought (sales-products-analytics), both         *)
(* together (reports.service.ts, dashboard) and the commissions of employees on           *)
(* either (commissions.service.ts).                                                  *)
(*                                                                         *)
(* Instants are half days: 2*d and 2*d + 1 are in day d of UTC, and the first of them     *)
(* is still in the day before where the shop is.  Lines have no quantity but their        *)
(* amount; a filter has no free text, that narrows by what the name of a category does.    *)
(***************************************************************************)
EXTENDS Integers, FiniteSets, FiniteSetsExt

CONSTANTS
    Orders, Instants,
    Plates,     \* lines that an order may have: [n, item, promo, amount], item None if it is not of the menu
    Pays,       \* how an order or a ticket is paid
    Tickets,    \* that a file may bring: [id, day, pay, lines], lines of [code, cat, sub, amount]
    Items, Codes, Categories,
    Labelled,   \* the category of each product, or None
    Employees, Rules,
    Periods,    \* the first and last days that reports are asked for
    MaxChanges, None

VARIABLES
    order,      \* None or [made, accepted, done, cancelled, lines, pay]
    imported,   \* the tickets that are there
    link,       \* of each product of other systems, its item of the menu or None
    labels,     \* of each product [cat, sub], None for what it has not
    rubro,      \* of each item, the category that the menu gives it, or None
    rule,       \* None or [emp, cat, on]
    changes

vars == <<order, imported, link, labels, rubro, rule, changes>>

UtcDay(i)  == i \div 2
ShopDay(i) == (i - 1) \div 2
Days       == {UtcDay(i) : i \in Instants} \cup {ShopDay(i) : i \in Instants}
Else(x, y) == IF x = None THEN y ELSE x
Sum(S)     == MapThenSumSet(LAMBDA r : r.amount, S)
Changes    == changes < MaxChanges /\ changes' = changes + 1

----------------------------------------------------------------------------
\* What changes

Sell(o, now, lines, pay) ==
    /\ Changes /\ order[o] = None
    /\ order' = [order EXCEPT ![o] = [made |-> now, accepted |-> None, done |-> None, cancelled |-> FALSE, lines |-> lines, pay |-> pay]]
    /\ UNCHANGED <<imported, link, labels, rubro, rule>>
Accept(o, now) ==
    /\ Changes /\ order[o] # None
    /\ order[o].accepted = None /\ order[o].done = None /\ ~order[o].cancelled /\ now >= order[o].made
    /\ order' = [order EXCEPT ![o].accepted = now]
    /\ UNCHANGED <<imported, link, labels, rubro, rule>>
Complete(o, now) ==
    /\ Changes /\ order[o] # None
    /\ order[o].done = None /\ ~order[o].cancelled /\ now >= Else(order[o].accepted, order[o].made)
    /\ order' = [order EXCEPT ![o].done = now]
    /\ UNCHANGED <<imported, link, labels, rubro, rule>>
Cancel(o) ==
    /\ Changes /\ order[o] # None /\ ~order[o].cancelled
    /\ order' = [order EXCEPT ![o].cancelled = TRUE]
    /\ UNCHANGED <<imported, link, labels, rubro, rule>>

Import(t) ==
    /\ Changes /\ imported' = imported \cup {t} /\ t \notin imported
    /\ UNCHANGED <<order, link, labels, rubro, rule>>
LinkTo(c, item) ==
    /\ Changes /\ link' = [link EXCEPT ![c] = item]
    /\ UNCHANGED <<order, imported, labels, rubro, rule>>
Categorise(item, cat) ==
    /\ Changes /\ rubro' = [rubro EXCEPT ![item] = cat]
    /\ UNCHANGED <<order, imported, link, labels, rule>>

\* Rules.  Their index on employee and category holds the inactive ones too: the rule of
\* a category that was taken away is given back, but no other rule can take its name.
RulesOf(emp, cat) == {r \in Rules : rule[r] # None /\ rule[r].emp = emp /\ rule[r].cat = cat}
CreateRule(r, emp, cat) ==
    /\ Changes /\ \A s \in RulesOf(emp, cat) : s = r /\ ~rule[s].on
    /\ RulesOf(emp, cat) = {} => rule[r] = None
    /\ rule' = [rule EXCEPT ![r] = [emp |-> emp, cat |-> cat, on |-> TRUE]]
    /\ UNCHANGED <<order, imported, link, labels, rubro>>
UpdateRule(r, cat, on) ==
    /\ Changes /\ rule[r] # None /\ RulesOf(rule[r].emp, cat) \subseteq {r}
    /\ rule' = [rule EXCEPT ![r] = [@ EXCEPT !.cat = cat, !.on = on]]
    /\ UNCHANGED <<order, imported, link, labels, rubro>>
RemoveRule(r) ==
    /\ Changes /\ rule[r] # None
    /\ rule' = [rule EXCEPT ![r].on = FALSE]
    /\ UNCHANGED <<order, imported, link, labels, rubro>>

----------------------------------------------------------------------------
\* The sales of the menu.  A filter is [from, to, cat, sub, pay, pos, ids]: `pos' brings
\* the sales of linked products, of the items `ids' if there are any.

Product(item)  == LET linked == {c \in Codes : item # None /\ link[c] = item} IN IF linked = {} THEN None ELSE Max(linked)
CategoryOf(item) == LET c == Product(item)
                    IN  IF item # None /\ rubro[item] # None THEN rubro[item] ELSE IF c = None THEN None ELSE labels[c].cat
SubOf(item)    == LET c == Product(item) IN IF c = None THEN None ELSE labels[c].sub
Passes(f, cat, sub) == (f.cat = None \/ Else(cat, "none") = f.cat) /\ (f.sub = None \/ Else(sub, "none") = f.sub)

\* A broad window of what was done, or made, is read first; then each order counts on the
\* day of the shop when it was done, or accepted, or made.
SaleDay(o) == ShopDay(Else(order[o].done, Else(order[o].accepted, order[o].made)))
Read(from, to) == {o \in Orders :
    /\ order[o] # None /\ ~order[o].cancelled
    /\ \/ UtcDay(Else(order[o].done, order[o].made)) \in (from - 1) .. (to + 1)
       \/ UtcDay(order[o].made) \in (from - 2) .. (to + 2)}
OrdersOf(f) == {o \in Read(f.from, f.to) : SaleDay(o) \in f.from .. f.to}

CartaLines(f) ==
    UNION {{[ticket |-> o, n |-> l.n, item |-> l.item, key |-> <<Product(l.item) # None, Else(l.item, l.n)>>,
             cat |-> CategoryOf(l.item), sub |-> SubOf(l.item), day |-> SaleDay(o), pay |-> order[o].pay, amount |-> l.amount]
              : l \in {x \in order[o].lines : ~x.promo /\ Passes(f, CategoryOf(x.item), SubOf(x.item))}} : o \in OrdersOf(f)}

\* The lines of files, of these codes.
PosLines(from, to, codes) ==
    UNION {{[ticket |-> t.id, n |-> l.code, code |-> l.code, cat |-> l.cat, sub |-> l.sub, day |-> t.day, pay |-> t.pay, amount |-> l.amount]
              : l \in {x \in t.lines : x.code \in codes}} : t \in {x \in imported : x.day \in from .. to}}
LinkedItems    == {i \in Items : Product(i) # None}
MergedItems(f) == IF ~f.pos THEN {} ELSE IF f.ids = {} THEN LinkedItems ELSE LinkedItems \cap f.ids
Merged(f)      == PosLines(f.from, f.to, {Product(i) : i \in MergedItems(f)})
ItemOf(code)   == CHOOSE i \in LinkedItems : Product(i) = code
\* Those of products that pass the filter are added to the products.
MergedShown(f) == {[l EXCEPT !.cat = CategoryOf(ItemOf(l.code)), !.sub = SubOf(ItemOf(l.code))]
                     : l \in {x \in Merged(f) : Passes(f, CategoryOf(ItemOf(x.code)), SubOf(ItemOf(x.code)))}}

Products(f)    == {l.key : l \in CartaLines(f)} \cup {<<TRUE, i>> : i \in {j \in LinkedItems : Passes(f, CategoryOf(j), SubOf(j))}}
ProductRow(f, k) == Sum({l \in CartaLines(f) : l.key = k})
                    + (IF k[1] THEN Sum({l \in MergedShown(f) : ItemOf(l.code) = k[2]}) ELSE 0)
MenuTotal(f)   == MapThenSumSet(LAMBDA k : ProductRow(f, k), Products(f))
\* A product has one category, the one of its item.
CatOfProduct(f, k) == Else(CategoryOf(IF k[2] \in Items THEN k[2] ELSE None), "none")
SubOfProduct(f, k) == Else(SubOf(IF k[2] \in Items THEN k[2] ELSE None), "none")
CategoryRow(f, c)  == MapThenSumSet(LAMBDA k : ProductRow(f, k), {k \in Products(f) : CatOfProduct(f, k) = c})
SubRow(f, c, s)    == MapThenSumSet(LAMBDA k : ProductRow(f, k), {k \in Products(f) : CatOfProduct(f, k) = c /\ SubOfProduct(f, k) = s})
\* Days and payments take the merged lines whether their product passes or not.
MenuDay(f, d)  == Sum({l \in CartaLines(f) : l.day = d}) + Sum({l \in Merged(f) : l.day = d})
MenuPay(f, p)  == IF f.pay \in {None, p}
                  THEN (IF p[1] THEN Sum({l \in Merged(f) : Else(l.pay, "none") = p[2]})
                                ELSE Sum({l \in CartaLines(f) : Else(l.pay, "none") = p[2]}))
                  ELSE 0

\* What bringing the sales of linked products would add, item by item.
Preview(f) == [i \in {j \in LinkedItems : Passes(f, CategoryOf(j), SubOf(j))} |->
                 [carta |-> ProductRow([f EXCEPT !.pos = FALSE, !.ids = {}], <<TRUE, i>>),
                  pos   |-> Sum(PosLines(f.from, f.to, {Product(i)}))]]

----------------------------------------------------------------------------
\* The sales of files, by the labels that each line has.

PosFiltered(f) == {l \in PosLines(f.from, f.to, Codes) : Passes(f, l.cat, l.sub) /\ f.pay \in {None, <<TRUE, l.pay>>}}
PosTotal(f)    == Sum(PosFiltered(f))
PosCategory(f, c) == Sum({l \in PosFiltered(f) : Else(l.cat, "none") = c})
PosSub(f, c, s)   == Sum({l \in PosFiltered(f) : Else(l.cat, "none") = c /\ Else(l.sub, "none") = s})
PosDay(f, d)   == Sum({l \in PosFiltered(f) : l.day = d})
PosPay(f, p)   == Sum({l \in PosFiltered(f) : Else(l.pay, "none") = p})
PosOptions(f)  == {Else(l.cat, "none") : l \in PosLines(f.from, f.to, Codes)}

Whole(from, to) == [from |-> from, to |-> to, cat |-> None, sub |-> None, pay |-> None, pos |-> FALSE, ids |-> {}]

\* The dashboard: both totals, and both series summed by date.
Combined(from, to)    == MenuTotal(Whole(from, to)) + PosTotal(Whole(from, to))
DayAmount(from, to, d) == MenuDay(Whole(from, to), d) + PosDay(Whole(from, to), d)
\* It compares with as many days before.
Previous(from, to) == [from |-> from - (to - from + 1), to |-> from - 1]

----------------------------------------------------------------------------
\* Commissions: what was sold of the category of each rule, by source.
Sources == {"all", "sales", "pos"}
Base(source, c, from, to) ==
    (IF source # "pos" THEN CategoryRow(Whole(from, to), c) ELSE 0)
    + (IF source # "sales" THEN PosCategory(Whole(from, to), c) ELSE 0)
SourceTotal(source, from, to) ==
    (IF source # "pos" THEN MenuTotal(Whole(from, to)) ELSE 0) + (IF source # "sales" THEN PosTotal(Whole(from, to)) ELSE 0)
BaseOf(emp, source, from, to) ==
    MapThenSumSet(LAMBDA r : Base(source, rule[r].cat, from, to), {r \in Rules : rule[r] # None /\ rule[r].on /\ rule[r].emp = emp})

----------------------------------------------------------------------------
Init ==
    /\ order = [o \in Orders |-> None] /\ imported \in SUBSET Tickets
    /\ link = [c \in Codes |-> None] /\ labels = [c \in Codes |-> [cat |-> Labelled[c], sub |-> None]]
    /\ rubro = [i \in Items |-> None] /\ rule = [r \in Rules |-> None] /\ changes = 0

Next ==
    \/ \E o \in Orders :
         \/ \E now \in Instants, lines \in SUBSET Plates, p \in Pays : lines # {} /\ Sell(o, now, lines, p)
         \/ \E now \in Instants : Accept(o, now) \/ Complete(o, now)
         \/ Cancel(o)
    \/ \E t \in Tickets : Import(t)
    \/ \E c \in Codes, i \in Items \cup {None} : LinkTo(c, i)
    \/ \E i \in Items, cat \in Categories \cup {None} : Categorise(i, cat)
    \/ \E r \in Rules, cat \in Categories :
         \/ \E e \in Employees : CreateRule(r, e, cat)
         \/ \E on \in BOOLEAN : UpdateRule(r, cat, on)
    \/ \E r \in Rules : RemoveRule(r)

Spec == Init /\ [][Next]_vars

----------------------------------------------------------------------------
Names   == Categories \cup {"none"}
PayKeys == BOOLEAN \X (Pays \cup {"none"})
Filters == {[from |-> p[1], to |-> p[2], cat |-> c, sub |-> None, pay |-> None, pos |-> b, ids |-> ids] :
              p \in Periods, c \in Names \cup {None}, b \in BOOLEAN, ids \in {{}} \cup {{i} : i \in Items}}
Unmerged == {f \in Filters : ~f.pos /\ f.ids = {}}

\* Both reports break the same total down by product, category, subcategory, day and
\* payment; with the sales of linked products brought too, as long as no category is asked.
BreakdownsAddUp ==
    /\ \A f \in Filters :
         /\ MapThenSumSet(LAMBDA c : CategoryRow(f, c), Names) = MenuTotal(f)
         /\ f.cat = None /\ f.ids = {} => \A c \in Names : MapThenSumSet(LAMBDA s : SubRow(f, c, s), Names) = CategoryRow(f, c)
         /\ ~f.pos \/ f.cat = None =>
              /\ MapThenSumSet(LAMBDA d : MenuDay(f, d), Days) = MenuTotal(f)
              /\ MapThenSumSet(LAMBDA p : MenuPay(f, p), PayKeys) = MenuTotal(f)
    /\ \A f \in Unmerged :
         /\ MapThenSumSet(LAMBDA c : PosCategory(f, c), Names) = PosTotal(f)
         /\ MapThenSumSet(LAMBDA d : PosDay(f, d), Days) = PosTotal(f)
         /\ MapThenSumSet(LAMBDA p : PosPay(f, p), Pays \cup {"none"}) = PosTotal(f)
         /\ \A c \in Names : MapThenSumSet(LAMBDA s : PosSub(f, c, s), Names) = PosCategory(f, c)

\* Who narrows a report to a category finds there what its row said, and can ask for every
\* category that something was sold of.
DrillDownTells ==
    \A f \in {g \in Filters : g.cat = None}, c \in Names :
       /\ MenuTotal([f EXCEPT !.cat = c]) = CategoryRow(f, c)
       /\ PosTotal([f EXCEPT !.cat = c]) = PosCategory(f, c)
       /\ PosCategory(f, c) # 0 => c \in PosOptions(f)

\* What the preview says that the sales of some linked items would add is what it adds to
\* bring them, item by item and in all.
PreviewTellsMerge ==
    \A f \in {g \in Filters : g.pos /\ g.ids # {}} :
       LET alone == [f EXCEPT !.pos = FALSE]
           rows  == Preview(f)
           told  == DOMAIN rows \cap f.ids
       IN  /\ MenuTotal(f) - MenuTotal(alone) = MapThenSumSet(LAMBDA i : rows[i].pos, told)
           /\ \A i \in told : ProductRow(f, <<TRUE, i>>) = rows[i].carta + rows[i].pos

\* Consecutive reports count every sale once: what was done on a day is in the report of
\* that day; so is what is only accepted, if that took at most two days.
SaleInItsDay ==
    \A o \in Orders : (order[o] # None /\ ~order[o].cancelled) =>
       /\ \A d, e \in Days : d # e => ~(o \in OrdersOf(Whole(d, d)) /\ o \in OrdersOf(Whole(e, e)))
       /\ (order[o].done # None \/ UtcDay(Else(order[o].accepted, order[o].made)) - UtcDay(order[o].made) <= 2)
            => o \in OrdersOf(Whole(SaleDay(o), SaleDay(o)))

\* The dashboard's total is what its days add up to, and the total of commissions' sales
\* is the same one; no sale is compared with itself nor paid to an employee by two rules.
DashboardAndCommissionsAgree ==
    \A p \in Periods :
       /\ MapThenSumSet(LAMBDA d : DayAmount(p[1], p[2], d), Days) = Combined(p[1], p[2])
       /\ SourceTotal("all", p[1], p[2]) = Combined(p[1], p[2])
       /\ LET before == Previous(p[1], p[2])
          IN  OrdersOf(Whole(p[1], p[2])) \cap OrdersOf(Whole(before.from, before.to)) = {}
       /\ \A e \in Employees, s \in Sources :
            /\ MapThenSumSet(LAMBDA c : Base(s, c, p[1], p[2]), Names) = SourceTotal(s, p[1], p[2])
            /\ BaseOf(e, s, p[1], p[2]) <= SourceTotal(s, p[1], p[2])

=============================================================================
