------------------------------- MODULE Sales -------------------------------
(***************************************************************************)
(* The report of the till of another maker becomes tickets, their lines and the  *)
(* totals of days (sales-report-import.service.ts), and every line carries the    *)
(* category and subcategory that the catalogue of products gives it                *)
(* (pos-catalog.service.ts, sales-products-analytics.service.ts).  The labels are   *)
(* copies: whoever edits the catalogue writes them again on the lines.               *)
(*                                                                         *)
(* No import and no edition is a transaction: each statement is a step of its own,   *)
(* and the server may die between any two of them.  What people do then is to        *)
(* upload the report again.                                                          *)
(***************************************************************************)
EXTENDS Integers, Sequences, FiniteSets, SequencesExt, FiniteSetsExt

CONSTANTS
    Reports,       \* the files: [system, rows]
    Corrections,   \* labels corrected in the preview: functions of codes
    Importers,     \* people that upload
    Names, Codes,  \* of products: a code may be a name
    Seed, Ranged,  \* labels known by the code, and by the range of the code
    Variety,       \* the variety that a name says, for some names
    Vague,         \* names that only say it is a wine
    Elsewhere,     \* lines with a name that other shops sold: [code, name]
    CategoryNames, CatIds, SubIds,
    Categories, Subcategories,   \* the ones that are there at first
    Items,         \* items of the menu
    PayMap,        \* the field of a code of payment
    Days, TicketIds,
    MaxImports, MaxEdits,   \* bounds
    None

VARIABLES
    product,    \* the catalogue: None or [name, labels, cat, sub, item, on]
    category,   \* None or [name, on]
    subcat,     \* None or [cat, name, on]
    ticket,     \* None or [day, total, pay]
    line,       \* the lines of tickets
    daily,      \* the totals of a day, None when no report had it
    import,     \* for each importer, the import going on
    edit,       \* the edition of the catalogue going on
    mixed,      \* whether two of these ran together since all were done
    imports, changes

catalog == <<product, category, subcat>>
sold    == <<ticket, line, daily>>
vars    == <<catalog, sold, import, edit, mixed, imports, changes>>

Fields == {"cash", "card", "mercadoPago", "delivery", "transfer", "accountDni", "other"}
Unlabelled == <<None, None>>
Idle   == [step |-> "idle", report |-> None, fixes |-> <<>>, naming |-> <<>>, before |-> <<>>, ids |-> <<>>, labels |-> <<>>]
NoEdit == [step |-> "idle", on |-> None, to |-> <<>>, rows |-> {}]
Busy   == edit # NoEdit \/ \E i \in Importers : import[i] # Idle

Total(S, f(_)) == FoldSet(LAMBDA x, sum : sum + f(x), 0, S)

----------------------------------------------------------------------------
\* The report

\* A row with a date, a type and a number heads a ticket; the rows below it are
\* its items, up to the next head.  A void ticket takes its items away with it.
Restosoft(rows) ==
    LET heads == {h \in DOMAIN rows : rows[h].head}
        End(h) == Min({k \in heads : k > h} \cup {Len(rows) + 1}) - 1
        live   == SetToSortSeq({h \in heads : ~rows[h].void}, <)
    IN  [i \in DOMAIN live |->
            LET h == live[i] IN
            [id |-> rows[h].id, day |-> rows[h].day, total |-> rows[h].total, pay |-> rows[h].pay,
             items |-> SelectSeq(SubSeq(rows, h + 1, End(h)), LAMBDA r : r.code # None \/ r.name # None \/ r.amount # 0)]]
\* A dashboard is one ticket of its period, on the last day of it.
WeMenu(r) == <<[id |-> <<r.from, r.to>>, day |-> r.to, total |-> r.total, pay |-> "TOTAL", items |-> <<>>]>>
Parsed(f) == IF f.system = "wemenu" THEN WeMenu(f.rows[1]) ELSE Restosoft(f.rows)

\* The last ticket of a number wins.
Unique(ts)  == {ts[i] : i \in {j \in DOMAIN ts : \A k \in DOMAIN ts : ts[k].id = ts[j].id => k <= j}}
Code(item)  == IF item.code # None THEN item.code ELSE item.name
ItemsOf(ts) == UNION {Range(t.items) : t \in Unique(ts)}
\* A product is called by one of the names that its lines have.
Namings(items) == {n \in [{Code(l) : l \in items} -> Names \cup {None}] : \A c \in DOMAIN n : \E l \in items : Code(l) = c /\ l.name = n[c]}

Field(code) == IF code \in DOMAIN PayMap /\ PayMap[code] \in Fields THEN PayMap[code] ELSE "other"
\* The totals of a day of the report, of every ticket of it.
DayOf(ts, d) ==
    LET mine == {i \in DOMAIN ts : ts[i].day = d}
    IN  [total |-> Total(mine, LAMBDA i : ts[i].total), count |-> Cardinality(mine),
         by |-> [f \in Fields |-> Total({i \in mine : Field(ts[i].pay) = f}, LAMBDA i : ts[i].total)]]

----------------------------------------------------------------------------
\* The catalogue

\* What is known of a product: its labels by the code, a wine by its variety,
\* a food by the range of its code.  A wine without variety has no labels.
NewLabels(code, name) ==
    CASE code \in DOMAIN Seed -> IF Seed[code] = <<"VINOS", None>> THEN Unlabelled ELSE Seed[code]
      [] code \notin DOMAIN Seed /\ name \in DOMAIN Variety -> <<"VINOS", Variety[name]>>
      [] code \notin DOMAIN Seed /\ name \notin DOMAIN Variety /\ name \notin Vague /\ code \in DOMAIN Ranged -> Ranged[code]
      [] OTHER -> Unlabelled

IdOf(name, cats) == IF \E c \in DOMAIN cats : cats[c] # None /\ cats[c].on /\ cats[c].name = name
                    THEN CHOOSE c \in DOMAIN cats : cats[c] # None /\ cats[c].on /\ cats[c].name = name ELSE None
Lacking(labels) == labels[1] = None \/ labels = <<"VINOS", None>>

\* The row of a product after a report: a correction is written as it is, a
\* label that is missing is completed, a new product is labelled at once.
Upserted(code, name, fixes, old, cats) ==
    LET fixed == code \in DOMAIN fixes
        found == NewLabels(code, name)
    IN  CASE old # None /\ fixed -> [old EXCEPT !.labels = fixes[code], !.cat = IdOf(fixes[code][1], cats)]
          [] old # None /\ ~fixed ->
                [old EXCEPT !.name = IF name = None THEN @ ELSE name,
                            !.labels = IF Lacking(@) /\ ~Lacking(found) THEN found ELSE @]
          [] OTHER -> LET labels == IF fixed THEN fixes[code] ELSE found
                      IN  [name |-> name, labels |-> labels, cat |-> IdOf(labels[1], cats), sub |-> None, item |-> None, on |-> TRUE]

\* What the preview proposes: the catalogue, else what is known, else what the
\* language model answers.
Proposed(code, name, answer) ==
    LET mine  == IF product[code] = None THEN Unlabelled ELSE product[code].labels
        found == NewLabels(code, name)
    IN  CASE ~Lacking(mine)  -> mine
          [] Lacking(mine) /\ ~Lacking(found) -> found
          [] OTHER -> answer

----------------------------------------------------------------------------
\* An import (commit)

\* The file is read, and the catalogue as it is: what has no labels may be
\* corrected, by the person or by the language model.
Start(i, f, fixes) ==
    LET ts == Parsed(f) IN
    /\ import[i] = Idle /\ imports < MaxImports
    /\ ts # <<>>
    /\ \E naming \in Namings(ItemsOf(ts)) :
          /\ \A c \in DOMAIN fixes : c \in DOMAIN naming
          /\ import' = [import EXCEPT ![i] = [Idle EXCEPT !.step = "catalog", !.report = f, !.fixes = fixes, !.naming = naming,
                            !.before = product, !.ids = category]]
    /\ imports' = imports + 1 /\ mixed' = Busy
    /\ UNCHANGED <<catalog, sold, edit, changes>>

\* Who lists the catalogue completes it from the lines of tickets; a condition
\* without parentheses lets the lines of other shops in.
ListCatalog(i) ==
    /\ import[i] = Idle /\ imports < MaxImports
    /\ LET lines == {l \in line : ticket[l.ticket] # None /\ l.code # None} \cup Elsewhere IN
       \E naming \in Namings(lines) :
           import' = [import EXCEPT ![i] = [Idle EXCEPT !.step = "catalog", !.naming = naming, !.before = product, !.ids = category]]
    /\ imports' = imports + 1 /\ mixed' = Busy
    /\ UNCHANGED <<catalog, sold, edit, changes>>

RowsOf(i) == [c \in DOMAIN import[i].naming |->
                 Upserted(c, import[i].naming[c], import[i].fixes, import[i].before[c], import[i].ids)]
\* The rows that changed are saved together; a product that somebody added
\* meanwhile makes the import fail.
SaveCatalog(i) ==
    /\ import[i].step = "catalog"
    /\ LET rows  == RowsOf(i)
           dirty == {c \in DOMAIN rows : rows[c] # import[i].before[c]}
       IN  IF \E c \in dirty : import[i].before[c] = None /\ product[c] # None
           THEN /\ import' = [import EXCEPT ![i] = Idle] /\ UNCHANGED product
           ELSE /\ product' = [c \in Codes |-> IF c \in dirty THEN rows[c] ELSE product[c]]
                /\ import' = [import EXCEPT ![i] = IF @.report = None THEN Idle
                                 ELSE [@ EXCEPT !.step = "tickets", !.labels = [c \in DOMAIN rows |-> rows[c].labels]]]
    /\ UNCHANGED <<category, subcat, sold, edit, mixed, imports, changes>>

TicketsOf(i) == Unique(Parsed(import[i].report))
NumbersOf(i) == {t.id : t \in TicketsOf(i)}
To(i, step)  == import' = [import EXCEPT ![i].step = step]

\* Tickets that are known are written over, the others are added; the number is
\* unique, so that of two imports at once one fails (Die).
SaveTickets(i) ==
    /\ import[i].step = "tickets" /\ To(i, "sweep")
    /\ ticket' = [n \in TicketIds |->
          IF n \in NumbersOf(i)
          THEN LET t == CHOOSE u \in TicketsOf(i) : u.id = n IN [day |-> t.day, total |-> t.total, pay |-> t.pay]
          ELSE ticket[n]]
    /\ UNCHANGED <<catalog, line, daily, edit, mixed, imports, changes>>

\* The lines of the tickets of the report go, and come again with the labels
\* that the catalogue had.
Kept(ids) == {l \in line : l.ticket \notin ids}
SweepLines(i) ==
    /\ import[i].step = "sweep" /\ To(i, "lines")
    /\ line' = Kept(NumbersOf(i))
    /\ UNCHANGED <<catalog, ticket, daily, edit, mixed, imports, changes>>

LinesOf(i) ==
    UNION {{[ticket |-> t.id, n |-> n, by |-> <<i, imports>>, code |-> t.items[n].code, name |-> t.items[n].name,
             amount |-> t.items[n].amount, labels |-> import[i].labels[Code(t.items[n])]] : n \in DOMAIN t.items} : t \in TicketsOf(i)}
AddLines(i) ==
    /\ import[i].step = "lines" /\ To(i, "days")
    /\ line' = line \cup LinesOf(i)
    /\ UNCHANGED <<catalog, ticket, daily, edit, mixed, imports, changes>>

SaveDays(i) ==
    /\ import[i].step = "days"
    /\ LET ts == Parsed(import[i].report) IN
       daily' = [d \in Days |-> IF \E t \in Range(ts) : t.day = d THEN DayOf(ts, d) ELSE daily[d]]
    /\ import' = [import EXCEPT ![i] = Idle]
    /\ UNCHANGED <<catalog, ticket, line, edit, mixed, imports, changes>>

Import(i) == SaveCatalog(i) \/ SaveTickets(i) \/ SweepLines(i) \/ AddLines(i) \/ SaveDays(i)

----------------------------------------------------------------------------
\* Editions of the catalogue

Edit ==
    /\ edit = NoEdit /\ changes < MaxEdits
    /\ changes' = changes + 1 /\ mixed' = Busy
    /\ UNCHANGED <<sold, import, imports>>
Editing == UNCHANGED <<ticket, daily, import, mixed, imports, changes>>

Called(name)   == {c \in CatIds : category[c] # None /\ category[c].name = name}
Under(c, name) == {s \in SubIds : subcat[s] # None /\ subcat[s].cat = c /\ subcat[s].name = name}
NameOf(c) == IF c = None \/ category[c] = None THEN None ELSE category[c].name
Relabelling(code, labels) == [code |-> code, labels |-> labels]

\* By identifiers, the names follow; by names, the identifiers are forgotten.
\* The lines come in a statement of their own.
EditProduct(code, cat, sub, name) ==
    /\ Edit /\ product[code] # None
    /\ LET home == IF sub # None /\ cat = None THEN subcat[sub].cat ELSE cat
           byId == [product[code] EXCEPT !.cat = home, !.sub = sub,
                       !.labels = <<NameOf(home), IF sub = None THEN None ELSE subcat[sub].name>>]
           byName == [product[code] EXCEPT !.cat = None, !.labels[1] = name]
           row  == IF name = None THEN byId ELSE byName
       IN  /\ sub # None => subcat[sub] # None
           /\ product' = [product EXCEPT ![code] = row]
           /\ edit' = [NoEdit EXCEPT !.step = "lines", !.on = <<"product", code>>, !.rows = {Relabelling(code, row.labels)}]
    /\ UNCHANGED <<category, subcat>>

Discontinue(code) ==
    /\ Edit /\ product[code] # None
    /\ product' = [product EXCEPT ![code].on = ~@]
    /\ edit' = [NoEdit EXCEPT !.step = "lines", !.on = <<"product", code>>, !.rows = {Relabelling(code, product[code].labels)}]
    /\ UNCHANGED <<category, subcat>>

\* A category of the same name that was removed comes back.
CreateCategory(c, name) ==
    /\ Edit
    /\ \/ category[c] = None /\ Called(name) = {}
       \/ category[c] = [name |-> name, on |-> FALSE]
    /\ category' = [category EXCEPT ![c] = [name |-> name, on |-> TRUE]]
    /\ UNCHANGED <<product, subcat, edit>>
RemoveCategory(c) ==
    /\ Edit /\ category[c] # None
    /\ category' = [category EXCEPT ![c].on = FALSE] /\ UNCHANGED <<product, subcat, edit>>
\* A new name goes to the products of the category, then to their lines.
RenameCategory(c, name) ==
    /\ Edit /\ category[c] # None /\ category[c].name # name
    /\ Called(name) = {}
    /\ category' = [category EXCEPT ![c].name = name]
    /\ edit' = [NoEdit EXCEPT !.step = "products", !.on = <<"category", c>>, !.to = <<name>>]
    /\ UNCHANGED <<product, subcat>>

CreateSub(s, c, name) ==
    /\ Edit /\ category[c] # None /\ category[c].on
    /\ \/ subcat[s] = None /\ Under(c, name) = {}
       \/ subcat[s] = [cat |-> c, name |-> name, on |-> FALSE]
    /\ subcat' = [subcat EXCEPT ![s] = [cat |-> c, name |-> name, on |-> TRUE]]
    /\ UNCHANGED <<product, category, edit>>
RemoveSub(s) ==
    /\ Edit /\ subcat[s] # None
    /\ subcat' = [subcat EXCEPT ![s].on = FALSE] /\ UNCHANGED <<product, category, edit>>
\* A subcategory is renamed, or moved to another category.
EditSub(s, c, name) ==
    /\ Edit /\ subcat[s] # None
    /\ c # None => category[c] # None /\ category[c].on
    /\ LET row == [subcat[s] EXCEPT !.cat = IF c = None THEN @ ELSE c, !.name = name] IN
       /\ Under(row.cat, name) \subseteq {s}
       /\ subcat' = [subcat EXCEPT ![s] = row]
       /\ edit' = IF row.name = subcat[s].name /\ c = None THEN NoEdit
                  ELSE [NoEdit EXCEPT !.step = "products", !.on = <<"sub", s>>, !.to = <<c, name>>]
    /\ UNCHANGED <<product, category>>

WriteProducts ==
    /\ edit.step = "products"
    /\ LET kind == edit.on[1]
           id   == edit.on[2]
           Changed(p) ==
               CASE p = None -> p
                 [] p # None /\ kind = "category" -> IF p.cat = id THEN [p EXCEPT !.labels[1] = edit.to[1]] ELSE p
                 [] p # None /\ kind = "sub" ->
                        IF p.sub # id THEN p
                        ELSE [p EXCEPT !.labels = <<IF edit.to[1] = None THEN @[1] ELSE NameOf(edit.to[1]), edit.to[2]>>,
                                       !.cat = IF edit.to[1] = None THEN @ ELSE edit.to[1]]
       IN  product' = [c \in Codes |-> Changed(product[c])]
    /\ edit' = [edit EXCEPT !.step = "read"]
    /\ Editing /\ UNCHANGED <<category, subcat, line>>

\* backfillLinesByCategoryId: the lines of every product on sale of the category
\* are written, and with a subcategory, that subcategory.
ReadProducts ==
    /\ edit.step = "read"
    /\ LET ofSub == edit.on[1] = "sub"
           cat   == IF ofSub THEN subcat[edit.on[2]].cat ELSE edit.on[2]
           mine  == {c \in Codes : product[c] # None /\ product[c].on /\ product[c].cat = cat}
           rows  == {Relabelling(c, <<NameOf(cat), IF ofSub THEN edit.to[2] ELSE product[c].labels[2]>>) : c \in mine}
       IN  edit' = IF rows = {} THEN NoEdit ELSE [edit EXCEPT !.step = "lines", !.rows = rows]
    /\ Editing /\ UNCHANGED <<catalog, line>>

\* seedFromReport: the categories of the seed are there, then each product that
\* is recognised is labelled, and its lines.
SeedCatalog ==
    /\ Edit
    /\ \E ids \in [{Seed[c][1] : c \in DOMAIN Seed} -> CatIds] :
          /\ \A n \in DOMAIN ids : ids[n] \in Called(n) \/ (Called(n) = {} /\ category[ids[n]] = None)
          /\ \A n, m \in DOMAIN ids : n # m => ids[n] # ids[m]
          /\ category' = [c \in CatIds |-> IF \E n \in DOMAIN ids : ids[n] = c
                                           THEN [name |-> CHOOSE n \in DOMAIN ids : ids[n] = c, on |-> TRUE] ELSE category[c]]
    /\ edit' = [NoEdit EXCEPT !.step = "seed", !.on = <<"seed", None>>, !.rows = {c \in Codes : product[c] # None /\ product[c].on}]
    /\ UNCHANGED <<product, subcat>>
SeedLabels(p, c) ==
    LET known == IF c \in DOMAIN Seed THEN Seed[c] ELSE Unlabelled
        wine  == known[1] \in {None, "VINOS"} /\ known[2] = None /\ p.name \in DOMAIN Variety
    IN  CASE wine -> <<"VINOS", Variety[p.name]>>
          [] ~wine /\ known[1] = None /\ c \in DOMAIN Ranged -> Ranged[c]
          [] OTHER -> known
SeedProduct ==
    /\ edit.step = "seed"
    /\ \E c \in edit.rows :
          LET labels == SeedLabels(product[c], c)
              id     == IdOf(labels[1], category)
              rest   == edit.rows \ {c}
              next   == IF rest = {} THEN NoEdit ELSE [edit EXCEPT !.rows = rest]
          IN  IF Lacking(labels) \/ id = None
              THEN edit' = next /\ UNCHANGED <<product, line>>
              ELSE /\ product' = [product EXCEPT ![c].labels = labels, ![c].cat = id, ![c].sub = None]
                   /\ line' = {IF l.code = c THEN [l EXCEPT !.labels = labels] ELSE l : l \in line}
                   /\ edit' = next
    /\ Editing /\ UNCHANGED <<category, subcat>>

WriteLines ==
    /\ edit.step = "lines"
    /\ \E r \in edit.rows :
          /\ line' = {IF l.code = r.code THEN [l EXCEPT !.labels = r.labels] ELSE l : l \in line}
          /\ edit' = IF edit.rows = {r} THEN NoEdit ELSE [edit EXCEPT !.rows = @ \ {r}]
    /\ Editing /\ UNCHANGED catalog

\* A product is linked to an item of the menu, or to none.
LinkItem(code, item) ==
    /\ Edit /\ product[code] # None
    /\ product' = [product EXCEPT ![code].item = item] /\ UNCHANGED <<category, subcat, edit>>

Die ==
    /\ \/ \E i \in Importers : import[i] # Idle /\ import' = [import EXCEPT ![i] = Idle] /\ UNCHANGED edit
       \/ edit # NoEdit /\ edit' = NoEdit /\ UNCHANGED import
    /\ UNCHANGED <<catalog, sold, mixed, imports, changes>>

Init ==
    /\ product = [c \in Codes |-> None] /\ category = [c \in CatIds |-> IF c \in DOMAIN Categories THEN Categories[c] ELSE None]
    /\ subcat = [s \in SubIds |-> IF s \in DOMAIN Subcategories THEN Subcategories[s] ELSE None]
    /\ ticket = [n \in TicketIds |-> None] /\ line = {} /\ daily = [d \in Days |-> None]
    /\ import = [i \in Importers |-> Idle] /\ edit = NoEdit /\ mixed = FALSE /\ imports = 0 /\ changes = 0

Next ==
    \/ \E i \in Importers : (\E f \in Reports, fixes \in Corrections : Start(i, f, fixes)) \/ ListCatalog(i) \/ Import(i)
    \/ \E c \in Codes :
          \/ \E cat \in CatIds \cup {None}, sub \in SubIds \cup {None}, name \in CategoryNames \cup {None} : EditProduct(c, cat, sub, name)
          \/ Discontinue(c) \/ \E item \in Items \cup {None} : LinkItem(c, item)
    \/ \E c \in CatIds : RemoveCategory(c) \/ \E name \in CategoryNames : CreateCategory(c, name) \/ RenameCategory(c, name)
    \/ \E s \in SubIds : RemoveSub(s)
          \/ \E c \in CatIds, name \in {"s", "t"} : CreateSub(s, c, name) \/ EditSub(s, c, name) \/ EditSub(s, None, name)
    \/ WriteProducts \/ ReadProducts \/ WriteLines \/ SeedCatalog \/ SeedProduct \/ Die

Spec == Init /\ [][Next]_vars

----------------------------------------------------------------------------

LabelsNow(l, products) == IF l.code = None THEN products[l.name].labels ELSE products[l.code].labels

\* An import that reaches its end with nobody else at work - however many died
\* before it, wherever - leaves every ticket of the file as the file has it last,
\* its lines once and no others, each under the labels of the catalogue (commit).
ReportArrives(i) ==
    LET ts == Parsed(import[i].report)
        Latest(n) == ts[Max({k \in DOMAIN ts : ts[k].id = n})]
    IN  \A n \in {t.id : t \in Range(ts)} :
            /\ ticket'[n] = [day |-> Latest(n).day, total |-> Latest(n).total, pay |-> Latest(n).pay]
            /\ LET mine == {l \in line' : l.ticket = n} IN
               /\ Cardinality(mine) = Len(Latest(n).items)
               /\ \A l \in mine : l.amount = Latest(n).items[l.n].amount /\ l.labels = LabelsNow(l, product')

\* Then the total of a day of which the report has every ticket, and each once,
\* is what its tickets sum to, by the means of payment and over all.
DaysAddUp(i) ==
    LET ts == Parsed(import[i].report) IN
    \A d \in {t.day : t \in Range(ts)} :
        LET mine == {n \in TicketIds : ticket'[n] # None /\ ticket'[n].day = d} IN
        /\ mine \subseteq {t.id : t \in Range(ts)}
        /\ \A j, k \in DOMAIN ts : ts[j].id = ts[k].id => j = k
        => /\ daily'[d].total = Total(mine, LAMBDA n : ticket'[n].total) /\ daily'[d].count = Cardinality(mine)
           /\ daily'[d].total = Total(Fields, LAMBDA f : daily'[d].by[f])

\* An edition that reaches its end with nobody else at work has reached the
\* lines: those of a product carry the labels of the product, those of a
\* category that was renamed carry its new name - for the products that are tied
\* to it and on sale (updateCatalog, updateCategory, updateSubcategory).
EditReachesLines ==
    LET kind == edit.on[1]
        id   == edit.on[2]
        OnSale(c) == product[c] # None /\ product[c].on
    IN  \A l \in line' : l.code # None =>
            /\ kind = "product" /\ l.code = id => l.labels = product[id].labels
            /\ kind = "category" /\ OnSale(l.code) /\ product[l.code].cat = id =>
                  l.labels = product[l.code].labels /\ l.labels[1] = category[id].name
            /\ kind = "sub" /\ OnSale(l.code) /\ product[l.code].sub = id /\ product[l.code].cat = subcat[id].cat =>
                  l.labels = product[l.code].labels /\ l.labels[2] = subcat[id].name

\* What the preview says of a product that nobody corrects is what the import
\* gives it, though each finds it out by itself - or both know nothing whole
\* (buildProductsPreview, upsertFromLines).
PreviewTellsLabels(i) ==
    \A c \in DOMAIN import[i].naming \ DOMAIN import[i].fixes :
        LET said  == Proposed(c, import[i].naming[c], Unlabelled)
            given == import'[i].labels[c]
        IN  said = given \/ (Lacking(said) /\ Lacking(given))

\* Reports arrive whole, as the preview said, and lines follow the catalogue.
SalesInOrder ==
    /\ \A i \in Importers : import[i].step = "catalog" /\ import'[i].step = "tickets" /\ ~mixed => PreviewTellsLabels(i)
    /\ \A i \in Importers : import[i].step = "days" /\ daily' # daily /\ ~mixed => ReportArrives(i) /\ DaysAddUp(i)
    /\ edit.step = "lines" /\ edit' = NoEdit /\ line' # line /\ ~mixed => EditReachesLines
=============================================================================
