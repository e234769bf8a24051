----------------------------- MODULE LedgerSync -----------------------------
(***************************************************************************)
(* The ledger of a shop and the entries its closings owe it: every save of a  *)
(* closing deletes its entries and writes them again, taking with them the     *)
(* loose movements that stand for one of them; a resynchronisation does so for *)
(* every closing and can be previewed; missing incomes can be recovered.       *)
(* Row locks are CashPickup's and Settlement's subject: a save is one step.    *)
(***************************************************************************)
EXTENDS Integers, Sequences, FiniteSets, SequencesExt

CONSTANTS
    Closings,     \* names of closings, naturals: those of one day are taken in this order
    Days,         \* business dates, naturals
    Figures,      \* what a closing may say, records with the fields of NoClosing but its day
    CashAccounts, \* accounts the cash of a closing may be deposited in
    SourceAccounts, \* account of the shop's own source, None when no account answers to it
    Loose,        \* movements people and spreadsheets may write, without date
    Amounts,      \* amounts a movement may be corrected to
    MaxRows,      \* bound: movements in the ledger
    MaxSteps,     \* bound: operations
    None

VARIABLES
    closing,      \* rows of cash_closings with their children
    book,         \* live rows of movements, in the order a query returns them
    accounts,     \* the accounts of the cash source and of the own source
    steps

ledgerVars == <<closing, book, accounts, steps>>

\* A closing nobody has saved.
NoClosing == [day |-> 0, cash |-> 0, opening |-> 0, left |-> 0, spent |-> 0, source |-> 0,
              change |-> 0, taker |-> None, picked |-> None]

Saved == {c \in Closings : closing[c] # NoClosing}
Partners == {f.taker : f \in Figures} \ {None}
\* projectBalances lists partners and channels.
Balanced == CashAccounts \cup (SourceAccounts \ {None}) \cup Partners

Init ==
    /\ closing = [c \in Closings |-> NoClosing] /\ book = <<>>
    /\ accounts \in [cash : CashAccounts, source : SourceAccounts]
    /\ steps = 0
-----------------------------------------------------------------------------
Entry(day, from, to, lane, amount) == [day |-> day, from |-> from, to |-> to, lane |-> lane, amount |-> amount]
Row(e, c) == [day |-> e.day, from |-> e.from, to |-> e.to, lane |-> e.lane, amount |-> e.amount, closing |-> c]

CashIncome(f) == f.cash - f.opening + f.spent
CashTaken(f)  == IF f.cash > f.left THEN f.cash - f.left ELSE 0
\* resolveWithdrawalBusinessDate: the day of the pickup once it is confirmed.
WithdrawnOn(f) == IF f.picked = None THEN f.day ELSE f.picked

\* planFromClosing, in its order; an entry without amount or account is not written.
Plan(f) ==
    SelectSeq(<<Entry(f.day, "ingreso", accounts.cash, "cash_income", CashIncome(f)),
                Entry(f.day, "ingreso", accounts.source, "card", f.source),
                Entry(WithdrawnOn(f), accounts.cash, f.taker, "cash_withdrawal", CashTaken(f)),
                Entry(f.day, "socio", accounts.cash, "cash_change", f.change),
                Entry(f.day, accounts.cash, "egreso", "expense", f.spent)>>,
              LAMBDA e : e.amount > 0 /\ e.to # None)

\* movementExactKey and sameMovementEconomics, sameWithdrawalEconomics, the same lane.
SameEconomics(m, e)  == m.from = e.from /\ m.to = e.to /\ m.amount = e.amount
SameWithdrawal(m, e) == m.lane = "cash_withdrawal" /\ e.lane = "cash_withdrawal" /\ m.to = e.to /\ m.amount = e.amount
SameLane(m, e)       == m.lane = e.lane /\ m.from = e.from /\ m.to = e.to

Lowest(S) == CHOOSE i \in S : \A j \in S : i <= j
\* The first of a list of candidate sets that has a member, 0 when none has.
FirstOf(sets) ==
    LET found == SelectSeq(sets, LAMBDA S : S # {}) IN IF found = <<>> THEN 0 ELSE Lowest(Head(found))
Exact(b, S, e) == {i \in S : SameEconomics(b[i], e) /\ b[i].lane = e.lane}
Same(b, S, e)  == {i \in S : SameEconomics(b[i], e)}
Taken(b, S, e) == {i \in S : SameWithdrawal(b[i], e)}
Lane(b, S, e)  == {i \in S : SameLane(b[i], e)}

\* findCashShortcutOrphan: an income paid straight to the partner is the cash of the day and its
\* withdrawal at once: an exact amount first, else the only one of that day.
Shortcut(b, pool, partner, targets) ==
    LET candidates == {i \in pool : b[i].from = "ingreso" /\ b[i].to = partner}
        worth(t)   == {i \in candidates : t > 0 /\ b[i].amount = t} IN
    FirstOf([n \in 1..Len(targets) |-> worth(targets[n])]
            \o <<IF Cardinality(candidates) = 1 THEN candidates ELSE {}>>)

ShortcutLanes == {"cash_income", "cash_withdrawal"}
Lanes(plan) == {plan[i].lane : i \in DOMAIN plan}
PlannedAmount(plan, lane) ==
    IF lane \in Lanes(plan) THEN plan[CHOOSE i \in DOMAIN plan : plan[i].lane = lane].amount ELSE 0
Targets(f, plan) == <<PlannedAmount(plan, "cash_income"), PlannedAmount(plan, "cash_withdrawal"), f.cash>>
Orphans(b) == {i \in DOMAIN b : b[i].closing = None}
Own(b, c)  == {i \in DOMAIN b : b[i].closing = c}
OnDays(b, S, days) == {i \in S : b[i].day \in days}

\* absorbOrphanPlanMatches: the loose movements a plan takes the place of.
Absorbed(b, f) ==
    LET plan == Plan(f)
        cut  == IF ShortcutLanes \subseteq Lanes(plan)
                THEN Shortcut(b, OnDays(b, Orphans(b), {f.day}), f.taker, Targets(f, plan)) ELSE 0
        take(gone, e) ==
            LET pool == OnDays(b, Orphans(b) \ gone, {e.day, f.day})
                hit  == FirstOf(<<Exact(b, pool, e), Same(b, pool, e), Taken(b, pool, e), Lane(b, pool, e)>>) IN
            IF cut # 0 /\ e.lane \in ShortcutLanes THEN gone ELSE gone \cup ({hit} \ {0}) IN
    FoldLeft(take, {cut} \ {0}, plan)

Without(b, gone) == LET kept == SetToSortSeq(DOMAIN b \ gone, <) IN [i \in DOMAIN kept |-> b[kept[i]]]

\* syncFromClosing
Sync(b, c, f) ==
    LET plan == Plan(f) IN
    Without(b, Absorbed(b, f) \cup Own(b, c)) \o [i \in DOMAIN plan |-> Row(plan[i], c)]

ByDate == SetToSortSeq(Saved, LAMBDA c, d : closing[c].day < closing[d].day
                                            \/ (closing[c].day = closing[d].day /\ c < d))
ResyncAll(b) == FoldLeft(LAMBDA x, c : Sync(x, c, closing[c]), b, ByDate)
-----------------------------------------------------------------------------
\* previewResyncMovements: what each planned entry finds in the ledger.
Effect(e) == [a \in Balanced |-> (IF e.to = a THEN e.amount ELSE 0) - (IF e.from = a THEN e.amount ELSE 0)]
Plus(x, y)  == [a \in Balanced |-> x[a] + y[a]]
Minus(x, y) == [a \in Balanced |-> x[a] - y[a]]
NoEffect == [a \in Balanced |-> 0]

\* A withdrawal stays as it is when it leaves the account the plan says.
AnyOrigin(m, e)  == TRUE
SameOrigin(m, e) == m.from = e.from

\* One planned entry: its own rows first, then loose movements of its days.
Compare(b, c, cut, acc, e) ==
    LET own   == Own(b, c) \cap acc.free
        loose == OnDays(b, Orphans(b) \cap acc.free, {e.day, closing[c].day})
        shortcut == IF cut # 0 /\ e.lane \in ShortcutLanes THEN cut ELSE 0
        same   == FirstOf(<<Exact(b, own, e), Exact(b, loose, e), Same(b, own, e), Same(b, loose, e)>>)
        taken  == FirstOf(<<Taken(b, own, e), Taken(b, loose, e)>>)
        \* The cash of a day counted before openings were subtracted is left as it is.
        legacy == FirstOf(<<{i \in Lane(b, own, e) : e.lane = "cash_income" /\ b[i].amount = closing[c].cash}>>)
        other  == FirstOf(<<Lane(b, own, e), Lane(b, loose, e), {i \in own : b[i].lane = e.lane}>>)
        candidates == <<shortcut, same, taken, legacy, other>>
        hit    == FirstOf([n \in 1..5 |-> {candidates[n]} \ {0}])
        kept   == hit = shortcut \/ hit = same \/ (hit = taken /\ SameOrigin(b[hit], e)) \/ hit = legacy IN
    [free  |-> acc.free \ {hit},
     delta |-> IF hit = 0 THEN Plus(acc.delta, Effect(e))
               ELSE IF kept THEN acc.delta ELSE Plus(Minus(acc.delta, Effect(b[hit])), Effect(e))]

Preview(b) ==
    LET start == [free |-> {i \in DOMAIN b : b[i].closing # None \/ b[i].lane # "dividend"}, delta |-> NoEffect]
        visit(acc, c) ==
            LET plan == Plan(closing[c])
                first == IF "cash_income" \in Lanes(plan) THEN closing[c].day ELSE WithdrawnOn(closing[c])
                cut == IF "cash_withdrawal" \in Lanes(plan)
                       THEN Shortcut(b, OnDays(b, Orphans(b) \cap acc.free, {first, closing[c].day}),
                                     closing[c].taker, Targets(closing[c], plan)) ELSE 0
                seen == FoldLeft(LAMBDA x, e : Compare(b, c, cut, x, e), acc, plan)
                removed == {i \in Own(b, c) \cap seen.free : b[i].lane # "dividend"} IN
            [seen EXCEPT !.delta = FoldLeft(LAMBDA x, i : Minus(x, Effect(b[i])), @, SetToSeq(removed))] IN
    FoldLeft(visit, start, ByDate)

Balances(b) == FoldLeft(LAMBDA x, m : Plus(x, Effect(m)), NoEffect, b)
-----------------------------------------------------------------------------
\* expectedIncomes: what the closings say came in.
Incomes(c) == SelectSeq(Plan(closing[c]), LAMBDA e : e.from = "ingreso")
Expected == FlattenSeq([n \in DOMAIN ByDate |-> [i \in DOMAIN Incomes(ByDate[n]) |-> Row(Incomes(ByDate[n])[i], ByDate[n])]])

\* A movement answers for one expected income.
UnusedRows(b, used)   == DOMAIN b \ used

\* reloadMissingIncomes: each expected income takes one movement of its day and account.
RecoveryItems(b) ==
    LET match(acc, e) ==
            LET pool == {i \in UnusedRows(b, acc.used) : b[i].from = "ingreso" /\ b[i].day = e.day /\ b[i].to = e.to}
                hit  == FirstOf(<<{i \in pool : b[i].amount = e.amount}, pool>>)
                status == IF hit = 0 THEN "new" ELSE IF b[hit].amount = e.amount THEN "exists" ELSE "mismatch" IN
            [used |-> acc.used \cup ({hit} \ {0}),
             items |-> Append(acc.items, [entry |-> e, status |-> status, row |-> hit])] IN
    FoldLeft(match, [used |-> {}, items |-> <<>>], Expected).items

\* The ledger once the chosen items are written: new incomes are added, wrong ones corrected.
Written(b, items) ==
    LET news  == SelectSeq(items, LAMBDA x : x.status = "new")
        wrong == SelectSeq(items, LAMBDA x : x.status = "mismatch")
        fix(acc, x) == [acc EXCEPT ![x.row].amount = x.entry.amount, ![x.row].lane = x.entry.lane,
                                   ![x.row].closing = x.entry.closing] IN
    FoldLeft(fix, b, wrong) \o [i \in DOMAIN news |-> news[i].entry]
-----------------------------------------------------------------------------
Step(b) == steps < MaxSteps /\ steps' = steps + 1 /\ Len(b) <= MaxRows /\ book' = b

\* A closing is created, or edited, and its entries are written again.
Save(c, f, day) ==
    LET saved == [day |-> day] @@ f IN
    /\ closing' = [closing EXCEPT ![c] = saved] /\ Step(Sync(book, c, saved))
    /\ UNCHANGED accounts

\* remove: the entries go with the closing.
RemoveClosing(c) ==
    /\ c \in Saved /\ closing' = [closing EXCEPT ![c] = NoClosing] /\ Step(Without(book, Own(book, c)))
    /\ UNCHANGED accounts

\* A movement of the ledger or of a spreadsheet, for no closing.
AddLoose(e, day) == Step(Append(book, Row([day |-> day] @@ e, None))) /\ UNCHANGED <<closing, accounts>>

Correct(i, amount) ==
    /\ book[i].amount # amount /\ Step([book EXCEPT ![i].amount = amount])
    /\ UNCHANGED <<closing, accounts>>

\* resyncMovements of chosen closings: here one, all of them are several.
Resync(c) == c \in Saved /\ Step(Sync(book, c, closing[c])) /\ UNCHANGED <<closing, accounts>>

\* commitMissingIncomes: without a choice only what is missing is written.
Recover(all) ==
    LET items == RecoveryItems(book)
        chosen == IF all THEN items ELSE SelectSeq(items, LAMBDA x : x.status = "new") IN
    Step(Written(book, chosen)) /\ UNCHANGED <<closing, accounts>>

\* The accounts of the sources of the shop are changed; nothing is written again.
Configure(cash, source) ==
    /\ accounts' = [cash |-> cash, source |-> source] /\ accounts' # accounts /\ Step(book)
    /\ UNCHANGED closing

Next ==
    \/ \E c \in Closings, f \in Figures, day \in Days : Save(c, f, day)
    \/ \E c \in Closings : RemoveClosing(c) \/ Resync(c)
    \/ \E e \in Loose, day \in Days : AddLoose(e, day)
    \/ \E i \in DOMAIN book, amount \in Amounts : Correct(i, amount)
    \/ \E all \in BOOLEAN : Recover(all)
    \/ \E cash \in CashAccounts, source \in SourceAccounts : Configure(cash, source)

Spec == Init /\ [][Next]_ledgerVars
-----------------------------------------------------------------------------
\* "Idempotente: cada cierre borra y regenera sus movimientos": a second resynchronisation changes
\* no balance.
ResyncIdempotent == LET once == ResyncAll(book) IN Balances(ResyncAll(once)) = Balances(once)

\* A loose movement is one the closing's own entries leave room for: it stands for an entry the
\* closing does not have, and one paid straight to the partner for both entries of the cash.
RoomFor(m, c) ==
    LET plan == Plan(closing[c])
        lanes == {book[i].lane : i \in Own(book, c)} IN
    /\ \A k \in DOMAIN plan :
          (/\ m.day \in {plan[k].day, closing[c].day}
           /\ SameEconomics(m, plan[k]) \/ SameLane(m, plan[k]) \/ SameWithdrawal(m, plan[k])) => plan[k].lane \notin lanes
    /\ (m.day \in {closing[c].day, WithdrawnOn(closing[c])} /\ m.from = "ingreso" /\ m.to = closing[c].taker) =>
          /\ lanes \cap ShortcutLanes = {}
          /\ m.amount = CashIncome(closing[c]) /\ m.amount = CashTaken(closing[c])
\* The preview does not announce that the counted cash will be written as an income again.
Counted(c) == \E i \in Own(book, c) : /\ book[i].lane = "cash_income" /\ book[i].amount = closing[c].cash
                                      /\ closing[c].cash # CashIncome(closing[c])

\* Where loose movements stand for missing entries only, what the preview of a resynchronisation
\* announces for each account is what it then does.
PreviewTellsResync ==
    (\A c \in Saved : ~Counted(c) /\ \A i \in Orphans(book) : RoomFor(book[i], c))
        => Plus(Balances(book), Preview(book).delta) = Balances(ResyncAll(book))

\* After the missing incomes are recovered and the wrong ones corrected every income of a closing
\* is found, each in a movement of its own.
RecoveryConverges ==
    LET after == RecoveryItems(Written(book, RecoveryItems(book))) IN
    /\ \A i \in DOMAIN after : after[i].status = "exists"
    /\ \A i, j \in DOMAIN after : i # j => after[i].row # after[j].row
=============================================================================
