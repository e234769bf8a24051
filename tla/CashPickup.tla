------------------------------ MODULE CashPickup ------------------------------
(***************************************************************************)
(* "A Retirar": the cash of a closing (cierre de caja) that nobody has taken *)
(* home yet.  Saving a closing regenerates its ledger entries and its        *)
(* pending withdrawal (closings.service, closing-movements-sync.service,     *)
(* cash-withdrawals.service); somebody later picks a batch of pending        *)
(* withdrawals up, less the expenses paid out of the drawer meanwhile.       *)
(*                                                                           *)
(* Every request runs on its own connection.  A transaction is MySQL's at    *)
(* READ COMMITTED: reads see committed rows (and the transaction's own       *)
(* writes), writes lock their row until the end, SELECT ... FOR UPDATE too.  *)
(* The uncommitted writes of a request are kept in wClosing, wPending, wBook *)
(* and wOffset and are published by Commit.                                  *)
(*                                                                           *)
(* One ledger row set per closing (`book'): the cash income, the withdrawal  *)
(* towards the person who took the money, and what is credited to the        *)
(* accounts that the closing's own-account sources name (cards, delivery     *)
(* apps...).  The opening amount, the change left in the drawer and the      *)
(* expenses of the closing itself are zero: they only shift both sides.      *)
(***************************************************************************)
EXTENDS Integers, FiniteSets, FiniteSetsExt, Functions, CashAllocation

CONSTANTS
    Closings,    \* closings of one shop: naturals, in businessDate order
    PendingIds,  \* ids of cash_pending_withdrawals rows (UUIDs: any order)
    Expenses,    \* expense movements out of the drawer that have no closing
    People,      \* users with a partner account
    Requests,    \* HTTP requests; each runs one operation
    Ops,         \* operations the requests may run
    Alone,       \* those that overlap with no other request
    Figures,     \* a new closing: <<cashAmount, cashWithdrawn, sourceAmounts>>
    Edits,       \* partial DTOs of an update: functions on a subset of Fields
    Spent,       \* amounts of an expense
    Voidable,    \* expenses that may be voided
    NoOne,       \* no person, no request
    NoRow        \* not written by this transaction

\* "update" is also a lock of the closing, which edits none of these columns.
AllOps == {"update", "remove", "resync", "unlock", "pick"}
Fields == {"counted", "withdrawn", "who", "pickup", "state"}

ASSUME CashPickupAssumption ==
    /\ Closings \subseteq Nat /\ Closings # {} /\ PendingIds \subseteq Nat /\ PendingIds # {}
    /\ Ops \subseteq AllOps /\ Alone \subseteq AllOps
    /\ NoOne \notin People /\ NoOne \notin Requests
    /\ Spent \subseteq Nat /\ Voidable \subseteq Expenses
    /\ Figures \subseteq (Nat \ {0}) \X Nat \X Nat
    /\ \A d \in Edits : /\ "counted" \in DOMAIN d => d["counted"] \in Nat \ {0}
                        /\ "withdrawn" \in DOMAIN d => d["withdrawn"] \in Nat
                        /\ "who" \in DOMAIN d => d["who"] \in People

VARIABLES
    closing, pending, book, offset, expense,  \* committed rows
    clock,                                    \* createdAt of the next row
    cLock, pLock, bLock,                      \* who holds the lock of a row
    wClosing, wPending, wBook, wOffset,       \* uncommitted writes per request
    pc, req, view                             \* progress and locals per request

tables  == <<closing, pending, book, offset>>
locks   == <<cLock, pLock, bLock>>
buffers == <<wClosing, wPending, wBook, wOffset>>
vars    == <<tables, expense, clock, locks, buffers, pc, req, view>>

ClosingRow == [state : {"absent", "live", "removed"}, counted : Nat, withdrawn : Nat,
               own : Nat, who : People \cup {NoOne}, pickup : Nat]
PendingRow == [state : {"absent", "PENDING", "PICKED", "inactive"},
               closing : Closings, amount : Nat, at : Nat]
BookRow    == [income : Nat, out : Nat, own : Nat, to : People \cup {NoOne}]
ExpenseRow == [state : {"absent", "live", "void"}, amount : Nat, at : Nat]

ASSUME NoRowAssumption ==
    NoRow \notin ClosingRow /\ NoRow \notin PendingRow /\ NoRow \notin BookRow

NoBook == [income |-> 0, out |-> 0, own |-> 0, to |-> NoOne]
NoView == [items |-> {}, take |-> <<>>, charged |-> <<>>]

\* `c' is the closing the request is working on and `entity' that row as it loaded
\* and changed it; `dirty' the columns its save will write.  `rows' are the pending
\* rows it has read and not dealt with yet, `picked' whether c has a PICKED one.
\* `ids' and `who' are the body of a pick, `cur' the row it is marking.
Locals ==
    [op : AllOps, c : Closings, entity : ClosingRow, dirty : SUBSET Fields,
     rows : SUBSET PendingIds, picked : BOOLEAN,
     ids : SUBSET PendingIds, who : People \cup {NoOne}, cur : PendingIds]

Steps == {"idle", "lockClosing", "loadClosing", "lockBook", "readPending", "writePending",
          "compareClosing", "saveClosing", "listPending", "allocate", "lockPending",
          "checkPending", "readClosing", "diffClosing", "updateClosing", "commit", "done"}

\* Steps at which the request has no transaction open.
Outside == {"idle", "lockClosing", "loadClosing", "listPending", "allocate", "done"}

TypeOK ==
    /\ closing \in [Closings -> ClosingRow]
    /\ pending \in [PendingIds -> PendingRow]
    /\ book \in [Closings -> BookRow]
    /\ offset \in [PendingIds -> [Expenses -> Nat]]
    /\ expense \in [Expenses -> ExpenseRow]
    /\ clock \in Nat
    /\ cLock \in [Closings -> Requests \cup {NoOne}]
    /\ pLock \in [PendingIds -> Requests \cup {NoOne}]
    /\ bLock \in [Closings -> Requests \cup {NoOne}]
    /\ wClosing \in [Requests -> [Closings -> ClosingRow \cup {NoRow}]]
    /\ wPending \in [Requests -> [PendingIds -> PendingRow \cup {NoRow}]]
    /\ wBook \in [Requests -> [Closings -> BookRow \cup {NoRow}]]
    /\ wOffset \in [Requests -> [PendingIds -> [Expenses -> Nat]]]
    /\ pc \in [Requests -> Steps]
    /\ req \in [Requests -> Locals]

AbsentClosing == [state |-> "absent", counted |-> 0, withdrawn |-> 0, own |-> 0,
                  who |-> NoOne, pickup |-> 0]
AnyClosing    == CHOOSE c \in Closings : TRUE
AnyPending    == CHOOSE x \in PendingIds : TRUE
NoLocals      == [op |-> "update", c |-> AnyClosing, entity |-> AbsentClosing, dirty |-> {},
                  rows |-> {}, picked |-> FALSE, ids |-> {}, who |-> NoOne, cur |-> AnyPending]
NoWrites(S)   == [s \in S |-> NoRow]
NoOffsets     == [x \in PendingIds |-> [e \in Expenses |-> 0]]
Unlocked(S)   == [s \in S |-> NoOne]

Init ==
    /\ closing = [c \in Closings |-> AbsentClosing]
    /\ pending = [x \in PendingIds |->
                    [state |-> "absent", closing |-> AnyClosing, amount |-> 0, at |-> 0]]
    /\ book = [c \in Closings |-> NoBook]
    /\ offset = NoOffsets
    /\ expense = [e \in Expenses |-> [state |-> "absent", amount |-> 0, at |-> 0]]
    /\ clock = 0
    /\ cLock = Unlocked(Closings) /\ pLock = Unlocked(PendingIds) /\ bLock = Unlocked(Closings)
    /\ wClosing = [p \in Requests |-> NoWrites(Closings)]
    /\ wPending = [p \in Requests |-> NoWrites(PendingIds)]
    /\ wBook = [p \in Requests |-> NoWrites(Closings)]
    /\ wOffset = [p \in Requests |-> NoOffsets]
    /\ pc = [p \in Requests |-> "idle"]
    /\ req = [p \in Requests |-> NoLocals]
    /\ view = [p \in Requests |-> NoView]

-----------------------------------------------------------------------------
(* What is derived from a closing                                            *)

\* computeCashTake: the explicit withdrawal, otherwise what was counted.
Take(row) == IF row.withdrawn > 0 THEN row.withdrawn ELSE row.counted

\* planFromClosing: the income, and the withdrawal once somebody takes it.
Plan(row) == [income |-> row.counted,
              out    |-> IF row.who = NoOne THEN 0 ELSE Take(row),
              own    |-> row.own,
              to     |-> row.who]

\* The same on an entity loaded without its sourceAmounts: the legacy branch, which
\* knows channels but not the account of each source.
PlanWithoutSources(row) == [Plan(row) EXCEPT !.own = 0]

RowsOf(c, states) == {x \in PendingIds : pending[x].closing = c /\ pending[x].state \in states}

\* Ids no row has, committed or not.
FreeIds == {x \in PendingIds : /\ pending[x].state = "absent"
                               /\ \A q \in Requests : wPending[q][x] = NoRow}

NewPending(c, amount) == [state |-> "PENDING", closing |-> c, amount |-> amount, at |-> clock]

\* The row as transaction p sees it: its own write, or the committed one.
Seen(written, table, k) == IF written[k] = NoRow THEN table[k] ELSE written[k]

-----------------------------------------------------------------------------
(* Transactions                                                              *)

Goto(p, step) == pc' = [pc EXCEPT ![p] = step]

FreeOrMine(lock, k, p) == lock[k] \in {NoOne, p}

\* Mutant: the locks of a finished transaction stay.
NeverReleased(lock, p) == lock

Released(lock, p) == [k \in DOMAIN lock |-> IF lock[k] = p THEN NoOne ELSE lock[k]]

\* The connection goes back to the pool: locks released, nothing left to write.
EndOfTransaction(p) ==
    /\ cLock' = Released(cLock, p) /\ pLock' = Released(pLock, p) /\ bLock' = Released(bLock, p)
    /\ wClosing' = [wClosing EXCEPT ![p] = NoWrites(Closings)]
    /\ wPending' = [wPending EXCEPT ![p] = NoWrites(PendingIds)]
    /\ wBook' = [wBook EXCEPT ![p] = NoWrites(Closings)]
    /\ wOffset' = [wOffset EXCEPT ![p] = NoOffsets]
    /\ pc' = [pc EXCEPT ![p] = "done"]
    /\ req' = [req EXCEPT ![p] = NoLocals]
    /\ view' = [view EXCEPT ![p] = NoView]

Rollback(p) == EndOfTransaction(p) /\ UNCHANGED <<tables, expense, clock>>

Commit(p) ==
    /\ pc[p] = "commit"
    /\ closing' = [c \in Closings |-> Seen(wClosing[p], closing, c)]
    /\ pending' = [x \in PendingIds |-> Seen(wPending[p], pending, x)]
    /\ book' = [c \in Closings |-> Seen(wBook[p], book, c)]
    /\ offset' = [x \in PendingIds |-> [e \in Expenses |->
                    IF wOffset[p][x][e] > 0 THEN wOffset[p][x][e] ELSE offset[x][e]]]
    /\ EndOfTransaction(p)
    /\ UNCHANGED <<expense, clock>>

\* The transaction dies: a lost connection, a killed process, a lock wait timeout.
Die(p) == pc[p] \notin Outside /\ Rollback(p)

-----------------------------------------------------------------------------
(* Statements that are a transaction of their own                            *)

\* create: nobody can wait for, or see, the new rows before the COMMIT.
CreateClosing(c, fig, who) ==
    /\ closing[c].state = "absent"
    /\ LET row == [state |-> "live", counted |-> fig[1], withdrawn |-> fig[2], own |-> fig[3],
                   who |-> who, pickup |-> 0]
       IN  /\ closing' = [closing EXCEPT ![c] =
                IF who = NoOne THEN [row EXCEPT !.pickup = Take(row)] ELSE row]
           /\ book' = [book EXCEPT ![c] = Plan(row)]
           /\ IF who = NoOne
                THEN \E x \in FreeIds :
                       pending' = [pending EXCEPT ![x] = NewPending(c, Take(row))]
                ELSE pending' = pending
    /\ clock' = clock + 1
    /\ UNCHANGED <<offset, expense, locks, buffers, pc, req, view>>

\* movements.create / movements.remove of a drawer expense without a closing.
RecordExpense(e, amount) ==
    /\ expense[e].state = "absent"
    /\ expense' = [expense EXCEPT ![e] = [state |-> "live", amount |-> amount, at |-> clock]]
    /\ clock' = clock + 1
    /\ UNCHANGED <<tables, locks, buffers, pc, req, view>>

VoidExpense(e) ==
    /\ expense[e].state = "live"
    /\ expense' = [expense EXCEPT ![e].state = "void"]
    /\ UNCHANGED <<tables, clock, locks, buffers, pc, req, view>>

-----------------------------------------------------------------------------
(* Requests                                                                  *)

AtWork(p) == pc[p] \notin {"idle", "done"}

\* What overlaps with nothing waits for everybody, and everybody for it.
MayStart(p, op) ==
    \A q \in Requests \ {p} : AtWork(q) => op \notin Alone /\ req[q].op \notin Alone

StartOnClosing(p, c, op) ==
    /\ pc[p] = "idle" /\ op \in Ops /\ MayStart(p, op) /\ closing[c].state = "live"
    /\ Goto(p, IF op \in {"resync", "unlock"} THEN "loadClosing" ELSE "lockClosing")
    /\ req' = [req EXCEPT ![p].op = op, ![p].c = c]
    /\ UNCHANGED <<tables, expense, clock, locks, buffers, view>>

\* pick: the ids must be active PENDING rows (404 otherwise).
StartPick(p, ids, who) ==
    /\ pc[p] = "idle" /\ "pick" \in Ops /\ MayStart(p, "pick") /\ ids # {}
    /\ \A x \in ids : pending[x].state = "PENDING"
    /\ Goto(p, "listPending")
    /\ req' = [req EXCEPT ![p].op = "pick", ![p].ids = ids, ![p].who = who]
    /\ UNCHANGED <<tables, expense, clock, locks, buffers, view>>

\* `dto.field ?? row.field': columns can be changed, not cleared.
Patch(row, dto) ==
    [row EXCEPT !.counted   = IF "counted" \in DOMAIN dto THEN dto["counted"] ELSE @,
                !.withdrawn = IF "withdrawn" \in DOMAIN dto THEN dto["withdrawn"] ELSE @,
                !.who       = IF "who" \in DOMAIN dto THEN dto["who"] ELSE @]

\* update and remove: SELECT ... FOR UPDATE, then the closing's own columns.
LockClosing(p) ==
    /\ pc[p] = "lockClosing"
    /\ LET c == req[p].c IN
        /\ cLock[c] = NoOne
        /\ IF closing[c].state # "live"
             THEN Rollback(p)
             ELSE \E dto \in Edits :
                    LET row == IF req[p].op = "remove"
                                 THEN [closing[c] EXCEPT !.state = "removed"]
                                 ELSE Patch(closing[c], dto)
                    IN  /\ cLock' = [cLock EXCEPT ![c] = p]
                        /\ wClosing' = [wClosing EXCEPT ![p][c] = row]
                        /\ req' = [req EXCEPT ![p].entity = row]
                        /\ Goto(p, "lockBook")
                        /\ UNCHANGED <<tables, expense, clock, pLock, bLock, wPending, wBook,
                                       wOffset, view>>

\* resync (syncMovements without a manager) and unlock: a plain SELECT, no lock.
LoadClosing(p) ==
    /\ pc[p] = "loadClosing"
    /\ LET c == req[p].c IN
        IF closing[c].state # "live"
          THEN Rollback(p)
          ELSE /\ req' = [req EXCEPT ![p].entity = closing[c]]
               /\ Goto(p, IF req[p].op = "unlock" THEN "compareClosing" ELSE "lockBook")
               /\ UNCHANGED <<tables, expense, clock, locks, buffers, view>>

\* syncFromClosing / removeFromClosing: DELETE of the closing's ledger rows (which
\* waits for whoever deleted or inserted some) and INSERT of the plan.
LockBook(p) ==
    /\ pc[p] = "lockBook" /\ req[p].op # "pick"
    /\ LET c == req[p].c IN
        /\ bLock[c] = NoOne
        /\ bLock' = [bLock EXCEPT ![c] = p]
        /\ wBook' = [wBook EXCEPT ![p][c] =
                IF req[p].op = "remove" THEN NoBook ELSE Plan(req[p].entity)]
    /\ Goto(p, "readPending")
    /\ UNCHANGED <<tables, expense, clock, cLock, pLock, wClosing, wPending, wOffset, req, view>>

\* Mutant: the lookup of the offer does not filter by status.
ReadPendingOfAnyStatus(p) ==
    /\ pc[p] = "readPending"
    /\ LET rows == RowsOf(req[p].c, {"PENDING", "PICKED"})
       IN  req' = [req EXCEPT ![p].rows = rows, ![p].picked = FALSE]
    /\ Goto(p, "writePending")
    /\ UNCHANGED <<tables, expense, clock, locks, buffers, view>>

\* cashWithdrawals.syncFromClosing looks for one PENDING row and for a PICKED one;
\* cancelForClosing for every active row.
ReadPending(p) ==
    /\ pc[p] = "readPending"
    /\ LET c      == req[p].c
           offers == RowsOf(c, {"PENDING"})
           taken  == RowsOf(c, {"PICKED"})
       IN  \E rows \in SUBSET (offers \cup taken) :
            /\ IF req[p].op = "remove"
                 THEN rows = offers \cup taken
                 ELSE /\ rows \subseteq offers
                      /\ IF offers = {} THEN rows = {} ELSE \E x \in offers : rows = {x}
            /\ req' = [req EXCEPT ![p].rows = rows, ![p].picked = (taken # {})]
    /\ Goto(p, "writePending")
    /\ UNCHANGED <<tables, expense, clock, locks, buffers, view>>

WritePendingRow(p, x, row) ==
    /\ FreeOrMine(pLock, x, p)
    /\ pLock' = [pLock EXCEPT ![x] = p]
    /\ wPending' = [wPending EXCEPT ![p][x] = row]

\* Mutant: the PICKED row is not looked for.
NothingToOfferIgnoresPicked(p) == req[p].entity.who # NoOne \/ Take(req[p].entity) = 0

\* Nothing to offer: the cash was picked up, somebody has it, or there is none.
NothingToOffer(p) == req[p].picked \/ req[p].entity.who # NoOne \/ Take(req[p].entity) = 0

\* Mutant: the column is moved by the difference instead of being set.
PickupMovedByDifference(p) == req[p].entity.pickup - Take(req[p].entity)

\* cashPendingPickup after the three branches of syncFromClosing.
PickupAfter(p) ==
    IF req[p].picked THEN 0
    ELSE IF req[p].entity.who # NoOne THEN req[p].entity.pickup
    ELSE Take(req[p].entity)

\* cashWithdrawals.syncFromClosing: deactivate, update or create the offer (a save
\* without changed columns locks nothing), then save cashPendingPickup.
WriteOffer(p) ==
    /\ pc[p] = "writePending" /\ req[p].op \in {"update", "resync"}
    /\ LET c == req[p].c
           take == Take(req[p].entity)
           entity == [req[p].entity EXCEPT !.pickup = PickupAfter(p)]
           saves == entity # req[p].entity
       IN  /\ \/ /\ NothingToOffer(p)
                 /\ \E x \in req[p].rows :
                      WritePendingRow(p, x, [pending[x] EXCEPT !.state = "inactive"])
                 /\ UNCHANGED clock
              \/ /\ ~NothingToOffer(p)
                 /\ \E x \in req[p].rows :
                      /\ pending[x].amount # take
                      /\ WritePendingRow(p, x, [pending[x] EXCEPT !.amount = take])
                 /\ UNCHANGED clock
              \/ /\ \/ NothingToOffer(p) /\ req[p].rows = {}
                    \/ ~NothingToOffer(p) /\ \E x \in req[p].rows : pending[x].amount = take
                 /\ UNCHANGED <<pLock, wPending, clock>>
              \/ /\ ~NothingToOffer(p) /\ req[p].rows = {}
                 /\ \E x \in FreeIds : WritePendingRow(p, x, NewPending(c, take))
                 /\ clock' = clock + 1
           /\ req' = [req EXCEPT ![p].entity = entity]
           /\ IF saves /\ req[p].op = "update"
                THEN wClosing' = [wClosing EXCEPT ![p][c] = entity]
                ELSE UNCHANGED wClosing
           /\ Goto(p, IF saves /\ req[p].op = "resync" THEN "compareClosing" ELSE "commit")
    /\ UNCHANGED <<tables, expense, cLock, bLock, wBook, wOffset, view>>

\* Mutant: removing a closing leaves its pending withdrawal alone.
CancelNothing(p) ==
    /\ pc[p] = "writePending" /\ req[p].op = "remove"
    /\ Goto(p, "commit")
    /\ UNCHANGED <<tables, expense, clock, locks, buffers, req, view>>

\* cancelForClosing: one row after the other.
CancelPending(p) ==
    /\ pc[p] = "writePending" /\ req[p].op = "remove"
    /\ IF req[p].rows = {}
         THEN Goto(p, "commit") /\ UNCHANGED <<pLock, wPending, req>>
         ELSE \E x \in req[p].rows :
                /\ WritePendingRow(p, x, [pending[x] EXCEPT !.state = "inactive"])
                /\ req' = [req EXCEPT ![p].rows = @ \ {x}]
                /\ UNCHANGED pc
    /\ UNCHANGED <<tables, expense, clock, cLock, bLock, wClosing, wBook, wOffset, view>>

\* The columns in which a loaded entity differs from the row of today.
Changed(a, b) ==
    {f \in Fields : \/ f = "counted" /\ a.counted # b.counted
                    \/ f = "withdrawn" /\ a.withdrawn # b.withdrawn
                    \/ f = "who" /\ a.who # b.who
                    \/ f = "pickup" /\ a.pickup # b.pickup
                    \/ f = "state" /\ a.state # b.state}

\* An UPDATE of the columns D of a row.
WithColumns(now, new, D) ==
    [state     |-> IF "state" \in D THEN new.state ELSE now.state,
     counted   |-> IF "counted" \in D THEN new.counted ELSE now.counted,
     withdrawn |-> IF "withdrawn" \in D THEN new.withdrawn ELSE now.withdrawn,
     own       |-> now.own,
     who       |-> IF "who" \in D THEN new.who ELSE now.who,
     pickup    |-> IF "pickup" \in D THEN new.pickup ELSE now.pickup]

\* resync and unlock save the closing they loaded without a lock, as it was then.  An
\* unlock writes the status as well, and regenerates neither the ledger nor the offer.
CompareClosing(p) ==
    /\ pc[p] = "compareClosing"
    /\ req' = [req EXCEPT ![p].dirty = Changed(req[p].entity, closing[req[p].c])]
    /\ Goto(p, "saveClosing")
    /\ UNCHANGED <<tables, expense, clock, locks, buffers, view>>

SaveClosing(p) ==
    /\ pc[p] = "saveClosing"
    /\ LET c == req[p].c IN
        /\ cLock[c] = NoOne
        /\ cLock' = [cLock EXCEPT ![c] = p]
        /\ wClosing' = [wClosing EXCEPT ![p][c] =
                WithColumns(closing[c], req[p].entity, req[p].dirty)]
    /\ Goto(p, "commit")
    /\ UNCHANGED <<tables, expense, clock, pLock, bLock, wPending, wBook, wOffset, req, view>>

-----------------------------------------------------------------------------
(* pick                                                                      *)

\* computePendingView, first half: PENDING rows; those of a closing that has a PICKED
\* row are orphans, deactivated here and now, outside any transaction.
ListPending(p) ==
    /\ pc[p] = "listPending"
    /\ LET offers  == {x \in PendingIds : pending[x].state = "PENDING"}
           orphans == {x \in offers : RowsOf(pending[x].closing, {"PICKED"}) # {}}
           items   == {[id |-> x, day |-> pending[x].closing, at |-> pending[x].at,
                        amount |-> pending[x].amount] : x \in offers \ orphans}
       IN  /\ \A x \in orphans : pLock[x] = NoOne /\ cLock[pending[x].closing] = NoOne
           /\ pending' = [x \in PendingIds |->
                IF x \in orphans THEN [pending[x] EXCEPT !.state = "inactive"] ELSE pending[x]]
           /\ closing' = [c \in Closings |->
                IF \E x \in orphans : pending[x].closing = c /\ closing[c].state = "live"
                  THEN [closing[c] EXCEPT !.pickup = 0] ELSE closing[c]]
           /\ view' = [view EXCEPT ![p].items = items]
    /\ Goto(p, "allocate")
    /\ UNCHANGED <<book, offset, expense, clock, locks, buffers, req>>

LiveExpenses == {e \in Expenses : expense[e].state = "live"}
OffsetsOf(e) == MapThenSumSet(LAMBDA x : offset[x][e], PendingIds)
OffsetsOn(x) == MapThenSumSet(LAMBDA e : offset[x][e], LiveExpenses)

\* Mutant: what earlier pickups charged to an expense is not subtracted.
ViewIgnoringOffsets(items) ==
    Allocation(items, {[id |-> e, at |-> expense[e].at, amount |-> expense[e].amount] :
                            e \in LiveExpenses})

\* computePendingView, second half: the items less their saved offsets, the expenses
\* less theirs, and the FIFO between the two.
ViewOf(items) ==
    LET owed == {e \in LiveExpenses : expense[e].amount > OffsetsOf(e)}
    IN  Allocation({[x EXCEPT !.amount = Max({0, @ - OffsetsOn(x.id)})] : x \in items},
                   {[id |-> e, at |-> expense[e].at, amount |-> expense[e].amount - OffsetsOf(e)] :
                        e \in owed})

\* Purges the offsets of voided expenses; keeps the rows that still have cash.
Allocate(p) ==
    /\ pc[p] = "allocate"
    /\ LET result == ViewOf(view[p].items)
           listed == {x.id : x \in view[p].items}
           toPick == {x \in req[p].ids \cap listed : result.remaining[x] \in Nat \ {0}}
       IN  /\ offset' = [x \in PendingIds |-> [e \in Expenses |->
                            IF expense[e].state = "void" THEN 0 ELSE offset[x][e]]]
           /\ IF ~(req[p].ids \subseteq listed) \/ toPick = {}
                THEN /\ Goto(p, "done")
                     /\ req' = [req EXCEPT ![p] = NoLocals]
                     /\ view' = [view EXCEPT ![p] = NoView]
                ELSE /\ Goto(p, "lockPending")
                     /\ req' = [req EXCEPT ![p].ids = toPick, ![p].rows = toPick]
                     /\ view' = [view EXCEPT ![p] =
                            [items |-> {}, take |-> result.remaining, charged |-> result.charged]]
    /\ UNCHANGED <<closing, pending, book, expense, clock, locks, buffers>>

\* SELECT ... FOR UPDATE ORDER BY id: one row lock after the other, by id.
NextToLock(p) == CHOOSE x \in req[p].rows : \A y \in req[p].rows : x <= y

LockPending(p) ==
    /\ pc[p] = "lockPending"
    /\ LET x == NextToLock(p) IN
        /\ pLock[x] = NoOne
        /\ pLock' = [pLock EXCEPT ![x] = p]
        /\ req' = [req EXCEPT ![p].rows = @ \ {x}]
        /\ Goto(p, IF req[p].rows = {x} THEN "checkPending" ELSE "lockPending")
    /\ UNCHANGED <<tables, expense, clock, cLock, bLock, buffers, view>>

\* Mutant: the state is not checked again under the lock.
CheckNothing(p) ==
    /\ pc[p] = "checkPending"
    /\ req' = [req EXCEPT ![p].rows = req[p].ids]
    /\ Goto(p, "readClosing")
    /\ UNCHANGED <<tables, expense, clock, locks, buffers, view>>

\* "Uno o mas retiros ya fueron retirados por otra persona."
CheckPending(p) ==
    /\ pc[p] = "checkPending"
    /\ IF \A x \in req[p].ids : pending[x].state = "PENDING"
         THEN /\ req' = [req EXCEPT ![p].rows = req[p].ids]
              /\ Goto(p, "readClosing")
              /\ UNCHANGED <<tables, expense, clock, locks, buffers, view>>
         ELSE Rollback(p)

\* closingsRepo.findOne: no lock; a removed closing rolls the batch back.
ReadClosing(p) ==
    /\ pc[p] = "readClosing"
    /\ \E x \in req[p].rows :
        LET c   == pending[x].closing
            row == Seen(wClosing[p], closing, c)
        IN  IF row.state # "live"
              THEN Rollback(p)
              ELSE /\ req' = [req EXCEPT ![p].cur = x, ![p].c = c, ![p].entity = row,
                                         ![p].rows = @ \ {x}]
                   /\ Goto(p, "diffClosing")
                   /\ UNCHANGED <<tables, expense, clock, locks, buffers, view>>

\* Mutant: the picked amount is not written into the closing.
DiffClosingKeepsWithdrawn(p) ==
    /\ pc[p] = "diffClosing"
    /\ LET new == [req[p].entity EXCEPT !.who = req[p].who, !.pickup = 0]
       IN  req' = [req EXCEPT ![p].entity = new,
                    ![p].dirty = Changed(new, Seen(wClosing[p], closing, req[p].c))]
    /\ Goto(p, "updateClosing")
    /\ UNCHANGED <<tables, expense, clock, locks, buffers, view>>

\* save, first statement: the entity against the row as it is now.
DiffClosing(p) ==
    /\ pc[p] = "diffClosing"
    /\ LET old == req[p].entity
           new == [old EXCEPT !.who = req[p].who, !.pickup = 0,
                        !.withdrawn = IF @ > 0 THEN @ ELSE view[p].take[req[p].cur]]
       IN  req' = [req EXCEPT ![p].entity = new,
                    ![p].dirty = Changed(new, Seen(wClosing[p], closing, req[p].c))]
    /\ Goto(p, "updateClosing")
    /\ UNCHANGED <<tables, expense, clock, locks, buffers, view>>

\* save, second statement: UPDATE of the columns that differed.
UpdateClosing(p) ==
    /\ pc[p] = "updateClosing"
    /\ LET c == req[p].c
       IN  /\ FreeOrMine(cLock, c, p)
           /\ cLock' = [cLock EXCEPT ![c] = p]
           /\ wClosing' = [wClosing EXCEPT ![p][c] =
                WithColumns(Seen(wClosing[p], closing, c), req[p].entity, req[p].dirty)]
    /\ Goto(p, "lockBook")
    /\ UNCHANGED <<tables, expense, clock, pLock, bLock, wPending, wBook, wOffset, req, view>>

\* The ledger from the entity, whose sourceAmounts were not loaded, then the row
\* itself and its offsets.
MarkPicked(p) ==
    /\ pc[p] = "lockBook" /\ req[p].op = "pick"
    /\ LET c == req[p].c
           x == req[p].cur
       IN  /\ FreeOrMine(bLock, c, p)
           /\ bLock' = [bLock EXCEPT ![c] = p]
           /\ wBook' = [wBook EXCEPT ![p][c] = PlanWithoutSources(req[p].entity)]
           /\ wPending' = [wPending EXCEPT ![p][x] =
                [pending[x] EXCEPT !.state = "PICKED", !.amount = view[p].take[x]]]
           /\ wOffset' = [wOffset EXCEPT ![p][x] = [e \in Expenses |->
                LET charged == view[p].charged[x]
                IN  IF e \in DOMAIN charged /\ charged[e] \in Nat /\ offset[x][e] = 0
                      THEN charged[e] ELSE 0]]
    /\ Goto(p, IF req[p].rows = {} THEN "commit" ELSE "readClosing")
    /\ UNCHANGED <<tables, expense, clock, cLock, pLock, wClosing, req, view>>

-----------------------------------------------------------------------------

\* InnoDB: a request that waits in a cycle of lock waits is rolled back.
WantsPending(p) ==
    IF pc[p] = "lockPending" THEN {NextToLock(p)}
    ELSE IF pc[p] = "writePending" THEN req[p].rows ELSE {}

WaitsFor(p, q) ==
    /\ q # p
    /\ \/ pc[p] \in {"lockClosing", "updateClosing", "saveClosing"} /\ cLock[req[p].c] = q
       \/ pc[p] = "lockBook" /\ bLock[req[p].c] = q
       \/ \E x \in WantsPending(p) : pLock[x] = q

Deadlocked(p) ==
    \E S \in SUBSET Requests :
        p \in S /\ \A q \in S : (\E r \in S : WaitsFor(q, r)) /\ (\E r \in S : WaitsFor(r, q))

DeadlockVictim(p) == Deadlocked(p) /\ Rollback(p)

TransactionStep(p) ==
    \/ LockClosing(p) \/ LoadClosing(p) \/ LockBook(p) \/ ReadPending(p)
    \/ WriteOffer(p) \/ CancelPending(p) \/ CompareClosing(p) \/ SaveClosing(p)
    \/ ListPending(p) \/ Allocate(p) \/ LockPending(p) \/ CheckPending(p)
    \/ ReadClosing(p) \/ DiffClosing(p) \/ UpdateClosing(p) \/ MarkPicked(p)
    \/ Commit(p)

Start(p) ==
    \/ \E c \in Closings, op \in AllOps \ {"pick"} : StartOnClosing(p, c, op)
    \/ \E ids \in SUBSET PendingIds, who \in People : StartPick(p, ids, who)

Environment ==
    \/ \E c \in Closings, fig \in Figures, who \in People \cup {NoOne} :
            CreateClosing(c, fig, who)
    \/ \E e \in Expenses, amount \in Spent : RecordExpense(e, amount)
    \/ \E e \in Voidable : VoidExpense(e)

Next ==
    \/ Environment
    \/ \E p \in Requests : Start(p) \/ TransactionStep(p) \/ DeadlockVictim(p) \/ Die(p)

Spec == Init /\ [][Next]_vars

\* A request that has begun is executed, and InnoDB resolves deadlocks.
Fairness ==
    \A p \in Requests : WF_vars(TransactionStep(p)) /\ WF_vars(DeadlockVictim(p))

FairSpec == Spec /\ Fairness

-----------------------------------------------------------------------------
(* Properties                                                                *)

Active == {"PENDING", "PICKED"}

\* The cash of a closing is on offer or picked up, and once: no interleaving of edits,
\* regenerations and pickups leaves a closing with two active withdrawals.  (The
\* orphan clean-up of computePendingView therefore has nothing to clean.)
CashOfferedOnce ==
    \A c \in Closings : \A x, y \in RowsOf(c, Active) : x = y

\* "un doble clic o dos personas retirando lo mismo no generan dos retiros" (pick): a
\* request that is about to commit a pickup still finds the row PENDING.
PickupNotRepeated ==
    \A p \in Requests, x \in PendingIds :
        wPending[p][x] # NoRow /\ wPending[p][x].state = "PICKED" => pending[x].state = "PENDING"

\* A live closing whose cash nobody has is on offer for exactly what it says; cash
\* somebody has, or of a removed closing, is not on offer.
OfferFollowsClosing ==
    \A c \in Closings :
        LET offers == RowsOf(c, {"PENDING"})
            open   == /\ closing[c].state = "live" /\ closing[c].who = NoOne
                      /\ RowsOf(c, {"PICKED"}) = {}
        IN  /\ open => offers # {}
            /\ offers # {} => open
            /\ \A x \in offers : pending[x].amount = Take(closing[c])

\* The cash entries of a live closing are the plan of the closing as saved ("asi nunca
\* queda el libro a medio regenerar", closings.service syncMovements).
BookMatchesClosing ==
    \A c \in Closings, f \in {"income", "out", "to"} :
        closing[c].state = "live" => book[c][f] = Plan(closing[c])[f]

\* In every committed state the cash on offer and the ledger of a live closing are what the
\* closing says.
OfferAndBookFollow == OfferFollowsClosing /\ BookMatchesClosing

\* Collecting the cash of a closing does not move its other incomes: each source stays
\* credited to its own account ("Asi no se mezclan todas las apps de delivery en una
\* unica cuenta generica", planFromClosing).
SourcesStayCredited ==
    \A c \in Closings : closing[c].state = "live" => book[c].own = closing[c].own

\* A pickup is never undone or changed, except by removing its closing.
KeepsPicked ==
    \A x \in PendingIds :
         pending[x].state = "PICKED" /\ pending'[x] # pending[x] =>
            /\ pending'[x].state = "inactive"
            /\ closing'[pending[x].closing].state = "removed"
PickedIsFinal == [][KeepsPicked]_vars

\* Picking up debits the drawer by what was picked up: the cash already spent on
\* expenses "ya no esta para retirar" (cash-pending-withdrawal-offset.entity).
DebitsWhatItTakes ==
    \A x \in PendingIds :
         pending[x].state = "PENDING" /\ pending'[x].state = "PICKED" =>
            book'[pending[x].closing].out = pending'[x].amount
PickupDebitsWhatItTakes == [][DebitsWhatItTakes]_vars

\* An expense is charged to withdrawals for no more than its amount.
ExpenseChargedOnce ==
    \A e \in Expenses : expense[e].state = "live" => OffsetsOf(e) <= expense[e].amount

\* Every request that starts is answered: lock waits and deadlocks end.
RequestsEnd == \A p \in Requests : pc[p] # "idle" ~> pc[p] = "done"
=============================================================================
