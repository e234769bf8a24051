------------------------------ MODULE Settlement ------------------------------
(***************************************************************************)
(* "Rendiciones": a closing records money that some source still owes the    *)
(* local (kind SETTLE_CASH or SETTLE_ACCOUNT, one closing_source_amounts row  *)
(* per source).  settle marks a batch of rows as paid and writes one income   *)
(* for all of them.  Meanwhile closings are edited, locked, unlocked,         *)
(* resynced, removed and picked up; every one of these saves the closing,     *)
(* regenerates its ledger, or both.                                           *)
(*                                                                            *)
(* CashClosing.sourceAmounts is declared `cascade: true': saving a closing    *)
(* also saves the source rows it was loaded with.                             *)
(*                                                                            *)
(* Transactions are READ COMMITTED; `w' holds the uncommitted rows of a       *)
(* saver, `drops' the incomes it has deleted.  settle takes its row locks in  *)
(* one step and writes and commits in another: nothing it writes is visible   *)
(* or lockable in between.                                                    *)
(***************************************************************************)
EXTENDS Integers, FiniteSets, Functions

CONSTANTS
    Closings,   \* closings of one shop
    Sources,    \* sources whose money is settled later
    Versions,   \* bound: a row is created anew at most this many times
    Amounts,    \* what a source may owe
    Settlers,   \* requests that settle one batch each
    Savers,     \* requests that save a closing or its ledger
    Ops,        \* what savers may do
    Exclusive,  \* what savers do only while no other request is at work
    None        \* no batch, no closing, no request, not written

ASSUME SettlementAssumption ==
    /\ Versions \in Nat /\ Amounts \subseteq Nat /\ Settlers \cap Savers = {}
    /\ None \notin Settlers /\ None \notin Savers
    /\ None \notin [live : BOOLEAN, amount : Nat, batch : Settlers \cup {None}]

AllOps == {"update", "resync", "unlock", "pick", "remove"}

\* A row id; a fresh UUID is the next unused version.
Ids == Closings \X Sources \X (1..Versions)

VARIABLES
    alive,        \* closings that are active and not soft-deleted
    row,          \* the table closing_source_amounts
    income,       \* the movement each settle request created
    cLock, rLock, \* row locks
    w, drops,     \* uncommitted writes of the savers
    pc,           \* where each request is
    settler,      \* what a settle request read: ids and total
    saver         \* operation, closing and entities of a saver

vars == <<alive, row, income, cLock, rLock, w, drops, pc, settler, saver>>

Row    == [live : BOOLEAN, amount : Nat, batch : Settlers \cup {None}]
Income == [state : {"none", "live", "deleted"}, closing : Closings \cup {None}, amount : Nat,
           rows : SUBSET Ids]

TypeOK ==
    /\ alive \subseteq Closings
    /\ row \in [Ids -> Row]
    /\ income \in [Settlers -> Income]
    /\ cLock \in [Closings -> Savers \cup {None}]
    /\ rLock \in [Ids -> Settlers \cup Savers \cup {None}]
    /\ w \in [Savers -> [Ids -> Row \cup {None}]]
    /\ drops \in [Savers -> SUBSET Settlers]
    /\ pc \in [Settlers \cup Savers -> {"idle", "lock", "write", "load", "save", "readRows",
                    "replace", "reload", "regenerate", "resave", "removeAll", "commit", "done"}]
    /\ settler \in [Settlers -> [ids : SUBSET Ids, total : Nat]]
    /\ saver \in [Savers -> [op : AllOps, c : Closings, loaded : SUBSET Ids,
                             copy : [Ids -> Row], kept : SUBSET Ids, saved : BOOLEAN]]

Absent    == [live |-> FALSE, amount |-> 0, batch |-> None]
NoWrites  == [x \in Ids |-> None]
NoIncome  == [state |-> "none", closing |-> None, amount |-> 0, rows |-> {}]
AnyClosing == CHOOSE c \in Closings : TRUE
NoEntity  == [op |-> "update", c |-> AnyClosing, loaded |-> {}, copy |-> [x \in Ids |-> Absent],
              kept |-> {}, saved |-> FALSE]

\* Every closing has been submitted with an amount for every source.
Init ==
    /\ alive = Closings
    /\ row \in {r \in [Ids -> {Absent} \cup [live : {TRUE}, amount : Amounts, batch : {None}]] :
                    \A x \in Ids : r[x].live <=> x[3] = 1}
    /\ income = [b \in Settlers |-> NoIncome]
    /\ cLock = [c \in Closings |-> None] /\ rLock = [x \in Ids |-> None]
    /\ w = [s \in Savers |-> NoWrites] /\ drops = [s \in Savers |-> {}]
    /\ pc = [p \in Settlers \cup Savers |-> "idle"]
    /\ settler = [b \in Settlers |-> [ids |-> {}, total |-> 0]]
    /\ saver = [s \in Savers |-> NoEntity]

Goto(p, step) == pc' = [pc EXCEPT ![p] = step]

AtWork(p) == pc[p] \notin {"idle", "done"}

\* Nobody is at work that wants to be alone.
NoneExclusive == \A s \in Savers : AtWork(s) => saver[s].op \notin Exclusive

Total(ids, table) == SumFunctionOnSet([x \in ids |-> table[x].amount], ids)

-----------------------------------------------------------------------------
(* settle                                                                     *)

\* The rows of the DTO must be unsettled; their total is taken from this read.
SettleRead(b, ids) ==
    /\ pc[b] = "idle" /\ ids # {} /\ NoneExclusive
    /\ \A x \in ids : x[1] \in alive /\ row[x].live /\ row[x].batch = None
    /\ settler' = [settler EXCEPT ![b] = [ids |-> ids, total |-> Total(ids, row)]]
    /\ Goto(b, "lock")
    /\ UNCHANGED <<alive, row, income, cLock, rLock, w, drops, saver>>

\* Mutant: the lock does not look at settledAt again.
SettleLockOnly(b) ==
    /\ pc[b] = "lock"
    /\ \A x \in settler[b].ids : rLock[x] = None
    /\ rLock' = [x \in Ids |-> IF x \in settler[b].ids THEN b ELSE rLock[x]]
    /\ Goto(b, "write")
    /\ UNCHANGED <<alive, row, income, cLock, w, drops, settler, saver>>

\* SELECT ... FOR UPDATE of the rows with settledAt IS NULL; all or nothing.
SettleLock(b) ==
    /\ pc[b] = "lock"
    /\ \A x \in settler[b].ids : rLock[x] = None
    /\ IF \A x \in settler[b].ids : row[x].live /\ row[x].batch = None
         THEN /\ rLock' = [x \in Ids |-> IF x \in settler[b].ids THEN b ELSE rLock[x]]
              /\ Goto(b, "write")
         ELSE Goto(b, "done") /\ UNCHANGED rLock
    /\ UNCHANGED <<alive, row, income, cLock, w, drops, settler, saver>>

OnlyClosing(ids) == IF \E c \in Closings : \A x \in ids : x[1] = c
                      THEN (CHOOSE x \in ids : TRUE)[1] ELSE None

Unlock(p, lock) == [k \in DOMAIN lock |-> IF lock[k] = p THEN None ELSE lock[k]]

\* movements.create, the UPDATE of the rows and the COMMIT.
SettleWrite(b) ==
    /\ pc[b] = "write"
    /\ LET ids == settler[b].ids
       IN  /\ income' = [income EXCEPT ![b] = [state |-> "live", closing |-> OnlyClosing(ids),
                                               amount |-> settler[b].total, rows |-> ids]]
           /\ row' = [x \in Ids |-> IF x \in ids THEN [row[x] EXCEPT !.batch = b] ELSE row[x]]
    /\ rLock' = Unlock(b, rLock)
    /\ Goto(b, "done")
    /\ UNCHANGED <<alive, cLock, w, drops, settler, saver>>

SettleDies(b) ==
    /\ pc[b] = "write"
    /\ rLock' = Unlock(b, rLock)
    /\ Goto(b, "done")
    /\ UNCHANGED <<alive, row, income, cLock, w, drops, settler, saver>>

-----------------------------------------------------------------------------
(* Requests that save a closing                                               *)

Seen(s, x) == IF w[s][x] = None THEN row[x] ELSE w[s][x]

RowsSeen(s) == {x \in Ids : x[1] = saver[s].c /\ Seen(s, x).live}

\* Locks are taken for the rows that a statement writes, or waits until it can.
WriteRows(s, new) ==
    /\ \A x \in DOMAIN new : rLock[x] \in {None, s}
    /\ rLock' = [x \in Ids |-> IF x \in DOMAIN new THEN s ELSE rLock[x]]
    /\ w' = [w EXCEPT ![s] = [x \in Ids |-> IF x \in DOMAIN new THEN new[x] ELSE w[s][x]]]

Finish(s) ==
    /\ cLock' = Unlock(s, cLock) /\ rLock' = Unlock(s, rLock)
    /\ w' = [w EXCEPT ![s] = NoWrites] /\ drops' = [drops EXCEPT ![s] = {}]
    /\ saver' = [saver EXCEPT ![s] = NoEntity]
    /\ Goto(s, "done")

Rollback(s) == Finish(s) /\ UNCHANGED <<alive, row, income, settler>>

\* A save of the closing as loaded also writes `active' and `deletedAt' back.
Commit(s) ==
    /\ pc[s] = "commit"
    /\ alive' = IF saver[s].op = "remove" THEN alive \ {saver[s].c}
                ELSE IF saver[s].saved THEN alive \cup {saver[s].c} ELSE alive
    /\ row' = [x \in Ids |-> Seen(s, x)]
    /\ income' = [b \in Settlers |->
            IF b \in drops[s] THEN [income[b] EXCEPT !.state = "deleted"] ELSE income[b]]
    /\ Finish(s)
    /\ UNCHANGED settler

SaverDies(s) == pc[s] \notin {"idle", "done"} /\ Rollback(s)

Begin(s, op, c) ==
    /\ pc[s] = "idle" /\ op \in Ops /\ NoneExclusive
    /\ op \in Exclusive => \A p \in Settlers \cup Savers : ~AtWork(p)
    /\ saver' = [saver EXCEPT ![s].op = op, ![s].c = c]
    /\ Goto(s, IF op = "unlock" THEN "load" ELSE IF op = "resync" THEN "reload" ELSE "lock")
    /\ UNCHANGED <<alive, row, income, cLock, rLock, w, drops, settler>>

\* lockClosing (update, lock), lockEntity (remove), the UPDATE of pick.
LockClosing(s) ==
    /\ pc[s] = "lock" /\ cLock[saver[s].c] = None
    /\ \/ /\ saver[s].c \in alive
          /\ cLock' = [cLock EXCEPT ![saver[s].c] = s]
          /\ Goto(s, CASE saver[s].op = "update" -> "load"
                       [] saver[s].op = "pick"   -> "regenerate"
                       [] saver[s].op = "remove" -> "removeAll")
          /\ UNCHANGED <<alive, row, income, rLock, w, drops, settler, saver>>
       \/ saver[s].c \notin alive /\ Rollback(s)

\* findOne with relations: ['expenses', 'extraLines', 'sourceAmounts'].
Load(s) ==
    /\ pc[s] \in {"load", "reload"}
    /\ \/ /\ saver[s].c \in alive
          /\ saver' = [saver EXCEPT ![s].loaded = RowsSeen(s),
                                    ![s].copy = [x \in Ids |-> Seen(s, x)]]
          /\ Goto(s, IF pc[s] = "load" THEN "save" ELSE "regenerate")
          /\ UNCHANGED <<alive, row, income, cLock, rLock, w, drops, settler>>
       \/ saver[s].c \notin alive /\ Rollback(s)

\* save(closing) cascades (TypeORM): a loaded row that differs from the database, or is
\* gone, is written as it was loaded; a row the entity does not have would lose its
\* closing, which closingId NOT NULL refuses.
CascadeSave(s) ==
    LET differ == {x \in saver[s].loaded : Seen(s, x) # saver[s].copy[x]}
        c      == saver[s].c
    IN  /\ RowsSeen(s) \subseteq saver[s].loaded
        /\ cLock[c] \in {None, s} /\ cLock' = [cLock EXCEPT ![c] = s]
        /\ WriteRows(s, Restrict(saver[s].copy, differ))
        /\ saver' = [saver EXCEPT ![s].saved = TRUE]

CascadeFails(s) == ~(RowsSeen(s) \subseteq saver[s].loaded) /\ Rollback(s)

\* applyUpdate and lock: the closing's own columns; unlock has no more to do.
SaveClosing(s) ==
    /\ pc[s] = "save"
    /\ \/ /\ CascadeSave(s)
          /\ \/ saver[s].op = "unlock" /\ Goto(s, "commit")
             \/ saver[s].op = "update" /\ (Goto(s, "readRows") \/ Goto(s, "reload"))
          /\ UNCHANGED <<alive, row, income, drops, settler>>
       \/ CascadeFails(s)

\* replaceChildren, when the DTO brings sourceAmounts: which rows are settled?
ReadRows(s) ==
    /\ pc[s] = "readRows"
    /\ saver' = [saver EXCEPT ![s].loaded = RowsSeen(s),
                    ![s].copy = [x \in Ids |-> Seen(s, x)],
                    ![s].kept = {x \in RowsSeen(s) : Seen(s, x).batch # None}]
    /\ Goto(s, "replace")
    /\ UNCHANGED <<alive, row, income, cLock, rLock, w, drops, settler>>

NextVersions(c, q) ==
    {x \in Ids : /\ x[1] = c /\ x[2] = q
                 /\ \A y \in Ids : y[1] = c /\ y[2] = q /\ y[3] >= x[3] =>
                        ~row[y].live /\ (\A s \in Savers : w[s][y] = None /\ y \notin saver[s].loaded)
                        /\ \A b \in Settlers : y \notin income[b].rows \cup settler[b].ids}

\* The new table: kept rows with the amount of the DTO, one new row per other source.
\* Without kept rows the DELETE has no settledAt condition.
Replacement(s, dto) ==
    LET c      == saver[s].c
        kept   == saver[s].kept
        gone   == {x \in RowsSeen(s) \ kept : kept = {} \/ Seen(s, x).batch = None}
        moved  == {x \in kept : x[2] \in DOMAIN dto}
        create == {q \in DOMAIN dto : \A x \in moved : x[2] # q}
        fresh  == {x \in Ids : x[1] = c /\ x[2] \in create /\ x \in NextVersions(c, x[2])
                               /\ \A y \in NextVersions(c, x[2]) : x[3] <= y[3]}
    IN  [x \in gone \cup kept \cup fresh |->
            IF x \in fresh THEN [live |-> TRUE, amount |-> dto[x[2]], batch |-> None]
            ELSE IF x \in moved THEN [saver[s].copy[x] EXCEPT !.amount = dto[x[2]]]
            ELSE IF x \in kept THEN saver[s].copy[x]
            ELSE Absent]

ReplaceRows(s) ==
    /\ pc[s] = "replace"
    /\ \E dto \in UNION {[D -> Amounts] : D \in SUBSET Sources} :
        /\ \A q \in DOMAIN dto : NextVersions(saver[s].c, q) # {}
        /\ WriteRows(s, Replacement(s, dto))
    /\ Goto(s, "reload")
    /\ UNCHANGED <<alive, row, income, cLock, drops, settler, saver>>

\* syncFromClosing (book): movements.delete({ closingId }), whatever they are; then the
\* plan, which has no entry for a source that is settled later.
Regenerate(s) ==
    /\ pc[s] = "regenerate"
    /\ LET mine == {b \in Settlers : income[b].state = "live" /\ income[b].closing = saver[s].c}
       IN  /\ \A t \in Savers \ {s} : drops[t] \cap mine = {}
           /\ drops' = [drops EXCEPT ![s] = @ \cup mine]
    /\ Goto(s, IF saver[s].op = "pick" THEN "commit" ELSE "resave")
    /\ UNCHANGED <<alive, row, income, cLock, rLock, w, settler, saver>>

\* cashWithdrawals.syncFromClosing saves the closing again when cashPendingPickup moved.
SaveAgain(s) ==
    /\ pc[s] = "resave"
    /\ \/ /\ Goto(s, "commit")
          /\ UNCHANGED <<alive, row, income, cLock, rLock, w, drops, settler, saver>>
       \/ /\ CascadeSave(s)
          /\ Goto(s, "commit")
          /\ UNCHANGED <<alive, row, income, drops, settler>>
       \/ CascadeFails(s)

\* remove: the closing's ledger and all its source rows, settled ones included.
RemoveAll(s) ==
    /\ pc[s] = "removeAll"
    /\ drops' = [drops EXCEPT ![s] =
            {b \in Settlers : income[b].state = "live" /\ income[b].closing = saver[s].c}]
    /\ WriteRows(s, [x \in RowsSeen(s) |-> Absent])
    /\ Goto(s, "commit")
    /\ UNCHANGED <<alive, row, income, cLock, settler, saver>>

-----------------------------------------------------------------------------

SettlerStep(b) ==
    \/ \E ids \in SUBSET Ids : SettleRead(b, ids)
    \/ SettleLock(b) \/ SettleWrite(b) \/ SettleDies(b)

SaverStep(s) ==
    \/ \E op \in AllOps, c \in Closings : Begin(s, op, c)
    \/ LockClosing(s) \/ Load(s) \/ SaveClosing(s) \/ ReadRows(s) \/ ReplaceRows(s)
    \/ Regenerate(s) \/ SaveAgain(s) \/ RemoveAll(s) \/ Commit(s) \/ SaverDies(s)

Next == (\E b \in Settlers : SettlerStep(b)) \/ (\E s \in Savers : SaverStep(s))

Spec == Init /\ [][Next]_vars

-----------------------------------------------------------------------------
(* Properties                                                                 *)

\* The income of a batch is worth what its rows are worth when they are marked, though
\* the total is computed before the transaction and closings are edited meanwhile.
MarksWhatItPays ==
    \A b \in Settlers : income[b].state = "none" /\ income'[b].state = "live" =>
         income'[b].amount = Total({x \in Ids : row[x].live /\ row'[x].batch = b}, row)
IncomeIsWhatWasMarked == [][MarksWhatItPays]_vars

\* "dos rendiciones simultaneas no duplican el ingreso" (settle): no two live incomes
\* were written for the same source of the same closing.
SettledOnce ==
    \A a, b \in Settlers :
        a # b /\ income[a].state = "live" /\ income[b].state = "live" =>
            \A x \in income[a].rows, y \in income[b].rows : <<x[1], x[2]>> # <<y[1], y[2]>>
=============================================================================
