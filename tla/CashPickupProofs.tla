--------------------------- MODULE CashPickupProofs ---------------------------
(***************************************************************************)
(* CashPickup for every set of closings, rows, expenses and requests, every  *)
(* choice of operations and every amount: type correctness; cash is offered  *)
(* once and picked up once; what was picked up stands; and, but for the two  *)
(* practices that SavesAlone and TakesAll exclude, the offer and the ledger  *)
(* are what the closing says and a pickup debits what it takes.              *)
(*                                                                           *)
(* The safety properties speak of committed rows; they are kept by what a    *)
(* transaction may hold uncommitted.  The inductive invariant says, for each *)
(* request p, which locks it holds at each step, and what those locks keep   *)
(* true of the rows it has read and written.  What p knows survives the      *)
(* steps of others that leave it its locks and whose effect on the tables is *)
(* Harmless to p.  The last part asks more of the others: whoever writes a   *)
(* closing, its withdrawals or its ledger holds the lock of the closing, so  *)
(* that what p has locked is Frozen for everybody else.                      *)
(***************************************************************************)
EXTENDS CashPickup, TLAPS

PickSteps == {"listPending", "allocate", "lockPending", "checkPending", "readClosing",
              "diffClosing", "updateClosing"}
SaveSteps == {"lockClosing", "loadClosing", "readPending", "writePending", "compareClosing",
              "saveClosing"}

\* The steps of one operation are not taken by another.
OpOK ==
    \A p \in Requests : /\ pc[p] \in PickSteps => req[p].op = "pick"
                        /\ pc[p] \in SaveSteps => req[p].op # "pick"

Picking(p) ==
    \/ pc[p] \in {"lockPending", "checkPending", "readClosing", "diffClosing", "updateClosing"}
    \/ pc[p] = "lockBook" /\ req[p].op = "pick"

Marking(p) == pc[p] \in {"diffClosing", "updateClosing"} \/ (pc[p] = "lockBook" /\ req[p].op = "pick")

\* What a pick knows of the rows it was asked for.
ViewOK ==
    /\ DOMAIN view = Requests
    /\ \A p \in Requests :
          /\ Picking(p) => /\ req[p].rows \subseteq req[p].ids
                           /\ \A x \in req[p].ids : view[p].take[x] \in Nat
          /\ Marking(p) => req[p].cur \in req[p].ids

\* Types and locals: what the values of the model need to stay well formed.
LocalInv == TypeOK /\ OpOK /\ ViewOK

-----------------------------------------------------------------------------
(* Types and locals                                                          *)

\* What a request that does nothing remembers is well formed.
LEMMA LocalsType == NoLocals \in Locals
<1>1. AnyClosing \in Closings /\ AnyPending \in PendingIds
  BY CashPickupAssumption DEF AnyClosing, AnyPending
<1>2. AbsentClosing \in ClosingRow
  BY DEF AbsentClosing, ClosingRow
<1> QED BY <1>1, <1>2 DEF NoLocals, Locals, AllOps

\* The invariant on locals holds at the start.
LEMMA LocalInit == Init => LocalInv
<1> SUFFICES ASSUME Init PROVE LocalInv
  OBVIOUS
<1> USE CashPickupAssumption, NoRowAssumption
<1>1. AnyClosing \in Closings
  BY DEF AnyClosing
<1>2. AbsentClosing \in ClosingRow
  BY DEF AbsentClosing, ClosingRow
<1>3. NoLocals \in Locals
  BY LocalsType
<1>4. TypeOK
  <2>1. closing \in [Closings -> ClosingRow] /\ pending \in [PendingIds -> PendingRow]
    BY <1>1, <1>2 DEF Init, PendingRow
  <2>2. book \in [Closings -> BookRow] /\ expense \in [Expenses -> ExpenseRow] /\ clock \in Nat
    BY DEF Init, NoBook, BookRow, ExpenseRow
  <2>3. /\ offset \in [PendingIds -> [Expenses -> Nat]]
        /\ wOffset \in [Requests -> [PendingIds -> [Expenses -> Nat]]]
    BY DEF Init, NoOffsets
  <2>4. /\ cLock \in [Closings -> Requests \cup {NoOne}]
        /\ pLock \in [PendingIds -> Requests \cup {NoOne}]
        /\ bLock \in [Closings -> Requests \cup {NoOne}]
    BY DEF Init, Unlocked
  <2>5. /\ wClosing \in [Requests -> [Closings -> ClosingRow \cup {NoRow}]]
        /\ wPending \in [Requests -> [PendingIds -> PendingRow \cup {NoRow}]]
        /\ wBook \in [Requests -> [Closings -> BookRow \cup {NoRow}]]
    BY DEF Init, NoWrites
  <2>6. pc \in [Requests -> Steps] /\ req \in [Requests -> Locals]
    BY <1>3 DEF Init, Steps
  <2> QED BY <2>1, <2>2, <2>3, <2>4, <2>5, <2>6 DEF TypeOK
<1>5. OpOK /\ ViewOK
  BY DEF Init, OpOK, ViewOK, Picking, Marking, PickSteps, SaveSteps
<1> QED BY <1>4, <1>5 DEF LocalInv

\* Ending a transaction keeps the locals well formed, whatever it publishes.
LEMMA EndLocal ==
    ASSUME LocalInv, NEW p \in Requests, EndOfTransaction(p),
           closing' \in [Closings -> ClosingRow], pending' \in [PendingIds -> PendingRow],
           book' \in [Closings -> BookRow], offset' \in [PendingIds -> [Expenses -> Nat]],
           expense' \in [Expenses -> ExpenseRow], clock' \in Nat
    PROVE  LocalInv'
<1> USE CashPickupAssumption, NoRowAssumption
<1>1. NoLocals \in Locals
  BY LocalsType
<1>2. /\ cLock' \in [Closings -> Requests \cup {NoOne}]
      /\ pLock' \in [PendingIds -> Requests \cup {NoOne}]
      /\ bLock' \in [Closings -> Requests \cup {NoOne}]
  BY DEF LocalInv, TypeOK, EndOfTransaction, Released
<1>3. /\ wClosing' \in [Requests -> [Closings -> ClosingRow \cup {NoRow}]]
      /\ wPending' \in [Requests -> [PendingIds -> PendingRow \cup {NoRow}]]
      /\ wBook' \in [Requests -> [Closings -> BookRow \cup {NoRow}]]
      /\ wOffset' \in [Requests -> [PendingIds -> [Expenses -> Nat]]]
  BY DEF LocalInv, TypeOK, EndOfTransaction, NoWrites, NoOffsets
<1>4. pc' \in [Requests -> Steps] /\ req' \in [Requests -> Locals]
  BY <1>1 DEF LocalInv, TypeOK, EndOfTransaction, Steps
<1>5. TypeOK'
  BY <1>2, <1>3, <1>4 DEF TypeOK
<1>6. OpOK'
  BY DEF LocalInv, TypeOK, OpOK, EndOfTransaction, PickSteps, SaveSteps
<1>7. ViewOK'
  BY DEF LocalInv, TypeOK, ViewOK, EndOfTransaction, Picking, Marking
<1> QED BY <1>5, <1>6, <1>7 DEF LocalInv

\* Rollback keeps locals and tables well formed.
LEMMA RollbackLocal ==
    ASSUME LocalInv, NEW p \in Requests, Rollback(p) PROVE LocalInv'
BY EndLocal DEF Rollback, LocalInv, TypeOK, tables

\* Commit keeps locals and tables well formed.
LEMMA CommitLocal ==
    ASSUME LocalInv, NEW p \in Requests, Commit(p) PROVE LocalInv'
<1> USE NoRowAssumption DEF Commit, LocalInv, TypeOK, Seen
<1>1. closing' \in [Closings -> ClosingRow]
  OBVIOUS
<1>2. pending' \in [PendingIds -> PendingRow]
  OBVIOUS
<1>3. book' \in [Closings -> BookRow]
  OBVIOUS
<1>4. offset' \in [PendingIds -> [Expenses -> Nat]]
  OBVIOUS
<1> QED BY <1>1, <1>2, <1>3, <1>4, EndLocal

\* Creations of closings, expenses and the clock keep locals and tables well formed.
LEMMA EnvironmentLocal ==
    ASSUME LocalInv, Environment PROVE LocalInv'
<1> USE CashPickupAssumption, NoRowAssumption
<1>1. UNCHANGED <<pc, req, view, offset, cLock, pLock, bLock, wClosing, wPending, wBook, wOffset>>
  BY DEF Environment, CreateClosing, RecordExpense, VoidExpense, tables, locks, buffers
<1> DEFINE Rest == /\ closing' \in [Closings -> ClosingRow] /\ book' \in [Closings -> BookRow]
                   /\ pending' \in [PendingIds -> PendingRow]
                   /\ expense' \in [Expenses -> ExpenseRow] /\ clock' \in Nat
<1>2. OpOK' /\ ViewOK'
  BY <1>1 DEF LocalInv, OpOK, ViewOK, Picking, Marking
<1>3. ASSUME NEW c \in Closings, NEW fig \in Figures, NEW who \in People \cup {NoOne},
             CreateClosing(c, fig, who)
      PROVE  Rest
  <2> DEFINE row == [state |-> "live", counted |-> fig[1], withdrawn |-> fig[2],
                     own |-> fig[3], who |-> who, pickup |-> 0]
  <2>1. fig[1] \in Nat /\ fig[2] \in Nat /\ fig[3] \in Nat
    OBVIOUS
  <2>2. row \in ClosingRow /\ Take(row) \in Nat /\ Plan(row) \in BookRow
    BY <2>1 DEF ClosingRow, Take, Plan, BookRow
  <2>3. closing' \in [Closings -> ClosingRow] /\ book' \in [Closings -> BookRow]
    BY <1>3, <2>2 DEF CreateClosing, LocalInv, TypeOK, ClosingRow
  <2>4. pending' \in [PendingIds -> PendingRow] /\ clock' \in Nat
    <3>1. clock' \in Nat /\ NewPending(c, Take(row)) \in PendingRow
      BY <1>3, <2>2 DEF CreateClosing, LocalInv, TypeOK, NewPending, PendingRow
    <3>2. \/ pending' = pending
          \/ \E x \in PendingIds : pending' = [pending EXCEPT ![x] = NewPending(c, Take(row))]
      BY <1>3 DEF CreateClosing, FreeIds
    <3>3. pending \in [PendingIds -> PendingRow]
      BY DEF LocalInv, TypeOK
    <3> HIDE DEF row
    <3> QED BY <3>1, <3>2, <3>3
  <2>5. expense' \in [Expenses -> ExpenseRow]
    BY <1>3 DEF CreateClosing, LocalInv, TypeOK
  <2> QED BY <2>3, <2>4, <2>5
<1>4. ASSUME NEW e \in Expenses, NEW amount \in Spent, RecordExpense(e, amount) PROVE Rest
  BY <1>4 DEF RecordExpense, LocalInv, TypeOK, ExpenseRow, tables
<1>5. ASSUME NEW e \in Voidable, VoidExpense(e) PROVE Rest
  BY ZenonT(40), <1>5 DEF VoidExpense, LocalInv, TypeOK, ExpenseRow, tables
<1>6. Rest
  BY <1>3, <1>4, <1>5 DEF Environment
<1>7. TypeOK'
  BY <1>1, <1>6 DEF LocalInv, TypeOK
<1> QED BY <1>2, <1>7 DEF LocalInv

\* A request p that moves to a step with well-formed locals.
LEMMA MoveLocal ==
    ASSUME LocalInv, NEW p \in Requests, TypeOK',
           DOMAIN view' = Requests,
           \A q \in Requests \ {p} :
              pc'[q] = pc[q] /\ req'[q] = req[q] /\ view'[q] = view[q],
           pc'[p] \in PickSteps => req'[p].op = "pick",
           pc'[p] \in SaveSteps => req'[p].op # "pick",
           Picking(p)' => /\ req'[p].rows \subseteq req'[p].ids
                          /\ \A x \in req'[p].ids : view'[p].take[x] \in Nat,
           Marking(p)' => req'[p].cur \in req'[p].ids
    PROVE  LocalInv'
<1>1. OpOK'
  <2> SUFFICES ASSUME NEW q \in Requests
               PROVE  /\ pc'[q] \in PickSteps => req'[q].op = "pick"
                      /\ pc'[q] \in SaveSteps => req'[q].op # "pick"
    BY DEF OpOK
  <2>1. CASE q = p
    BY <2>1
  <2>2. CASE q # p
    BY <2>2 DEF LocalInv, OpOK
  <2> QED BY <2>1, <2>2
<1>2. ViewOK'
  <2> SUFFICES ASSUME NEW q \in Requests
               PROVE  /\ Picking(q)' => /\ req'[q].rows \subseteq req'[q].ids
                                        /\ \A x \in req'[q].ids : view'[q].take[x] \in Nat
                      /\ Marking(q)' => req'[q].cur \in req'[q].ids
    BY DEF ViewOK
  <2>1. CASE q = p
    BY <2>1
  <2>2. CASE q # p
    <3>1. pc'[q] = pc[q] /\ req'[q] = req[q] /\ view'[q] = view[q]
      BY <2>2
    <3>2. (Picking(q)' <=> Picking(q)) /\ (Marking(q)' <=> Marking(q))
      BY <3>1 DEF Picking, Marking
    <3> QED BY <3>1, <3>2 DEF LocalInv, ViewOK
  <2> QED BY <2>1, <2>2
<1> QED BY <1>1, <1>2 DEF LocalInv

\* Start keeps locals and tables well formed.
LEMMA StartLocal ==
    ASSUME LocalInv, NEW p \in Requests, Start(p) PROVE LocalInv'
<1> USE CashPickupAssumption DEF LocalInv
<1>1. ASSUME NEW c \in Closings, NEW op \in AllOps \ {"pick"}, StartOnClosing(p, c, op)
      PROVE  LocalInv'
  <2>1. /\ pc' = [pc EXCEPT ![p] = IF op \in {"resync", "unlock"} THEN "loadClosing"
                                    ELSE "lockClosing"]
        /\ req' = [req EXCEPT ![p] = [@ EXCEPT !.op = op, !.c = c]]
    BY <1>1 DEF StartOnClosing, Goto
  <2>2. UNCHANGED <<closing, pending, book, offset, expense, clock, cLock, pLock, bLock,
                    wClosing, wPending, wBook, wOffset, view>>
    BY <1>1 DEF StartOnClosing, tables, locks, buffers
  <2>3. req[p] \in Locals
    BY DEF TypeOK
  <2>4. req'[p] \in Locals /\ req'[p].op = op
    BY <2>1, <2>3 DEF Locals, AllOps, TypeOK
  <2>5. TypeOK'
    BY <2>1, <2>2, <2>4 DEF TypeOK, Steps
  <2>6. \A q \in Requests \ {p} : pc'[q] = pc[q] /\ req'[q] = req[q] /\ view'[q] = view[q]
    BY <2>1, <2>2 DEF TypeOK
  <2>7. pc'[p] \in {"loadClosing", "lockClosing"}
    BY <2>1 DEF TypeOK
  <2> QED BY <2>2, <2>4, <2>5, <2>6, <2>7, MoveLocal
       DEF ViewOK, PickSteps, SaveSteps, Picking, Marking
<1>2. ASSUME NEW ids \in SUBSET PendingIds, NEW who \in People, StartPick(p, ids, who)
      PROVE  LocalInv'
  <2>1. /\ pc' = [pc EXCEPT ![p] = "listPending"]
        /\ req' = [req EXCEPT ![p] = [@ EXCEPT !.op = "pick", !.ids = ids, !.who = who]]
    BY <1>2 DEF StartPick, Goto
  <2>2. UNCHANGED <<closing, pending, book, offset, expense, clock, cLock, pLock, bLock,
                    wClosing, wPending, wBook, wOffset, view>>
    BY <1>2 DEF StartPick, tables, locks, buffers
  <2>3. req[p] \in Locals
    BY DEF TypeOK
  <2>4. req'[p] \in Locals /\ req'[p].op = "pick"
    BY <2>1, <2>3 DEF Locals, AllOps, TypeOK
  <2>5. TypeOK'
    BY <2>1, <2>2, <2>4 DEF TypeOK, Steps
  <2>6. \A q \in Requests \ {p} : pc'[q] = pc[q] /\ req'[q] = req[q] /\ view'[q] = view[q]
    BY <2>1, <2>2 DEF TypeOK
  <2>7. pc'[p] = "listPending"
    BY <2>1 DEF TypeOK
  <2> QED BY <2>2, <2>4, <2>5, <2>6, <2>7, MoveLocal
       DEF ViewOK, PickSteps, SaveSteps, Picking, Marking
<1> QED BY <1>1, <1>2 DEF Start

\* An edited closing is a closing.
LEMMA PatchType ==
    ASSUME NEW row \in ClosingRow, NEW dto \in Edits PROVE Patch(row, dto) \in ClosingRow
BY CashPickupAssumption DEF Patch, ClosingRow

\* LockClosing keeps locals and tables well formed.
LEMMA LockClosingLocal ==
    ASSUME LocalInv, NEW p \in Requests, LockClosing(p) PROVE LocalInv'
<1> DEFINE c == req[p].c
<1>1. CASE closing[c].state # "live"
  BY <1>1, RollbackLocal DEF LockClosing
<1>2. CASE closing[c].state = "live"
  <2> USE DEF LocalInv
  <2>1. req[p] \in Locals /\ c \in Closings /\ closing[c] \in ClosingRow
    BY DEF TypeOK, Locals
  <2>2. PICK row \in ClosingRow :
            /\ cLock' = [cLock EXCEPT ![c] = p]
            /\ wClosing' = [wClosing EXCEPT ![p] = [@ EXCEPT ![c] = row]]
            /\ req' = [req EXCEPT ![p] = [@ EXCEPT !.entity = row]]
            /\ pc' = [pc EXCEPT ![p] = "lockBook"]
            /\ UNCHANGED <<tables, expense, clock, pLock, bLock, wPending, wBook, wOffset, view>>
    <3>1. PICK dto \in Edits :
            LET row == IF req[p].op = "remove" THEN [closing[c] EXCEPT !.state = "removed"]
                                               ELSE Patch(closing[c], dto)
            IN  /\ cLock' = [cLock EXCEPT ![c] = p]
                /\ wClosing' = [wClosing EXCEPT ![p] = [@ EXCEPT ![c] = row]]
                /\ req' = [req EXCEPT ![p] = [@ EXCEPT !.entity = row]]
                /\ pc' = [pc EXCEPT ![p] = "lockBook"]
                /\ UNCHANGED <<tables, expense, clock, pLock, bLock, wPending, wBook, wOffset,
                               view>>
      BY <1>2 DEF LockClosing, Goto
    <3>2. Patch(closing[c], dto) \in ClosingRow
      BY <2>1, PatchType
    <3>3. [closing[c] EXCEPT !.state = "removed"] \in ClosingRow
      BY <2>1 DEF ClosingRow
    <3> QED BY <3>1, <3>2, <3>3
  <2>3. UNCHANGED <<closing, pending, book, offset, expense, clock, pLock, bLock, wPending,
                    wBook, wOffset, view>>
    BY <2>2 DEF tables
  <2>4. req'[p] \in Locals /\ req'[p].op = req[p].op /\ req[p].op # "pick"
    BY <2>1, <2>2 DEF Locals, TypeOK, OpOK, SaveSteps, LockClosing
  <2>5. TypeOK'
    <3>1. cLock' \in [Closings -> Requests \cup {NoOne}]
      BY <2>2 DEF TypeOK
    <3>2. wClosing' \in [Requests -> [Closings -> ClosingRow \cup {NoRow}]]
      BY <2>2 DEF TypeOK
    <3>3. req' \in [Requests -> Locals] /\ pc' \in [Requests -> Steps]
      BY <2>2, <2>4 DEF TypeOK, Steps
    <3> QED BY <2>3, <3>1, <3>2, <3>3 DEF TypeOK
  <2>6. \A q \in Requests \ {p} : pc'[q] = pc[q] /\ req'[q] = req[q] /\ view'[q] = view[q]
    BY <2>2, <2>3 DEF TypeOK
  <2>7. pc'[p] = "lockBook"
    BY <2>2 DEF TypeOK
  <2> QED BY <2>3, <2>4, <2>5, <2>6, <2>7, MoveLocal
       DEF ViewOK, PickSteps, SaveSteps, Picking, Marking
<1> QED BY <1>1, <1>2

\* LoadClosing keeps locals and tables well formed.
LEMMA LoadClosingLocal ==
    ASSUME LocalInv, NEW p \in Requests, LoadClosing(p) PROVE LocalInv'
<1> DEFINE c == req[p].c
<1>1. CASE closing[c].state # "live"
  BY <1>1, RollbackLocal DEF LoadClosing
<1>2. CASE closing[c].state = "live"
  <2> USE DEF LocalInv
  <2>1. req[p] \in Locals /\ closing[c] \in ClosingRow
    BY DEF TypeOK, Locals
  <2>2. /\ req' = [req EXCEPT ![p] = [@ EXCEPT !.entity = closing[c]]]
        /\ pc' = [pc EXCEPT ![p] = IF req[p].op = "unlock" THEN "compareClosing" ELSE "lockBook"]
    BY <1>2 DEF LoadClosing, Goto
  <2>3. UNCHANGED <<closing, pending, book, offset, expense, clock, cLock, pLock, bLock,
                    wClosing, wPending, wBook, wOffset, view>>
    BY <1>2 DEF LoadClosing, tables, locks, buffers
  <2>4. req'[p] \in Locals /\ req'[p].op = req[p].op /\ req[p].op # "pick"
    BY <2>1, <2>2 DEF Locals, TypeOK, OpOK, SaveSteps, LoadClosing
  <2>5. TypeOK'
    BY <2>2, <2>3, <2>4 DEF TypeOK, Steps
  <2>6. \A q \in Requests \ {p} : pc'[q] = pc[q] /\ req'[q] = req[q] /\ view'[q] = view[q]
    BY <2>2, <2>3 DEF TypeOK
  <2>7. pc'[p] \in {"compareClosing", "lockBook"}
    BY <2>2 DEF TypeOK
  <2> QED BY <2>3, <2>4, <2>5, <2>6, <2>7, MoveLocal
       DEF ViewOK, PickSteps, SaveSteps, Picking, Marking
<1> QED BY <1>1, <1>2

\* What a closing plans for its book is a row of the book.
LEMMA PlanType ==
    ASSUME NEW row \in ClosingRow
    PROVE  Take(row) \in Nat /\ Plan(row) \in BookRow /\ PlanWithoutSources(row) \in BookRow
BY DEF Take, Plan, PlanWithoutSources, ClosingRow, BookRow

\* LockBook keeps locals and tables well formed.
LEMMA LockBookLocal ==
    ASSUME LocalInv, NEW p \in Requests, LockBook(p) PROVE LocalInv'
<1> USE DEF LocalInv
<1> DEFINE c == req[p].c
           entries == IF req[p].op = "remove" THEN NoBook ELSE Plan(req[p].entity)
<1>1. req[p] \in Locals /\ c \in Closings /\ req[p].entity \in ClosingRow /\ pc[p] = "lockBook"
      /\ req[p].op # "pick"
  BY DEF TypeOK, Locals, LockBook
<1>2. entries \in BookRow
  BY <1>1, PlanType DEF NoBook, BookRow
<1>3. /\ bLock' = [bLock EXCEPT ![c] = p]
      /\ wBook' = [wBook EXCEPT ![p] = [@ EXCEPT ![c] = entries]]
      /\ pc' = [pc EXCEPT ![p] = "readPending"]
  BY DEF LockBook, Goto
<1>4. UNCHANGED <<closing, pending, book, offset, expense, clock, cLock, pLock, wClosing,
                  wPending, wOffset, req, view>>
  BY DEF LockBook, tables
<1>5. TypeOK'
  <2> HIDE DEF entries
  <2>1. bLock' \in [Closings -> Requests \cup {NoOne}] /\ pc' \in [Requests -> Steps]
    BY <1>3 DEF TypeOK, Steps
  <2>2. wBook' \in [Requests -> [Closings -> BookRow \cup {NoRow}]]
    BY <1>2, <1>3 DEF TypeOK
  <2> QED BY <1>4, <2>1, <2>2 DEF TypeOK
<1>6. \A q \in Requests \ {p} : pc'[q] = pc[q] /\ req'[q] = req[q] /\ view'[q] = view[q]
  BY <1>3, <1>4 DEF TypeOK
<1>7. pc'[p] = "readPending"
  BY <1>3 DEF TypeOK
<1> QED BY <1>1, <1>4, <1>5, <1>6, <1>7, MoveLocal
     DEF ViewOK, PickSteps, SaveSteps, Picking, Marking

\* ReadPending keeps locals and tables well formed.
LEMMA ReadPendingLocal ==
    ASSUME LocalInv, NEW p \in Requests, ReadPending(p) PROVE LocalInv'
<1> USE DEF LocalInv
<1>1. req[p] \in Locals /\ req[p].op # "pick"
  BY DEF TypeOK, ReadPending, OpOK, SaveSteps
<1>2. PICK rows \in SUBSET PendingIds, picked \in BOOLEAN :
          req' = [req EXCEPT ![p] = [@ EXCEPT !.rows = rows, !.picked = picked]]
  <2> DEFINE c      == req[p].c
             offers == RowsOf(c, {"PENDING"})
             taken  == RowsOf(c, {"PICKED"})
  <2>1. PICK rows \in SUBSET (offers \cup taken) :
            req' = [req EXCEPT ![p] = [@ EXCEPT !.rows = rows, !.picked = (taken # {})]]
    BY ZenonT(30) DEF ReadPending
  <2>2. rows \in SUBSET PendingIds /\ (taken # {}) \in BOOLEAN
    BY DEF RowsOf
  <2> QED BY <2>1, <2>2, Zenon
<1>3. pc' = [pc EXCEPT ![p] = "writePending"]
  BY DEF ReadPending, Goto
<1>4. UNCHANGED <<closing, pending, book, offset, expense, clock, cLock, pLock, bLock,
                  wClosing, wPending, wBook, wOffset, view>>
  BY DEF ReadPending, tables, locks, buffers
<1>5. req'[p] \in Locals /\ req'[p].op = req[p].op
  BY <1>1, <1>2 DEF Locals, TypeOK
<1>6. TypeOK'
  BY <1>2, <1>3, <1>4, <1>5 DEF TypeOK, Steps
<1>7. \A q \in Requests \ {p} : pc'[q] = pc[q] /\ req'[q] = req[q] /\ view'[q] = view[q]
  BY <1>2, <1>3, <1>4 DEF TypeOK
<1>8. pc'[p] = "writePending"
  BY <1>3 DEF TypeOK
<1> QED BY <1>1, <1>4, <1>5, <1>6, <1>7, <1>8, MoveLocal
     DEF ViewOK, PickSteps, SaveSteps, Picking, Marking

\* The four branches of WriteOffer, as far as the rows go.
LEMMA WriteOfferOutcome ==
    ASSUME LocalInv, NEW p \in Requests, WriteOffer(p)
    PROVE  /\ \/ UNCHANGED <<pLock, wPending>>
              \/ \E x \in req[p].rows : \E st \in {"inactive", pending[x].state}, amount \in Nat :
                    WritePendingRow(p, x, [pending[x] EXCEPT !.state = st, !.amount = amount])
              \/ /\ req[p].rows = {} /\ ~req[p].picked
                 /\ \E x \in FreeIds :
                      WritePendingRow(p, x, NewPending(req[p].c, Take(req[p].entity)))
           /\ \E entity \in ClosingRow :
                 /\ entity.state = req[p].entity.state
                 /\ req' = [req EXCEPT ![p] = [@ EXCEPT !.entity = entity]]
                 /\ \/ wClosing' = wClosing
                    \/ wClosing' = [wClosing EXCEPT ![p] = [@ EXCEPT ![req[p].c] = entity]]
           /\ \E step \in {"compareClosing", "commit"} : pc' = [pc EXCEPT ![p] = step]
           /\ clock' \in Nat
           /\ UNCHANGED <<closing, pending, book, offset, expense, cLock, bLock, wBook,
                          wOffset, view>>
           /\ pc[p] = "writePending" /\ req[p].op \in {"update", "resync"}
<1> USE DEF LocalInv
<1>1. req[p] \in Locals /\ req[p].entity \in ClosingRow /\ req[p].rows \subseteq PendingIds
  BY DEF TypeOK, Locals
<1>2. \A x \in PendingIds : pending[x] \in PendingRow
  BY DEF TypeOK
<1>3. Take(req[p].entity) \in Nat /\ PickupAfter(p) \in Nat
  BY <1>1, PlanType DEF PickupAfter, ClosingRow
<1>4. \/ UNCHANGED <<pLock, wPending>>
      \/ \E x \in req[p].rows : \E st \in {"inactive", pending[x].state}, amount \in Nat :
            WritePendingRow(p, x, [pending[x] EXCEPT !.state = st, !.amount = amount])
      \/ /\ req[p].rows = {} /\ ~req[p].picked
         /\ \E x \in FreeIds : WritePendingRow(p, x, NewPending(req[p].c, Take(req[p].entity)))
  <2> DEFINE take == Take(req[p].entity)
  <2>1. \A x \in req[p].rows :
           /\ [pending[x] EXCEPT !.state = "inactive"]
                = [pending[x] EXCEPT !.state = "inactive", !.amount = pending[x].amount]
           /\ [pending[x] EXCEPT !.amount = take]
                = [pending[x] EXCEPT !.state = pending[x].state, !.amount = take]
           /\ pending[x].amount \in Nat
    BY <1>1, <1>2 DEF PendingRow
  <2> HIDE DEF take
  <2>2. \/ \E x \in req[p].rows : WritePendingRow(p, x, [pending[x] EXCEPT !.state = "inactive"])
        \/ \E x \in req[p].rows : WritePendingRow(p, x, [pending[x] EXCEPT !.amount = take])
        \/ UNCHANGED <<pLock, wPending>>
        \/ /\ req[p].rows = {} /\ ~NothingToOffer(p)
           /\ \E x \in FreeIds : WritePendingRow(p, x, NewPending(req[p].c, take))
    BY DEF WriteOffer, take
  <2>3. ASSUME NEW x \in req[p].rows, WritePendingRow(p, x, [pending[x] EXCEPT !.state = "inactive"])
        PROVE  \E st \in {"inactive", pending[x].state}, amount \in Nat :
                  WritePendingRow(p, x, [pending[x] EXCEPT !.state = st, !.amount = amount])
    <3> pending[x].amount \in Nat
      BY <2>1
    <3> WITNESS "inactive" \in {"inactive", pending[x].state}, pending[x].amount \in Nat
    <3> QED BY <2>1, <2>3
  <2>4. ASSUME NEW x \in req[p].rows, WritePendingRow(p, x, [pending[x] EXCEPT !.amount = take])
        PROVE  \E st \in {"inactive", pending[x].state}, amount \in Nat :
                  WritePendingRow(p, x, [pending[x] EXCEPT !.state = st, !.amount = amount])
    <3>1. take \in Nat
      BY <1>3 DEF take
    <3> WITNESS pending[x].state \in {"inactive", pending[x].state}, take \in Nat
    <3> QED BY <2>1, <2>4
  <2>5. ~NothingToOffer(p) => ~req[p].picked
    BY DEF NothingToOffer
  <2> QED BY <2>2, <2>3, <2>4, <2>5, Zenon DEF take
<1>5. \E entity \in ClosingRow :
         /\ entity.state = req[p].entity.state
         /\ req' = [req EXCEPT ![p] = [@ EXCEPT !.entity = entity]]
         /\ \/ wClosing' = wClosing
            \/ wClosing' = [wClosing EXCEPT ![p] = [@ EXCEPT ![req[p].c] = entity]]
  <2> DEFINE entity == [req[p].entity EXCEPT !.pickup = PickupAfter(p)]
  <2>1. entity \in ClosingRow /\ entity.state = req[p].entity.state
    BY <1>1, <1>3 DEF ClosingRow
  <2>2. /\ req' = [req EXCEPT ![p] = [@ EXCEPT !.entity = entity]]
        /\ \/ wClosing' = wClosing
           \/ wClosing' = [wClosing EXCEPT ![p] = [@ EXCEPT ![req[p].c] = entity]]
    BY DEF WriteOffer
  <2> QED BY <2>1, <2>2
<1>6. \E step \in {"compareClosing", "commit"} : pc' = [pc EXCEPT ![p] = step]
  BY DEF WriteOffer, Goto
<1>7. clock' \in Nat
  BY DEF WriteOffer, TypeOK
<1>8. UNCHANGED <<closing, pending, book, offset, expense, cLock, bLock, wBook, wOffset, view>>
  BY DEF WriteOffer, tables
<1> QED BY <1>4, <1>5, <1>6, <1>7, <1>8 DEF WriteOffer

\* A buffered row is well formed, and so are the locks.
LEMMA WriteRowType ==
    ASSUME LocalInv, NEW p \in Requests, NEW x \in PendingIds, NEW r \in PendingRow,
           WritePendingRow(p, x, r)
    PROVE  /\ pLock' \in [PendingIds -> Requests \cup {NoOne}]
           /\ wPending' \in [Requests -> [PendingIds -> PendingRow \cup {NoRow}]]
BY DEF WritePendingRow, LocalInv, TypeOK

\* WriteOffer keeps locals and tables well formed.
LEMMA WriteOfferLocal ==
    ASSUME LocalInv, NEW p \in Requests, WriteOffer(p) PROVE LocalInv'
<1> USE DEF LocalInv
<1>1. req[p] \in Locals /\ req[p].c \in Closings /\ req[p].rows \subseteq PendingIds
  BY DEF TypeOK, Locals
<1>2. PICK entity \in ClosingRow :
         /\ req' = [req EXCEPT ![p] = [@ EXCEPT !.entity = entity]]
         /\ \/ wClosing' = wClosing
            \/ wClosing' = [wClosing EXCEPT ![p] = [@ EXCEPT ![req[p].c] = entity]]
  BY WriteOfferOutcome
<1>3. PICK step \in {"compareClosing", "commit"} : pc' = [pc EXCEPT ![p] = step]
  BY WriteOfferOutcome
<1>4. /\ clock' \in Nat
      /\ UNCHANGED <<closing, pending, book, offset, expense, cLock, bLock, wBook, wOffset, view>>
      /\ req[p].op \in {"update", "resync"}
  BY WriteOfferOutcome
<1>5. req'[p] \in Locals /\ req'[p].op = req[p].op
  BY <1>1, <1>2 DEF Locals, TypeOK
<1>6. TypeOK'
  <2>1. wClosing' \in [Requests -> [Closings -> ClosingRow \cup {NoRow}]]
    <3> DEFINE c == req[p].c
    <3>1. c \in Closings /\ wClosing \in [Requests -> [Closings -> ClosingRow \cup {NoRow}]]
      BY <1>1 DEF TypeOK
    <3>2. \/ wClosing' = wClosing
          \/ wClosing' = [wClosing EXCEPT ![p] = [@ EXCEPT ![c] = entity]]
      BY <1>2
    <3> HIDE DEF c
    <3> QED BY <3>1, <3>2
  <2>2. /\ pLock' \in [PendingIds -> Requests \cup {NoOne}]
        /\ wPending' \in [Requests -> [PendingIds -> PendingRow \cup {NoRow}]]
    <3>1. ASSUME NEW x \in req[p].rows, NEW st \in {"inactive", pending[x].state},
                 NEW amount \in Nat
          PROVE  [pending[x] EXCEPT !.state = st, !.amount = amount] \in PendingRow
      <4>1. pending[x] \in PendingRow
        BY <1>1 DEF TypeOK
      <4> QED BY <4>1 DEF PendingRow
    <3>2. NewPending(req[p].c, Take(req[p].entity)) \in PendingRow
      BY <1>1, PlanType DEF TypeOK, NewPending, PendingRow, Locals
    <3>3. FreeIds \subseteq PendingIds
      BY DEF FreeIds
    <3>4. CASE UNCHANGED <<pLock, wPending>>
      BY <3>4 DEF TypeOK
    <3>5. CASE \E x \in req[p].rows : \E st \in {"inactive", pending[x].state}, amount \in Nat :
                 WritePendingRow(p, x, [pending[x] EXCEPT !.state = st, !.amount = amount])
      BY <1>1, <3>1, <3>5, WriteRowType
    <3>6. CASE \E x \in FreeIds : WritePendingRow(p, x, NewPending(req[p].c, Take(req[p].entity)))
      BY <3>2, <3>3, <3>6, WriteRowType
    <3> QED BY <3>4, <3>5, <3>6, WriteOfferOutcome
  <2>3. req' \in [Requests -> Locals] /\ pc' \in [Requests -> Steps]
    BY <1>2, <1>3, <1>5 DEF TypeOK, Steps
  <2> QED BY <1>4, <2>1, <2>2, <2>3 DEF TypeOK
<1>7. \A q \in Requests \ {p} : pc'[q] = pc[q] /\ req'[q] = req[q] /\ view'[q] = view[q]
  BY <1>2, <1>3, <1>4 DEF TypeOK
<1>8. pc'[p] \in {"compareClosing", "commit"}
  BY <1>3 DEF TypeOK
<1> QED BY <1>4, <1>5, <1>6, <1>7, <1>8, MoveLocal
     DEF ViewOK, PickSteps, SaveSteps, Picking, Marking

\* A request that remembers other rows is well formed and does the same operation.
LEMMA SetRowsType ==
    ASSUME NEW r \in Locals, NEW rows \in SUBSET PendingIds
    PROVE  /\ [r EXCEPT !.rows = rows] \in Locals
           /\ [r EXCEPT !.rows = rows].op = r.op
BY DEF Locals

\* CancelPending keeps locals and tables well formed.
LEMMA CancelPendingLocal ==
    ASSUME LocalInv, NEW p \in Requests, CancelPending(p) PROVE LocalInv'
<1> USE DEF LocalInv
<1>1. req[p] \in Locals /\ req[p].rows \subseteq PendingIds /\ req[p].op = "remove"
  BY DEF TypeOK, Locals, CancelPending
<1>2. UNCHANGED <<closing, pending, book, offset, expense, clock, cLock, bLock, wClosing, wBook,
                  wOffset, view>>
  BY DEF CancelPending, tables
<1>3. CASE req[p].rows = {}
  <2>1. pc' = [pc EXCEPT ![p] = "commit"] /\ UNCHANGED <<pLock, wPending, req>>
    BY <1>3 DEF CancelPending, Goto
  <2>2. TypeOK'
    BY <1>2, <2>1 DEF TypeOK, Steps
  <2>3. \A q \in Requests \ {p} : pc'[q] = pc[q] /\ req'[q] = req[q] /\ view'[q] = view[q]
    BY <1>2, <2>1 DEF TypeOK
  <2>4. pc'[p] = "commit" /\ req'[p].op = "remove"
    BY <1>1, <2>1 DEF TypeOK
  <2> QED BY <1>2, <2>2, <2>3, <2>4, MoveLocal DEF ViewOK, PickSteps, SaveSteps, Picking, Marking
<1>4. CASE req[p].rows # {}
  <2>1. PICK x \in req[p].rows :
          /\ WritePendingRow(p, x, [pending[x] EXCEPT !.state = "inactive"])
          /\ req' = [req EXCEPT ![p] = [@ EXCEPT !.rows = req[p].rows \ {x}]]
          /\ UNCHANGED pc
    BY <1>4 DEF CancelPending
  <2>2. [pending[x] EXCEPT !.state = "inactive"] \in PendingRow
    <3>1. pending[x] \in PendingRow
      BY <1>1 DEF TypeOK
    <3> QED BY <3>1 DEF PendingRow
  <2>3. /\ pLock' \in [PendingIds -> Requests \cup {NoOne}]
        /\ wPending' \in [Requests -> [PendingIds -> PendingRow \cup {NoRow}]]
    BY <1>1, <2>1, <2>2, WriteRowType
  <2>4. /\ req' \in [Requests -> Locals] /\ req'[p].op = "remove"
        /\ \A q \in Requests \ {p} : req'[q] = req[q]
    <3> DEFINE next == [req[p] EXCEPT !.rows = req[p].rows \ {x}]
    <3>1. next \in Locals /\ next.op = "remove"
      BY <1>1, SetRowsType
    <3>2. req' = [req EXCEPT ![p] = next] /\ req \in [Requests -> Locals]
      BY <2>1 DEF TypeOK
    <3> HIDE DEF next
    <3> QED BY <3>1, <3>2
  <2>5. TypeOK'
    BY <1>2, <2>1, <2>3, <2>4 DEF TypeOK
  <2>6. \A q \in Requests \ {p} : pc'[q] = pc[q] /\ req'[q] = req[q] /\ view'[q] = view[q]
    BY <1>2, <2>1, <2>4
  <2>7. pc'[p] = "writePending"
    BY <2>1 DEF CancelPending
  <2> QED BY <1>2, <2>4, <2>5, <2>6, <2>7, MoveLocal
       DEF ViewOK, PickSteps, SaveSteps, Picking, Marking
<1> QED BY <1>3, <1>4

\* The locals of one request change.
LEMMA ReqType ==
    ASSUME TypeOK, NEW p \in Requests, NEW r \in Locals, req' = [req EXCEPT ![p] = r]
    PROVE  /\ req' \in [Requests -> Locals] /\ req'[p] = r
           /\ \A q \in Requests \ {p} : req'[q] = req[q]
BY DEF TypeOK

\* An updated closing is a closing.
LEMMA WithColumnsType ==
    ASSUME NEW now \in ClosingRow, NEW row \in ClosingRow, NEW D
    PROVE  WithColumns(now, row, D) \in ClosingRow
BY DEF WithColumns, ClosingRow

\* CompareClosing keeps locals and tables well formed.
LEMMA CompareClosingLocal ==
    ASSUME LocalInv, NEW p \in Requests, CompareClosing(p) PROVE LocalInv'
<1> DEFINE diff == Changed(req[p].entity, closing[req[p].c])
           next == [req[p] EXCEPT !.dirty = diff]
<1>1. req[p] \in Locals /\ req[p].op # "pick"
  BY DEF LocalInv, TypeOK, CompareClosing, OpOK, SaveSteps
<1>2. diff \subseteq Fields
  BY DEF Changed
<1>3. /\ req' = [req EXCEPT ![p] = next] /\ pc' = [pc EXCEPT ![p] = "saveClosing"]
      /\ UNCHANGED <<closing, pending, book, offset, expense, clock, cLock, pLock, bLock,
                     wClosing, wPending, wBook, wOffset, view>>
  BY DEF CompareClosing, Goto, tables, locks, buffers
<1> HIDE DEF diff
<1>4. next \in Locals /\ next.op = req[p].op
  BY <1>1, <1>2 DEF Locals
<1> HIDE DEF next
<1>5. req' \in [Requests -> Locals] /\ req'[p].op # "pick"
      /\ \A q \in Requests \ {p} : req'[q] = req[q]
  BY <1>1, <1>3, <1>4, ReqType DEF LocalInv
<1>6. TypeOK'
  BY <1>3, <1>5 DEF LocalInv, TypeOK, Steps
<1>7. pc'[p] = "saveClosing" /\ \A q \in Requests \ {p} : pc'[q] = pc[q] /\ view'[q] = view[q]
  BY <1>3 DEF LocalInv, TypeOK
<1> QED BY <1>3, <1>5, <1>6, <1>7, MoveLocal
     DEF LocalInv, ViewOK, PickSteps, SaveSteps, Picking, Marking

\* SaveClosing keeps locals and tables well formed.
LEMMA SaveClosingLocal ==
    ASSUME LocalInv, NEW p \in Requests, SaveClosing(p) PROVE LocalInv'
<1> USE DEF LocalInv
<1> DEFINE c   == req[p].c
           row == WithColumns(closing[c], req[p].entity, req[p].dirty)
<1>1. req[p] \in Locals /\ c \in Closings /\ row \in ClosingRow /\ req[p].op # "pick"
  <2>1. req[p] \in Locals /\ c \in Closings /\ closing[c] \in ClosingRow
        /\ req[p].entity \in ClosingRow /\ req[p].op # "pick"
    BY DEF TypeOK, Locals, SaveClosing, OpOK, SaveSteps
  <2> QED BY <2>1, WithColumnsType
<1>2. /\ cLock' = [cLock EXCEPT ![c] = p]
      /\ wClosing' = [wClosing EXCEPT ![p] = [@ EXCEPT ![c] = row]]
      /\ pc' = [pc EXCEPT ![p] = "commit"]
  BY DEF SaveClosing, Goto
<1>3. UNCHANGED <<closing, pending, book, offset, expense, clock, pLock, bLock, wPending, wBook,
                  wOffset, req, view>>
  BY DEF SaveClosing, tables
<1> HIDE DEF row
<1>4. TypeOK'
  <2>1. cLock' \in [Closings -> Requests \cup {NoOne}] /\ pc' \in [Requests -> Steps]
    BY <1>2 DEF TypeOK, Steps
  <2>2. wClosing' \in [Requests -> [Closings -> ClosingRow \cup {NoRow}]]
    BY <1>1, <1>2 DEF TypeOK
  <2> QED BY <1>3, <2>1, <2>2 DEF TypeOK
<1>5. \A q \in Requests \ {p} : pc'[q] = pc[q] /\ req'[q] = req[q] /\ view'[q] = view[q]
  BY <1>2, <1>3 DEF TypeOK
<1>6. pc'[p] = "commit"
  BY <1>2 DEF TypeOK
<1> QED BY <1>1, <1>3, <1>4, <1>5, <1>6, MoveLocal
     DEF ViewOK, PickSteps, SaveSteps, Picking, Marking

\* ListPending keeps locals and tables well formed.
LEMMA ListPendingLocal ==
    ASSUME LocalInv, NEW p \in Requests, ListPending(p) PROVE LocalInv'
<1> USE DEF LocalInv
<1>1. PICK orphans, items :
        /\ pending' = [x \in PendingIds |->
              IF x \in orphans THEN [pending[x] EXCEPT !.state = "inactive"] ELSE pending[x]]
        /\ closing' = [c \in Closings |->
              IF \E x \in orphans : pending[x].closing = c /\ closing[c].state = "live"
                THEN [closing[c] EXCEPT !.pickup = 0] ELSE closing[c]]
        /\ view' = [view EXCEPT ![p] = [@ EXCEPT !.items = items]]
  BY DEF ListPending
<1>2. UNCHANGED <<book, offset, expense, clock, cLock, pLock, bLock, wClosing, wPending, wBook,
                  wOffset, req>>
  BY DEF ListPending, locks, buffers
<1>3. pc' = [pc EXCEPT ![p] = "allocate"] /\ pc[p] = "listPending"
  BY DEF ListPending, Goto
<1>4. pending' \in [PendingIds -> PendingRow]
  <2>1. \A x \in PendingIds : [pending[x] EXCEPT !.state = "inactive"] \in PendingRow
    BY ZenonT(40) DEF TypeOK, PendingRow
  <2> QED BY <1>1, <2>1 DEF TypeOK
<1>5. closing' \in [Closings -> ClosingRow]
  <2>1. \A c \in Closings : [closing[c] EXCEPT !.pickup = 0] \in ClosingRow
    BY ZenonT(40) DEF TypeOK, ClosingRow
  <2> QED BY <1>1, <2>1 DEF TypeOK
<1>6. TypeOK'
  BY <1>2, <1>3, <1>4, <1>5 DEF TypeOK, Steps
<1>7. /\ DOMAIN view' = Requests
      /\ \A q \in Requests \ {p} : pc'[q] = pc[q] /\ req'[q] = req[q] /\ view'[q] = view[q]
  <2>1. DOMAIN view' = Requests /\ \A q \in Requests \ {p} : view'[q] = view[q]
    BY <1>1 DEF ViewOK
  <2> QED BY <1>2, <1>3, <2>1 DEF TypeOK
<1>8. pc'[p] = "allocate" /\ req'[p].op = "pick"
  BY <1>2, <1>3 DEF TypeOK, OpOK, PickSteps
<1> QED BY <1>6, <1>7, <1>8, MoveLocal DEF PickSteps, SaveSteps, Picking, Marking

\* Allocate keeps locals and tables well formed.
LEMMA AllocateLocal ==
    ASSUME LocalInv, NEW p \in Requests, Allocate(p) PROVE LocalInv'
<1> USE DEF LocalInv
<1>1. UNCHANGED <<closing, pending, book, expense, clock, cLock, pLock, bLock, wClosing, wPending,
                  wBook, wOffset>>
  BY DEF Allocate, locks, buffers
<1>2. offset' \in [PendingIds -> [Expenses -> Nat]]
  BY DEF Allocate, TypeOK
<1>3. req[p].op = "pick" /\ pc[p] = "allocate"
  BY DEF Allocate, OpOK, PickSteps
<1>4. PICK take, charged, toPick :
        /\ toPick \in SUBSET PendingIds
        /\ \A x \in toPick : take[x] \in Nat \ {0}
        /\ \/ /\ pc' = [pc EXCEPT ![p] = "done"]
              /\ req' = [req EXCEPT ![p] = NoLocals]
              /\ view' = [view EXCEPT ![p] = NoView]
           \/ /\ pc' = [pc EXCEPT ![p] = "lockPending"]
              /\ req' = [req EXCEPT ![p] = [req[p] EXCEPT !.ids = toPick, !.rows = toPick]]
              /\ view' = [view EXCEPT ![p] = [items |-> {}, take |-> take, charged |-> charged]]
  <2> DEFINE result == ViewOf(view[p].items)
             listed == {x.id : x \in view[p].items}
             toPick == {x \in req[p].ids \cap listed : result.remaining[x] \in Nat \ {0}}
  <2>1. /\ \A x \in toPick : result.remaining[x] \in Nat \ {0}
        /\ toPick \in SUBSET PendingIds
    BY DEF TypeOK, Locals
  <2>2. \/ /\ pc' = [pc EXCEPT ![p] = "done"]
           /\ req' = [req EXCEPT ![p] = NoLocals]
           /\ view' = [view EXCEPT ![p] = NoView]
        \/ /\ pc' = [pc EXCEPT ![p] = "lockPending"]
           /\ req' = [req EXCEPT ![p] = [req[p] EXCEPT !.ids = toPick, !.rows = toPick]]
           /\ view' = [view EXCEPT ![p] = [items |-> {}, take |-> result.remaining,
                                            charged |-> result.charged]]
    BY DEF Allocate, Goto
  <2> HIDE DEF toPick, result
  <2> QED BY <2>1, <2>2, Zenon
<1>5. CASE /\ pc' = [pc EXCEPT ![p] = "done"]
           /\ req' = [req EXCEPT ![p] = NoLocals]
           /\ view' = [view EXCEPT ![p] = NoView]
  <2>1. NoLocals \in Locals
    BY LocalsType
  <2>2. req' \in [Requests -> Locals] /\ \A q \in Requests \ {p} : req'[q] = req[q]
    BY <1>5, <2>1, ReqType
  <2>3. TypeOK'
    BY <1>1, <1>2, <1>5, <2>2 DEF TypeOK, Steps
  <2>4. pc'[p] = "done" /\ DOMAIN view' = Requests
    BY <1>5 DEF TypeOK, ViewOK
  <2>5. \A q \in Requests \ {p} : pc'[q] = pc[q] /\ req'[q] = req[q] /\ view'[q] = view[q]
    BY <1>5, <2>2 DEF TypeOK, ViewOK
  <2> QED BY <2>3, <2>4, <2>5, MoveLocal DEF PickSteps, SaveSteps, Picking, Marking
<1>6. CASE /\ pc' = [pc EXCEPT ![p] = "lockPending"]
           /\ req' = [req EXCEPT ![p] = [req[p] EXCEPT !.ids = toPick, !.rows = toPick]]
           /\ view' = [view EXCEPT ![p] = [items |-> {}, take |-> take, charged |-> charged]]
  <2> DEFINE next == [req[p] EXCEPT !.ids = toPick, !.rows = toPick]
  <2>1. next \in Locals /\ next.op = "pick" /\ next.ids = toPick /\ next.rows = toPick
    <3>1. req[p] \in Locals
      BY DEF TypeOK
    <3> QED BY <1>3, <1>4, <3>1 DEF Locals
  <2> HIDE DEF next
  <2>2. /\ req' \in [Requests -> Locals] /\ req'[p] = next
        /\ \A q \in Requests \ {p} : req'[q] = req[q]
    BY <1>6, <2>1, ReqType DEF next
  <2>3. TypeOK'
    BY <1>1, <1>2, <1>6, <2>2 DEF TypeOK, Steps
  <2>4. pc'[p] = "lockPending" /\ DOMAIN view' = Requests /\ view'[p].take = take
    BY <1>6 DEF TypeOK, ViewOK
  <2>5. \A q \in Requests \ {p} : pc'[q] = pc[q] /\ req'[q] = req[q] /\ view'[q] = view[q]
    BY <1>6, <2>2 DEF TypeOK, ViewOK
  <2>6. \A x \in req'[p].ids : view'[p].take[x] \in Nat
    BY <1>4, <2>1, <2>2, <2>4
  <2> QED BY <2>1, <2>2, <2>3, <2>4, <2>5, <2>6, MoveLocal DEF PickSteps, SaveSteps, Marking
<1> QED BY <1>4, <1>5, <1>6

\* A pick that moves on, with the view it took and no more rows than it asked for.
LEMMA PickLocal ==
    ASSUME LocalInv, NEW p \in Requests, TypeOK', Picking(p), view' = view,
           NEW step, pc' = [pc EXCEPT ![p] = step], step \notin SaveSteps,
           NEW r \in Locals, req' = [req EXCEPT ![p] = r],
           r.op = "pick", r.ids = req[p].ids, r.rows \subseteq r.ids,
           Marking(p)' => r.cur \in r.ids
    PROVE  LocalInv'
<1>1. /\ req'[p] = r
      /\ \A q \in Requests \ {p} : req'[q] = req[q]
  BY ReqType DEF LocalInv
<1>2. \A q \in Requests \ {p} : pc'[q] = pc[q] /\ req'[q] = req[q] /\ view'[q] = view[q]
  BY <1>1 DEF LocalInv, TypeOK
<1>3. pc'[p] = step
  BY DEF LocalInv, TypeOK
<1>4. DOMAIN view' = Requests /\ \A x \in req'[p].ids : view'[p].take[x] \in Nat
  BY <1>1 DEF LocalInv, ViewOK
<1> QED BY <1>1, <1>2, <1>3, <1>4, MoveLocal

\* LockPending keeps locals and tables well formed.
LEMMA LockPendingLocal ==
    ASSUME LocalInv, NEW p \in Requests, LockPending(p) PROVE LocalInv'
<1> DEFINE x    == NextToLock(p)
           next == [req[p] EXCEPT !.rows = req[p].rows \ {x}]
           step == IF req[p].rows = {x} THEN "checkPending" ELSE "lockPending"
<1>1. pc[p] = "lockPending" /\ Picking(p) /\ req[p].op = "pick" /\ req[p] \in Locals
  BY DEF LockPending, Picking, LocalInv, OpOK, PickSteps, TypeOK
<1>2. req[p].rows \subseteq req[p].ids /\ req[p].rows \in SUBSET PendingIds
  BY <1>1 DEF LocalInv, ViewOK, Locals
<1>3. next \in Locals /\ next.op = "pick" /\ next.ids = req[p].ids /\ next.rows \subseteq next.ids
  <2>1. req[p].rows \ {x} \in SUBSET PendingIds /\ req[p].rows \ {x} \subseteq req[p].ids
    BY <1>2
  <2> HIDE DEF x
  <2> QED BY <1>1, <2>1 DEF Locals
<1>4. /\ pLock' = [pLock EXCEPT ![x] = p] /\ req' = [req EXCEPT ![p] = next]
      /\ pc' = [pc EXCEPT ![p] = step]
      /\ UNCHANGED <<closing, pending, book, offset, expense, clock, cLock, bLock, wClosing,
                     wPending, wBook, wOffset, view>>
  BY DEF LockPending, Goto, tables, buffers
<1>5. step \in Steps \ SaveSteps /\ step \in {"checkPending", "lockPending"}
  BY DEF Steps, SaveSteps
<1> HIDE DEF x, next, step
<1>6. req' \in [Requests -> Locals]
  BY <1>3, <1>4, ReqType DEF LocalInv
<1>7. TypeOK'
  BY <1>4, <1>5, <1>6 DEF LocalInv, TypeOK
<1>8. ~Marking(p)'
  BY <1>4, <1>5 DEF Marking, LocalInv, TypeOK
<1> QED BY <1>1, <1>3, <1>4, <1>5, <1>7, <1>8, PickLocal

\* CheckPending keeps locals and tables well formed.
LEMMA CheckPendingLocal ==
    ASSUME LocalInv, NEW p \in Requests, CheckPending(p) PROVE LocalInv'
<1> DEFINE next == [req[p] EXCEPT !.rows = req[p].ids]
<1>1. pc[p] = "checkPending" /\ Picking(p) /\ req[p].op = "pick" /\ req[p] \in Locals
  BY DEF CheckPending, Picking, LocalInv, OpOK, PickSteps, TypeOK
<1>2. next \in Locals /\ next.op = "pick" /\ next.ids = req[p].ids /\ next.rows \subseteq next.ids
  BY <1>1 DEF Locals
<1>3. CASE Rollback(p)
  BY <1>3, RollbackLocal
<1>4. CASE ~Rollback(p)
  <2>1. /\ req' = [req EXCEPT ![p] = next] /\ pc' = [pc EXCEPT ![p] = "readClosing"]
        /\ UNCHANGED <<closing, pending, book, offset, expense, clock, cLock, pLock, bLock,
                       wClosing, wPending, wBook, wOffset, view>>
    BY <1>4 DEF CheckPending, Goto, tables, locks, buffers
  <2> HIDE DEF next
  <2>2. req' \in [Requests -> Locals]
    BY <1>2, <2>1, ReqType DEF LocalInv
  <2>3. TypeOK'
    BY <2>1, <2>2 DEF LocalInv, TypeOK, Steps
  <2>4. ~Marking(p)' /\ "readClosing" \notin SaveSteps
    BY <2>1 DEF Marking, LocalInv, TypeOK, SaveSteps
  <2> QED BY <1>1, <1>2, <2>1, <2>3, <2>4, PickLocal
<1> QED BY <1>3, <1>4

\* A request sees a well formed closing.
LEMMA SeenType ==
    ASSUME LocalInv, NEW p \in Requests, NEW c \in Closings
    PROVE  Seen(wClosing[p], closing, c) \in ClosingRow
BY DEF LocalInv, TypeOK, Seen

\* ReadClosing keeps locals and tables well formed.
LEMMA ReadClosingLocal ==
    ASSUME LocalInv, NEW p \in Requests, ReadClosing(p) PROVE LocalInv'
<1>1. pc[p] = "readClosing" /\ Picking(p) /\ req[p].op = "pick" /\ req[p] \in Locals
  BY DEF ReadClosing, Picking, LocalInv, OpOK, PickSteps, TypeOK
<1>2. req[p].rows \subseteq req[p].ids /\ req[p].rows \in SUBSET PendingIds
  BY <1>1 DEF LocalInv, ViewOK, Locals
<1>3. CASE Rollback(p)
  BY <1>3, RollbackLocal
<1>4. CASE ~Rollback(p)
  <2>1. PICK x \in req[p].rows :
          LET c   == pending[x].closing
              row == Seen(wClosing[p], closing, c)
          IN  /\ req' = [req EXCEPT ![p] = [req[p] EXCEPT !.cur = x, !.c = c, !.entity = row,
                                                          !.rows = req[p].rows \ {x}]]
              /\ pc' = [pc EXCEPT ![p] = "diffClosing"]
              /\ UNCHANGED <<tables, expense, clock, locks, buffers, view>>
    BY <1>4 DEF ReadClosing, Goto
  <2> DEFINE c    == pending[x].closing
             row  == Seen(wClosing[p], closing, c)
             rest == req[p].rows \ {x}
             next == [req[p] EXCEPT !.cur = x, !.c = c, !.entity = row, !.rows = rest]
  <2>2. x \in PendingIds /\ x \in req[p].ids /\ rest \in SUBSET PendingIds
        /\ rest \subseteq req[p].ids
    BY <1>2
  <2>3. c \in Closings
    BY <2>2 DEF LocalInv, TypeOK, PendingRow
  <2>4. row \in ClosingRow
    BY <2>3, SeenType
  <2>5. req' = [req EXCEPT ![p] = next] /\ pc' = [pc EXCEPT ![p] = "diffClosing"]
    BY <2>1
  <2>6. UNCHANGED <<closing, pending, book, offset, expense, clock, cLock, pLock, bLock,
                    wClosing, wPending, wBook, wOffset, view>>
    BY <2>1 DEF tables, locks, buffers
  <2> HIDE DEF c, row, rest
  <2>7. /\ next \in Locals /\ next.op = "pick" /\ next.ids = req[p].ids
        /\ next.rows = rest /\ next.cur = x
    BY <1>1, <2>2, <2>3, <2>4 DEF Locals
  <2> HIDE DEF next
  <2>8. req' \in [Requests -> Locals]
    BY <2>5, <2>7, ReqType DEF LocalInv
  <2>9. TypeOK'
    BY <2>5, <2>6, <2>8 DEF LocalInv, TypeOK, Steps
  <2>10. "diffClosing" \notin SaveSteps
    BY DEF SaveSteps
  <2> QED BY <1>1, <2>2, <2>5, <2>6, <2>7, <2>9, <2>10, PickLocal
<1> QED BY <1>3, <1>4

\* DiffClosing keeps locals and tables well formed.
LEMMA DiffClosingLocal ==
    ASSUME LocalInv, NEW p \in Requests, DiffClosing(p) PROVE LocalInv'
<1> DEFINE old  == req[p].entity
           new  == [old EXCEPT !.who = req[p].who, !.pickup = 0,
                        !.withdrawn = IF old.withdrawn > 0 THEN old.withdrawn
                                      ELSE view[p].take[req[p].cur]]
           diff == Changed(new, Seen(wClosing[p], closing, req[p].c))
           next == [req[p] EXCEPT !.entity = new, !.dirty = diff]
<1>1. pc[p] = "diffClosing" /\ Picking(p) /\ Marking(p) /\ req[p].op = "pick" /\ req[p] \in Locals
  BY DEF DiffClosing, Picking, Marking, LocalInv, OpOK, PickSteps, TypeOK
<1>2. req[p].rows \subseteq req[p].ids /\ req[p].cur \in req[p].ids
      /\ view[p].take[req[p].cur] \in Nat
  BY <1>1 DEF LocalInv, ViewOK
<1>3. old \in ClosingRow /\ req[p].who \in People \cup {NoOne}
  BY <1>1 DEF Locals
<1>4. new \in ClosingRow
  BY <1>2, <1>3 DEF ClosingRow
<1>5. diff \subseteq Fields
  BY DEF Changed
<1>6. /\ req' = [req EXCEPT ![p] = next] /\ pc' = [pc EXCEPT ![p] = "updateClosing"]
      /\ UNCHANGED <<closing, pending, book, offset, expense, clock, cLock, pLock, bLock,
                     wClosing, wPending, wBook, wOffset, view>>
  BY DEF DiffClosing, Goto, tables, locks, buffers
<1> HIDE DEF new, diff
<1>7. /\ next \in Locals /\ next.op = "pick" /\ next.ids = req[p].ids
      /\ next.rows = req[p].rows /\ next.cur = req[p].cur
  BY <1>1, <1>4, <1>5 DEF Locals
<1> HIDE DEF next
<1>8. req' \in [Requests -> Locals]
  BY <1>6, <1>7, ReqType DEF LocalInv
<1>9. TypeOK'
  BY <1>6, <1>8 DEF LocalInv, TypeOK, Steps
<1>10. "updateClosing" \notin SaveSteps
  BY DEF SaveSteps
<1> QED BY <1>1, <1>2, <1>6, <1>7, <1>9, <1>10, PickLocal

\* A pick that moves on without touching its locals.
LEMMA SamePickLocal ==
    ASSUME LocalInv, NEW p \in Requests, TypeOK', Marking(p), req[p].op = "pick",
           NEW step, pc' = [pc EXCEPT ![p] = step], step \notin SaveSteps,
           UNCHANGED <<req, view>>
    PROVE  LocalInv'
<1>1. /\ Picking(p) /\ req[p] \in Locals
      /\ req[p].rows \subseteq req[p].ids /\ req[p].cur \in req[p].ids
  BY DEF Picking, Marking, LocalInv, ViewOK, TypeOK
<1>2. req' = [req EXCEPT ![p] = req[p]]
  BY DEF LocalInv, TypeOK
<1> QED BY <1>1, <1>2, PickLocal

\* UpdateClosing keeps locals and tables well formed.
LEMMA UpdateClosingLocal ==
    ASSUME LocalInv, NEW p \in Requests, UpdateClosing(p) PROVE LocalInv'
<1> DEFINE c   == req[p].c
           row == WithColumns(Seen(wClosing[p], closing, c), req[p].entity, req[p].dirty)
<1>1. pc[p] = "updateClosing" /\ Marking(p) /\ req[p].op = "pick" /\ req[p] \in Locals
  BY DEF UpdateClosing, Marking, LocalInv, OpOK, PickSteps, TypeOK
<1>2. c \in Closings /\ req[p].entity \in ClosingRow
  BY <1>1 DEF Locals
<1>4. row \in ClosingRow
  BY <1>2, SeenType, WithColumnsType
<1>5. /\ cLock' = [cLock EXCEPT ![c] = p]
      /\ wClosing' = [wClosing EXCEPT ![p] = [@ EXCEPT ![c] = row]]
      /\ pc' = [pc EXCEPT ![p] = "lockBook"]
      /\ UNCHANGED <<closing, pending, book, offset, expense, clock, pLock, bLock, wPending,
                     wBook, wOffset, req, view>>
  BY DEF UpdateClosing, Goto, tables
<1> HIDE DEF c, row
<1>6. /\ cLock' \in [Closings -> Requests \cup {NoOne}]
      /\ wClosing' \in [Requests -> [Closings -> ClosingRow \cup {NoRow}]]
  BY <1>2, <1>4, <1>5 DEF LocalInv, TypeOK
<1>7. TypeOK'
  BY <1>5, <1>6 DEF LocalInv, TypeOK, Steps
<1>8. "lockBook" \notin SaveSteps
  BY DEF SaveSteps
<1> QED BY <1>1, <1>5, <1>7, <1>8, SamePickLocal

\* MarkPicked keeps locals and tables well formed.
LEMMA MarkPickedLocal ==
    ASSUME LocalInv, NEW p \in Requests, MarkPicked(p) PROVE LocalInv'
<1> DEFINE c       == req[p].c
           x       == req[p].cur
           entries == PlanWithoutSources(req[p].entity)
           row     == [pending[x] EXCEPT !.state = "PICKED", !.amount = view[p].take[x]]
           charge  == [e \in Expenses |->
                         LET charged == view[p].charged[x]
                         IN  IF e \in DOMAIN charged /\ charged[e] \in Nat /\ offset[x][e] = 0
                               THEN charged[e] ELSE 0]
           step    == IF req[p].rows = {} THEN "commit" ELSE "readClosing"
<1>1. pc[p] = "lockBook" /\ Marking(p) /\ Picking(p) /\ req[p].op = "pick" /\ req[p] \in Locals
  BY DEF MarkPicked, Marking, Picking, LocalInv, TypeOK
<1>2. /\ c \in Closings /\ x \in PendingIds /\ x \in req[p].ids
      /\ req[p].entity \in ClosingRow /\ view[p].take[x] \in Nat
  BY <1>1 DEF Locals, LocalInv, ViewOK
<1>3. entries \in BookRow
  BY <1>2, PlanType
<1>4. row \in PendingRow
  <2>1. pending[x] \in PendingRow
    BY <1>2 DEF LocalInv, TypeOK
  <2> QED BY <1>2, <2>1 DEF PendingRow
<1>5. charge \in [Expenses -> Nat]
  OBVIOUS
<1>6. /\ bLock' = [bLock EXCEPT ![c] = p]
      /\ wBook' = [wBook EXCEPT ![p] = [@ EXCEPT ![c] = entries]]
      /\ wPending' = [wPending EXCEPT ![p] = [@ EXCEPT ![x] = row]]
      /\ wOffset' = [wOffset EXCEPT ![p] = [@ EXCEPT ![x] = charge]]
      /\ pc' = [pc EXCEPT ![p] = step]
      /\ UNCHANGED <<closing, pending, book, offset, expense, clock, cLock, pLock, wClosing,
                     req, view>>
  BY DEF MarkPicked, Goto, tables
<1>7. step \in Steps \ SaveSteps
  BY DEF Steps, SaveSteps
<1> HIDE DEF c, x, entries, row, charge, step
<1>8. /\ bLock' \in [Closings -> Requests \cup {NoOne}]
      /\ wBook' \in [Requests -> [Closings -> BookRow \cup {NoRow}]]
  BY <1>2, <1>3, <1>6 DEF LocalInv, TypeOK
<1>9. wPending' \in [Requests -> [PendingIds -> PendingRow \cup {NoRow}]]
  BY <1>2, <1>4, <1>6 DEF LocalInv, TypeOK
<1>10. wOffset' \in [Requests -> [PendingIds -> [Expenses -> Nat]]]
  BY <1>2, <1>5, <1>6 DEF LocalInv, TypeOK
<1>11. TypeOK'
  BY <1>6, <1>7, <1>8, <1>9, <1>10 DEF LocalInv, TypeOK
<1> QED BY <1>1, <1>6, <1>7, <1>11, SamePickLocal

\* Nothing changes.
LEMMA StutterLocal ==
    ASSUME LocalInv, UNCHANGED vars PROVE LocalInv'
BY DEF vars, tables, locks, buffers, LocalInv, TypeOK, OpOK, ViewOK, Picking, Marking

\* Every step keeps locals and tables well formed.
LEMMA NextLocal ==
    ASSUME LocalInv, [Next]_vars PROVE LocalInv'
<1>1. CASE Environment
  BY <1>1, EnvironmentLocal
<1>2. CASE UNCHANGED vars
  BY <1>2, StutterLocal
<1>3. ASSUME NEW p \in Requests, Start(p) PROVE LocalInv'
  BY <1>3, StartLocal
<1>4. ASSUME NEW p \in Requests, TransactionStep(p) PROVE LocalInv'
  BY <1>4, LockClosingLocal, LoadClosingLocal, LockBookLocal, ReadPendingLocal, WriteOfferLocal,
     CancelPendingLocal, CompareClosingLocal, SaveClosingLocal, ListPendingLocal, AllocateLocal, LockPendingLocal,
     CheckPendingLocal, ReadClosingLocal, DiffClosingLocal, UpdateClosingLocal, MarkPickedLocal,
     CommitLocal
     DEF TransactionStep
<1>5. ASSUME NEW p \in Requests, DeadlockVictim(p) \/ Die(p) PROVE LocalInv'
  BY <1>5, RollbackLocal DEF DeadlockVictim, Die
<1> QED BY <1>1, <1>2, <1>3, <1>4, <1>5 DEF Next

\* Every table, lock, buffer and local keeps its type: in particular every amount that
\* a save, a regeneration or a pickup writes is a natural number.
THEOREM TypeCorrect == Spec => []TypeOK
<1>1. Init => LocalInv
  BY LocalInit
<1>2. LocalInv /\ [Next]_vars => LocalInv'
  BY NextLocal
<1>3. LocalInv => TypeOK
  BY DEF LocalInv
<1> QED BY <1>1, <1>2, <1>3, PTL DEF Spec

-----------------------------------------------------------------------------
(* Safety                                                                    *)

EntitySteps == {"lockBook", "readPending", "writePending", "compareClosing", "saveClosing",
                "diffClosing", "updateClosing"}

Regenerating(p) ==
    \/ pc[p] \in {"readPending", "writePending"}
    \/ pc[p] \in {"compareClosing", "saveClosing", "commit"} /\ req[p].op \notin {"pick", "unlock"}

\* A closing somebody works on exists, as read, as written and as committed.
ClosingOf(p) ==
    /\ \A c \in Closings : wClosing[p][c] # NoRow => wClosing[p][c].state # "absent"
    /\ pc[p] \in EntitySteps => req[p].entity.state # "absent"
    /\ pc[p] \in EntitySteps \/ Regenerating(p) => closing[req[p].c].state # "absent"

\* Nothing is written before a transaction comes to write it, and an unlock writes no offer.
Quiet(p) ==
    \/ req[p].op = "unlock"
    \/ pc[p] \in Outside \cup {"readPending"}
    \/ pc[p] = "lockBook" /\ req[p].op # "pick"
    \/ pc[p] = "writePending" /\ req[p].op # "remove"

QuietOf(p) == Quiet(p) => \A x \in PendingIds : wPending[p][x] = NoRow

\* Regenerating the ledger of a closing keeps everybody else out of its offer.
BookOf(p) == Regenerating(p) => bLock[req[p].c] = p

\* What was read of the offer of the closing.
OfferOf(p) ==
    pc[p] = "writePending" =>
        /\ \A x \in req[p].rows :
              /\ pending[x].state # "absent" /\ pending[x].closing = req[p].c
              /\ req[p].op # "remove" => pending[x].state # "PICKED"
        /\ req[p].op # "remove" /\ req[p].rows = {} /\ ~req[p].picked =>
              RowsOf(req[p].c, Active) = {}

Checked(p) == pc[p] = "readClosing" \/ Marking(p) \/ (pc[p] = "commit" /\ req[p].op = "pick")

\* The rows of a pick are locked one by one, then checked, and stay what they were.
LocksOf(p) ==
    /\ pc[p] \in {"lockPending", "checkPending"} =>
          \A x \in req[p].ids \ req[p].rows : pLock[x] = p
    /\ pc[p] = "checkPending" => req[p].rows = {}
    /\ Checked(p) => \A x \in req[p].ids : pLock[x] = p /\ pending[x].state = "PENDING"
    /\ Marking(p) => req[p].c = pending[req[p].cur].closing

Inserts(p, x) == wPending[p][x] # NoRow /\ pending[x].state = "absent"

\* An uncommitted row: locked, of the same closing, active only if it was active, or
\* the only row its transaction inserts, in a closing without active rows.
WriteOK(p, x) ==
    /\ pLock[x] = p
    /\ wPending[p][x].state # "absent"
    /\ wPending[p][x].state = "PICKED" =>
          /\ pc[p] \in {"readClosing", "diffClosing", "updateClosing", "lockBook", "commit"}
          /\ req[p].op = "pick" /\ x \in req[p].ids /\ bLock[pending[x].closing] = p
    /\ pending[x].state # "absent" =>
          /\ wPending[p][x].closing = pending[x].closing
          /\ wPending[p][x].state \in Active => pending[x].state \in Active
    /\ pending[x].state = "absent" =>
          /\ pc[p] \in {"compareClosing", "saveClosing", "commit"}
          /\ req[p].op \notin {"pick", "unlock"}
          /\ wPending[p][x].closing = req[p].c
          /\ RowsOf(req[p].c, Active) = {}
          /\ \A y \in PendingIds : Inserts(p, y) => y = x

WriteOf(p) == \A x \in PendingIds : wPending[p][x] # NoRow => WriteOK(p, x)

Knows(p) == ClosingOf(p) /\ QuietOf(p) /\ BookOf(p) /\ OfferOf(p) /\ LocksOf(p) /\ WriteOf(p)

\* Every row belongs to a closing that exists or has existed.
RowsHaveClosing ==
    \A x \in PendingIds : pending[x].state # "absent" => closing[pending[x].closing].state # "absent"

IInv ==
    /\ LocalInv
    /\ \A p \in Requests : Knows(p)
    /\ RowsHaveClosing
    /\ CashOfferedOnce

-----------------------------------------------------------------------------
(* What others may do                                                        *)

\* The step leaves q where it is, with the locks it holds.
Leaves(q) ==
    /\ pc'[q] = pc[q] /\ req'[q] = req[q] /\ wPending'[q] = wPending[q] /\ wClosing'[q] = wClosing[q]
    /\ \A x \in PendingIds : pLock[x] = q => pLock'[x] = q
    /\ \A c \in Closings : bLock[c] = q => bLock'[c] = q

\* Rows and closings do not vanish; what q has locked stays, and the offer of a closing
\* whose ledger q has locked gets no new active row and no pickup.
Harmless(q) ==
    /\ \A c \in Closings : closing[c].state # "absent" => closing'[c].state # "absent"
    /\ \A x \in PendingIds : pending[x].state # "absent" =>
          pending'[x].state # "absent" /\ pending'[x].closing = pending[x].closing
    /\ \A x \in PendingIds :
          pLock[x] = q /\ (pending[x].state # "absent" \/ wPending[q][x] # NoRow) =>
              pending'[x] = pending[x]
    /\ \A x \in PendingIds :
          /\ pending'[x].state \in Active /\ bLock[pending'[x].closing] = q
          /\ closing[pending'[x].closing].state # "absent"
          => pending[x].state \in Active /\ pending[x].closing = pending'[x].closing
    /\ \A x \in PendingIds :
          /\ pending[x].state # "absent" /\ bLock[pending[x].closing] = q
          /\ pending[x].state # "PICKED"
          => pending'[x].state # "PICKED"

\* What a request knows stays true when others leave it alone and commit what is harmless to it.
LEMMA KnowsKept ==
    ASSUME LocalInv, NEW q \in Requests, Knows(q), Leaves(q), Harmless(q)
    PROVE  Knows(q)'
<1> DEFINE c == req[q].c
<1>1. req[q] \in Locals /\ c \in Closings /\ req[q].rows \subseteq PendingIds
      /\ req[q].ids \subseteq PendingIds /\ req[q].cur \in PendingIds
  BY DEF LocalInv, TypeOK, Locals
<1>2. \A x \in PendingIds : pending[x].closing \in Closings
  BY DEF LocalInv, TypeOK, PendingRow
<1>3. RowsOf(c, Active) = {} /\ bLock[c] = q /\ closing[c].state # "absent"
         => (RowsOf(c, Active) = {})'
  BY <1>1 DEF Harmless, RowsOf, Active, Leaves
<1>4. ClosingOf(q)'
  BY <1>1 DEF Knows, ClosingOf, Leaves, Harmless, Regenerating
<1>5. QuietOf(q)' /\ BookOf(q)'
  BY <1>1 DEF Knows, QuietOf, BookOf, Leaves, Quiet, Regenerating
<1>6. OfferOf(q)'
  BY <1>1, <1>3 DEF Knows, OfferOf, Leaves, Harmless, BookOf, ClosingOf, Regenerating, EntitySteps
<1>7. LocksOf(q)'
  <2>1. Marking(q) => req[q].cur \in req[q].ids
    BY DEF LocalInv, ViewOK
  <2>2. Marking(q)' = Marking(q) /\ Checked(q)' = Checked(q)
    BY DEF Leaves, Marking, Checked
  <2>3. Marking(q) => Checked(q)
    BY DEF Checked
  <2> QED BY <1>1, <2>1, <2>2, <2>3 DEF Knows, LocksOf, Leaves, Harmless
<1>8. WriteOf(q)'
  <2> SUFFICES ASSUME NEW x \in PendingIds, wPending[q][x] # NoRow PROVE WriteOK(q, x)'
    BY DEF WriteOf, Leaves
  <2>1. WriteOK(q, x)
    BY DEF Knows, WriteOf
  <2>2. /\ pLock'[x] = q /\ pending'[x] = pending[x]
        /\ wPending'[q] = wPending[q] /\ pc'[q] = pc[q] /\ req'[q] = req[q]
        /\ \A d \in Closings : bLock[d] = q => bLock'[d] = q
    BY <2>1 DEF WriteOK, Leaves, Harmless
  <2>3. \A y \in PendingIds : Inserts(q, y)' => Inserts(q, y)
    BY <2>2 DEF Inserts, Harmless
  <2>4. pending[x].state = "absent" => (RowsOf(c, Active) = {})'
    <3> SUFFICES ASSUME pending[x].state = "absent" PROVE (RowsOf(c, Active) = {})'
      BY Zenon
    <3>1. Regenerating(q) /\ RowsOf(c, Active) = {}
      BY <2>1 DEF WriteOK, Regenerating
    <3>2. bLock[c] = q /\ closing[c].state # "absent"
      BY <3>1 DEF Knows, BookOf, ClosingOf
    <3> QED BY <1>3, <3>1, <3>2
  <2> QED BY <1>1, <1>2, <2>1, <2>2, <2>3, <2>4 DEF WriteOK, Active
<1> QED BY <1>4, <1>5, <1>6, <1>7, <1>8 DEF Knows

-----------------------------------------------------------------------------
(* A request leaves the others alone                                         *)

\* A transaction that ends touches no other request.
LEMMA EndLeaves ==
    ASSUME LocalInv, NEW p \in Requests, NEW q \in Requests \ {p}, EndOfTransaction(p)
    PROVE  Leaves(q)
BY CashPickupAssumption DEF EndOfTransaction, Leaves, Released, LocalInv, TypeOK

\* A step of a request touches no other.
LEMMA StepLeaves ==
    ASSUME LocalInv, NEW p \in Requests, NEW q \in Requests \ {p}, Start(p) \/ TransactionStep(p)
    PROVE  Leaves(q)
<1> USE CashPickupAssumption DEF LocalInv
<1>1. CASE Start(p)
  BY <1>1 DEF Start, StartOnClosing, StartPick, Goto, Leaves, locks, buffers, TypeOK
<1>2. ASSUME LockClosing(p) PROVE Leaves(q)
  BY <1>2, EndLeaves DEF LockClosing, Rollback, Goto, Leaves, TypeOK
<1>3. ASSUME LoadClosing(p) PROVE Leaves(q)
  BY <1>3, EndLeaves DEF LoadClosing, Rollback, Goto, Leaves, locks, buffers, TypeOK
<1>4. ASSUME LockBook(p) PROVE Leaves(q)
  BY <1>4 DEF LockBook, Goto, Leaves, TypeOK
<1>5. ASSUME ReadPending(p) PROVE Leaves(q)
  BY <1>5 DEF ReadPending, Goto, Leaves, locks, buffers, TypeOK
<1>6. ASSUME WriteOffer(p) PROVE Leaves(q)
  BY <1>6 DEF WriteOffer, WritePendingRow, FreeOrMine, Goto, Leaves, TypeOK
<1>7. ASSUME CancelPending(p) PROVE Leaves(q)
  BY <1>7 DEF CancelPending, WritePendingRow, FreeOrMine, Goto, Leaves, TypeOK
<1>8. ASSUME CompareClosing(p) \/ SaveClosing(p) PROVE Leaves(q)
  BY <1>8 DEF CompareClosing, SaveClosing, Goto, Leaves, locks, buffers, TypeOK
<1>9. ASSUME ListPending(p) PROVE Leaves(q)
  BY <1>9 DEF ListPending, Goto, Leaves, locks, buffers, TypeOK
<1>10. ASSUME Allocate(p) PROVE Leaves(q)
  BY <1>10 DEF Allocate, Goto, Leaves, locks, buffers, TypeOK
<1>11. ASSUME LockPending(p) PROVE Leaves(q)
  BY <1>11 DEF LockPending, Goto, Leaves, buffers, TypeOK
<1>12. ASSUME CheckPending(p) PROVE Leaves(q)
  BY <1>12, EndLeaves DEF CheckPending, Rollback, Goto, Leaves, locks, buffers, TypeOK
<1>13. ASSUME ReadClosing(p) PROVE Leaves(q)
  BY <1>13, EndLeaves DEF ReadClosing, Rollback, Goto, Leaves, locks, buffers, TypeOK
<1>14. ASSUME DiffClosing(p) PROVE Leaves(q)
  BY <1>14 DEF DiffClosing, Goto, Leaves, locks, buffers, TypeOK
<1>15. ASSUME UpdateClosing(p) PROVE Leaves(q)
  BY <1>15 DEF UpdateClosing, Goto, Leaves, TypeOK
<1>16. ASSUME MarkPicked(p) PROVE Leaves(q)
  BY <1>16 DEF MarkPicked, FreeOrMine, Goto, Leaves, TypeOK
<1>17. ASSUME Commit(p) PROVE Leaves(q)
  BY <1>17, EndLeaves DEF Commit
<1> QED BY <1>1, <1>2, <1>3, <1>4, <1>5, <1>6, <1>7, <1>8, <1>9, <1>10, <1>11, <1>12, <1>13,
           <1>14, <1>15, <1>16, <1>17 DEF TransactionStep

-----------------------------------------------------------------------------
(* A request keeps what it knows                                             *)

\* What the type invariant says of the locals of one request.
LEMMA LocalsOf ==
    ASSUME LocalInv, NEW p \in Requests
    PROVE  /\ req[p] \in Locals /\ req[p].c \in Closings /\ req[p].entity \in ClosingRow
           /\ req[p].rows \subseteq PendingIds /\ req[p].ids \subseteq PendingIds
           /\ req[p].cur \in PendingIds
           /\ \A x \in PendingIds : pending[x].closing \in Closings
           /\ \A c \in Closings : closing[c].state \in {"absent", "live", "removed"}
BY DEF LocalInv, TypeOK, Locals, PendingRow, ClosingRow

\* A request that has ended knows nothing.
LEMMA EndKnows ==
    ASSUME LocalInv, NEW p \in Requests, EndOfTransaction(p) PROVE Knows(p)'
<1>1. /\ pc'[p] = "done"
      /\ \A x \in PendingIds : wPending'[p][x] = NoRow
      /\ \A c \in Closings : wClosing'[p][c] = NoRow
  BY DEF EndOfTransaction, LocalInv, TypeOK, NoWrites
<1> QED BY <1>1 DEF Knows, ClosingOf, QuietOf, BookOf, OfferOf, LocksOf, WriteOf, EntitySteps,
                    Regenerating, Checked, Marking

\* A request with nothing written, at a step that asks nothing of the pending rows.
LEMMA QuietKnows ==
    ASSUME LocalInv, NEW p \in Requests, Quiet(p), QuietOf(p),
           UNCHANGED wPending,
           pc'[p] \in {"lockClosing", "loadClosing", "lockBook", "readPending", "listPending",
                      "allocate", "compareClosing", "saveClosing", "done"},
           pc'[p] = "lockBook" => req'[p].op # "pick",
           ClosingOf(p)', BookOf(p)'
    PROVE  Knows(p)'
<1>1. \A x \in PendingIds : wPending'[p][x] = NoRow
  BY DEF QuietOf
<1>2. QuietOf(p)' /\ WriteOf(p)'
  BY <1>1 DEF QuietOf, WriteOf
<1>3. OfferOf(p)' /\ LocksOf(p)'
  BY DEF OfferOf, LocksOf, Checked, Marking
<1> QED BY <1>2, <1>3 DEF Knows

\* A request that starts knows what its first step relies on.
LEMMA StartKnows ==
    ASSUME LocalInv, NEW p \in Requests, Knows(p), Start(p) PROVE Knows(p)'
<1>1. /\ pc[p] = "idle" /\ pc'[p] \in {"loadClosing", "lockClosing", "listPending"}
      /\ UNCHANGED <<closing, wClosing, wPending>>
  BY DEF Start, StartOnClosing, StartPick, Goto, tables, buffers, LocalInv, TypeOK
<1>2. ClosingOf(p)' /\ BookOf(p)'
  BY <1>1 DEF Knows, ClosingOf, BookOf, EntitySteps, Regenerating
<1>3. Quiet(p) /\ QuietOf(p)
  BY <1>1 DEF Knows, Quiet, Outside
<1> QED BY <1>1, <1>2, <1>3, QuietKnows

\* After LockClosing the request knows what its new step relies on.
LEMMA LockClosingKnows ==
    ASSUME LocalInv, NEW p \in Requests, Knows(p), LockClosing(p) PROVE Knows(p)'
<1> DEFINE c == req[p].c
<1>1. CASE closing[c].state # "live"
  BY <1>1, EndKnows DEF LockClosing, Rollback
<1>2. CASE closing[c].state = "live"
  <2>1. PICK row :
          /\ row.state # "absent"
          /\ wClosing' = [wClosing EXCEPT ![p] = [@ EXCEPT ![c] = row]]
          /\ req' = [req EXCEPT ![p] = [@ EXCEPT !.entity = row]]
          /\ pc' = [pc EXCEPT ![p] = "lockBook"]
          /\ UNCHANGED <<tables, wPending>>
    <3>1. PICK dto \in Edits :
            LET row == IF req[p].op = "remove" THEN [closing[c] EXCEPT !.state = "removed"]
                                               ELSE Patch(closing[c], dto)
            IN  /\ wClosing' = [wClosing EXCEPT ![p] = [@ EXCEPT ![c] = row]]
                /\ req' = [req EXCEPT ![p] = [@ EXCEPT !.entity = row]]
                /\ pc' = [pc EXCEPT ![p] = "lockBook"]
                /\ UNCHANGED <<tables, wPending>>
      BY <1>2 DEF LockClosing, Goto
    <3>2. /\ Patch(closing[c], dto).state # "absent"
          /\ [closing[c] EXCEPT !.state = "removed"].state # "absent"
      BY <1>2, LocalsOf DEF Patch, LocalInv, TypeOK, ClosingRow
    <3> QED BY <3>1, <3>2
  <2>2. /\ pc'[p] = "lockBook" /\ req'[p].entity = row /\ req'[p].c = c /\ req'[p].op = req[p].op
        /\ closing' = closing /\ wPending' = wPending
    BY <2>1, LocalsOf DEF LocalInv, TypeOK, tables, Locals
  <2>3. pc[p] = "lockClosing" /\ req[p].op # "pick"
    BY DEF LockClosing, LocalInv, OpOK, SaveSteps
  <2>4. ClosingOf(p)' /\ BookOf(p)'
    <3>1. \A d \in Closings : wClosing'[p][d] # NoRow => wClosing'[p][d].state # "absent"
      BY <2>1 DEF Knows, ClosingOf, LocalInv, TypeOK
    <3> QED BY <1>2, <2>1, <2>2, <3>1 DEF ClosingOf, BookOf, EntitySteps, Regenerating
  <2>5. Quiet(p) /\ QuietOf(p)
    BY <2>3 DEF Knows, Quiet, Outside
  <2> QED BY <2>2, <2>3, <2>4, <2>5, QuietKnows
<1> QED BY <1>1, <1>2

\* After LoadClosing the request knows what its new step relies on.
LEMMA LoadClosingKnows ==
    ASSUME LocalInv, NEW p \in Requests, Knows(p), LoadClosing(p) PROVE Knows(p)'
<1> DEFINE c == req[p].c
<1>1. CASE closing[c].state # "live"
  BY <1>1, EndKnows DEF LoadClosing, Rollback
<1>2. CASE closing[c].state = "live"
  <2>1. /\ req' = [req EXCEPT ![p] = [@ EXCEPT !.entity = closing[c]]]
        /\ pc' = [pc EXCEPT ![p] = IF req[p].op = "unlock" THEN "compareClosing" ELSE "lockBook"]
        /\ UNCHANGED <<closing, wClosing, wPending>>
    BY <1>2 DEF LoadClosing, Goto, tables, buffers
  <2>2. /\ pc'[p] = (IF req[p].op = "unlock" THEN "compareClosing" ELSE "lockBook")
        /\ req'[p].entity = closing[c] /\ req'[p].c = c
        /\ req'[p].op = req[p].op
    BY <2>1, LocalsOf DEF LocalInv, TypeOK, Locals
  <2>3. pc[p] = "loadClosing" /\ req[p].op # "pick"
    BY DEF LoadClosing, LocalInv, OpOK, SaveSteps
  <2>4. ClosingOf(p)' /\ BookOf(p)'
    BY <1>2, <2>1, <2>2 DEF Knows, ClosingOf, BookOf, EntitySteps, Regenerating
  <2>5. Quiet(p) /\ QuietOf(p)
    BY <2>3 DEF Knows, Quiet, Outside
  <2> QED BY <2>1, <2>2, <2>3, <2>4, <2>5, QuietKnows
<1> QED BY <1>1, <1>2

\* After LockBook the request knows what its new step relies on.
LEMMA LockBookKnows ==
    ASSUME LocalInv, NEW p \in Requests, Knows(p), LockBook(p) PROVE Knows(p)'
<1>1. /\ pc[p] = "lockBook" /\ req[p].op # "pick" /\ pc'[p] = "readPending"
      /\ UNCHANGED <<closing, wClosing, wPending, req>> /\ bLock'[req[p].c] = p
  BY LocalsOf DEF LockBook, Goto, tables, LocalInv, TypeOK
<1>2. ClosingOf(p)' /\ BookOf(p)'
  BY <1>1 DEF Knows, ClosingOf, BookOf, EntitySteps, Regenerating
<1>3. Quiet(p) /\ QuietOf(p)
  BY <1>1 DEF Knows, Quiet, Outside
<1> QED BY <1>1, <1>2, <1>3, QuietKnows

\* After ListPending the request knows what its new step relies on.
LEMMA ListPendingKnows ==
    ASSUME LocalInv, NEW p \in Requests, Knows(p), ListPending(p) PROVE Knows(p)'
<1>1. /\ pc[p] = "listPending" /\ pc'[p] = "allocate"
      /\ UNCHANGED <<wClosing, wPending, req>>
  BY DEF ListPending, Goto, buffers, LocalInv, TypeOK
<1>2. ClosingOf(p)' /\ BookOf(p)'
  BY <1>1 DEF Knows, ClosingOf, BookOf, EntitySteps, Regenerating
<1>3. Quiet(p) /\ QuietOf(p)
  BY <1>1 DEF Knows, Quiet, Outside
<1> QED BY <1>1, <1>2, <1>3, QuietKnows

\* After ReadPending the request knows what its new step relies on.
LEMMA ReadPendingKnows ==
    ASSUME LocalInv, NEW p \in Requests, Knows(p), ReadPending(p) PROVE Knows(p)'
<1> DEFINE c == req[p].c
           offers == RowsOf(c, {"PENDING"})
           taken == RowsOf(c, {"PICKED"})
<1>1. PICK rows \in SUBSET (offers \cup taken) :
        /\ IF req[p].op = "remove"
             THEN rows = offers \cup taken
             ELSE /\ rows \subseteq offers
                  /\ IF offers = {} THEN rows = {} ELSE \E x \in offers : rows = {x}
        /\ req' = [req EXCEPT ![p].rows = rows, ![p].picked = (taken # {})]
  BY ZenonT(60) DEF ReadPending
<1>2. /\ req'[p].rows = rows /\ req'[p].c = c /\ req'[p].op = req[p].op
      /\ req'[p].entity = req[p].entity
  BY <1>1, LocalsOf DEF LocalInv, TypeOK, Locals
<1>3. req'[p].picked = (taken # {})
  BY <1>1, LocalsOf, Zenon DEF LocalInv, TypeOK, Locals
<1>4. /\ pc[p] = "readPending" /\ pc'[p] = "writePending" /\ req[p].op # "pick"
      /\ UNCHANGED <<closing, pending, wClosing, wPending, bLock>>
  BY DEF ReadPending, Goto, tables, buffers, locks, LocalInv, TypeOK, OpOK, SaveSteps
<1>5. ClosingOf(p)' /\ BookOf(p)'
  BY <1>2, <1>4 DEF Knows, ClosingOf, BookOf, EntitySteps, Regenerating
<1>6. \A x \in PendingIds : wPending[p][x] = NoRow
  BY <1>4 DEF Knows, QuietOf, Quiet
<1>7. QuietOf(p)' /\ WriteOf(p)'
  BY <1>4, <1>6 DEF QuietOf, WriteOf
<1>8. OfferOf(p)'
  <2>1. \A x \in rows : /\ x \in PendingIds /\ pending[x].state # "absent" /\ pending[x].closing = c
                        /\ req[p].op # "remove" => pending[x].state # "PICKED"
    BY <1>1 DEF RowsOf
  <2>2. req[p].op # "remove" /\ rows = {} /\ taken = {} => RowsOf(c, Active) = {}
    BY <1>1 DEF RowsOf, Active
  <2>3. (RowsOf(req[p].c, Active))' = RowsOf(c, Active)
    BY <1>2, <1>4 DEF RowsOf
  <2> HIDE DEF taken, offers
  <2> QED BY <1>2, <1>3, <1>4, <2>1, <2>2, <2>3 DEF OfferOf
<1>9. LocksOf(p)'
  BY <1>2, <1>4 DEF LocksOf, Checked, Marking
<1> QED BY <1>5, <1>7, <1>8, <1>9 DEF Knows

\* After WriteOffer the request knows what its new step relies on.
LEMMA WriteOfferKnows ==
    ASSUME LocalInv, NEW p \in Requests, Knows(p), WriteOffer(p) PROVE Knows(p)'
<1> DEFINE c == req[p].c
<1>1. /\ pc[p] = "writePending" /\ req[p].op \in {"update", "resync"} /\ c \in Closings
      /\ UNCHANGED <<closing, pending, bLock>>
  BY WriteOfferOutcome, LocalsOf
<1>2. PICK entity \in ClosingRow :
         /\ entity.state = req[p].entity.state
         /\ req' = [req EXCEPT ![p] = [@ EXCEPT !.entity = entity]]
         /\ \/ wClosing' = wClosing
            \/ wClosing' = [wClosing EXCEPT ![p] = [@ EXCEPT ![c] = entity]]
  BY WriteOfferOutcome
<1>3. /\ req'[p].entity = entity /\ req'[p].c = c /\ req'[p].op = req[p].op
      /\ pc'[p] \in {"compareClosing", "commit"}
  <2>1. pc'[p] \in {"compareClosing", "commit"}
    <3>1. PICK step \in {"compareClosing", "commit"} : pc' = [pc EXCEPT ![p] = step]
      BY WriteOfferOutcome
    <3> QED BY <3>1 DEF LocalInv, TypeOK
  <2> QED BY <1>2, <2>1, LocalsOf DEF LocalInv, TypeOK, Locals
<1>4. \A x \in PendingIds : wPending[p][x] = NoRow
  BY <1>1 DEF Knows, QuietOf, Quiet
<1>5. ClosingOf(p)'
  <2>1. entity.state # "absent" /\ closing[c].state # "absent"
    BY <1>1, <1>2 DEF Knows, ClosingOf, EntitySteps
  <2>2. \A d \in Closings : wClosing'[p][d] # NoRow => wClosing'[p][d].state # "absent"
    BY <1>1, <1>2, <2>1 DEF Knows, ClosingOf, LocalInv, TypeOK
  <2> QED BY <1>1, <1>3, <2>1, <2>2 DEF ClosingOf
<1>6. BookOf(p)'
  BY <1>1, <1>3 DEF Knows, BookOf, Regenerating
<1>7. QuietOf(p)' /\ OfferOf(p)' /\ LocksOf(p)'
  BY <1>1, <1>3 DEF QuietOf, Quiet, Outside, OfferOf, LocksOf, Checked, Marking
<1>8. WriteOf(p)'
  <2>1. CASE UNCHANGED <<pLock, wPending>>
    BY <1>4, <2>1 DEF WriteOf
  <2>2. ASSUME NEW x \in req[p].rows, NEW st \in {"inactive", pending[x].state}, NEW amount \in Nat,
               WritePendingRow(p, x, [pending[x] EXCEPT !.state = st, !.amount = amount])
        PROVE  WriteOf(p)'
    <3> DEFINE row == [pending[x] EXCEPT !.state = st, !.amount = amount]
    <3>1. x \in PendingIds /\ pending[x] \in PendingRow
      BY LocalsOf DEF LocalInv, TypeOK
    <3>2. pending[x].state \notin {"absent", "PICKED"}
      BY <1>1 DEF Knows, OfferOf
    <3>3. row.closing = pending[x].closing /\ row.state = st
      BY <3>1 DEF PendingRow
    <3>4. /\ pLock'[x] = p /\ wPending'[p][x] = row
          /\ \A y \in PendingIds \ {x} : wPending'[p][y] = NoRow
      BY <1>4, <2>2, <3>1 DEF WritePendingRow, LocalInv, TypeOK
    <3> HIDE DEF row
    <3>5. WriteOK(p, x)'
      BY <1>1, <3>2, <3>3, <3>4 DEF WriteOK, Active
    <3> QED BY <3>4, <3>5 DEF WriteOf
  <2>3. ASSUME NEW x \in FreeIds, req[p].rows = {}, ~req[p].picked,
               WritePendingRow(p, x, NewPending(c, Take(req[p].entity)))
        PROVE  WriteOf(p)'
    <3> DEFINE row == NewPending(c, Take(req[p].entity))
    <3>1. x \in PendingIds /\ pending[x].state = "absent"
      BY DEF FreeIds
    <3>2. row.closing = c /\ row.state = "PENDING"
      BY DEF NewPending
    <3>3. /\ pLock'[x] = p /\ wPending'[p][x] = row
          /\ \A y \in PendingIds \ {x} : wPending'[p][y] = NoRow
      BY <1>4, <2>3, <3>1 DEF WritePendingRow, LocalInv, TypeOK
    <3>4. (RowsOf(req[p].c, Active))' = {}
      <4>1. RowsOf(c, Active) = {}
        BY <1>1, <2>3 DEF Knows, OfferOf
      <4> QED BY <1>1, <1>3, <4>1 DEF RowsOf
    <3> HIDE DEF row
    <3>5. WriteOK(p, x)'
      BY <1>1, <1>3, <3>1, <3>2, <3>3, <3>4 DEF WriteOK, Inserts
    <3> QED BY <3>3, <3>5 DEF WriteOf
  <2> QED BY <2>1, <2>2, <2>3, WriteOfferOutcome
<1> QED BY <1>5, <1>6, <1>7, <1>8 DEF Knows

\* After CancelPending the request knows what its new step relies on.
LEMMA CancelPendingKnows ==
    ASSUME LocalInv, NEW p \in Requests, Knows(p), CancelPending(p) PROVE Knows(p)'
<1> DEFINE c == req[p].c
<1>1. /\ pc[p] = "writePending" /\ req[p].op = "remove" /\ c \in Closings
      /\ UNCHANGED <<closing, pending, bLock, wClosing>>
  BY LocalsOf DEF CancelPending, tables
<1>2. \A y \in PendingIds : wPending[p][y] # NoRow =>
         WriteOK(p, y) /\ wPending[p][y].state # "PICKED" /\ pending[y].state # "absent"
  BY <1>1 DEF Knows, WriteOf, WriteOK
<1>3. CASE req[p].rows = {}
  <2>1. pc'[p] = "commit" /\ UNCHANGED <<pLock, wPending, req>>
    BY <1>3 DEF CancelPending, Goto, LocalInv, TypeOK
  <2>2. ClosingOf(p)' /\ BookOf(p)' /\ QuietOf(p)' /\ OfferOf(p)' /\ LocksOf(p)'
    BY <1>1, <2>1 DEF Knows, ClosingOf, BookOf, QuietOf, OfferOf, LocksOf, EntitySteps, Regenerating,
                      Quiet, Outside, Checked, Marking
  <2>3. WriteOf(p)'
    BY <1>1, <1>2, <2>1 DEF WriteOf, WriteOK
  <2> QED BY <2>2, <2>3 DEF Knows
<1>4. CASE req[p].rows # {}
  <2>1. PICK x \in req[p].rows :
          /\ WritePendingRow(p, x, [pending[x] EXCEPT !.state = "inactive"])
          /\ req' = [req EXCEPT ![p] = [@ EXCEPT !.rows = req[p].rows \ {x}]]
          /\ UNCHANGED pc
    BY <1>4 DEF CancelPending
  <2> DEFINE row == [pending[x] EXCEPT !.state = "inactive"]
  <2>2. x \in PendingIds /\ pending[x] \in PendingRow /\ pending[x].state # "absent"
        /\ pending[x].closing = c
    BY <1>1, LocalsOf DEF Knows, OfferOf, LocalInv, TypeOK
  <2>3. row.closing = c /\ row.state = "inactive"
    BY <2>2 DEF PendingRow
  <2>4. /\ req'[p].c = c /\ req'[p].op = req[p].op /\ req'[p].entity = req[p].entity
        /\ req'[p].rows = req[p].rows \ {x}
    <3> DEFINE rest == req[p].rows \ {x}
    <3>1. req[p] \in Locals /\ req' = [req EXCEPT ![p] = [req[p] EXCEPT !.rows = rest]]
      BY <2>1, LocalsOf
    <3> HIDE DEF rest
    <3>2. req'[p] = [req[p] EXCEPT !.rows = rest]
      BY <3>1 DEF LocalInv, TypeOK
    <3> QED BY <3>1, <3>2 DEF Locals, rest
  <2>5. /\ pLock'[x] = p /\ wPending'[p][x] = row
        /\ \A y \in PendingIds \ {x} : wPending'[p][y] = wPending[p][y] /\ pLock'[y] = pLock[y]
    BY <2>1, <2>2 DEF WritePendingRow, LocalInv, TypeOK
  <2> HIDE DEF row
  <2>6. ClosingOf(p)' /\ BookOf(p)' /\ QuietOf(p)' /\ LocksOf(p)'
    BY <1>1, <2>1, <2>4 DEF Knows, ClosingOf, BookOf, QuietOf, LocksOf, EntitySteps, Regenerating,
                      Quiet, Outside, Checked, Marking
  <2>7. OfferOf(p)'
    BY <1>1, <2>4, LocalsOf DEF Knows, OfferOf
  <2>8. WriteOf(p)'
    <3> SUFFICES ASSUME NEW y \in PendingIds, wPending'[p][y] # NoRow PROVE WriteOK(p, y)'
      BY DEF WriteOf
    <3>1. CASE y = x
      BY <1>1, <2>2, <2>3, <2>5, <3>1 DEF WriteOK, Active
    <3>2. CASE y # x
      BY <1>1, <1>2, <2>5, <3>2 DEF WriteOK
    <3> QED BY <3>1, <3>2
  <2> QED BY <2>6, <2>7, <2>8 DEF Knows
<1> QED BY <1>3, <1>4

\* After CompareClosing the request knows what its new step relies on.
LEMMA CompareClosingKnows ==
    ASSUME LocalInv, NEW p \in Requests, Knows(p), CompareClosing(p) PROVE Knows(p)'
<1>1. /\ pc[p] = "compareClosing" /\ pc'[p] = "saveClosing" /\ req[p].op # "pick"
      /\ req' = [req EXCEPT ![p] = [@ EXCEPT !.dirty = Changed(req[p].entity, closing[req[p].c])]]
      /\ UNCHANGED <<closing, pending, bLock, pLock, wClosing, wPending>>
  BY DEF CompareClosing, Goto, tables, locks, buffers, LocalInv, TypeOK, OpOK, SaveSteps
<1>2. req'[p].c = req[p].c /\ req'[p].op = req[p].op /\ req'[p].entity = req[p].entity
  BY <1>1, LocalsOf DEF LocalInv, TypeOK, Locals
<1>3. ClosingOf(p)' /\ BookOf(p)'
  BY <1>1, <1>2 DEF Knows, ClosingOf, BookOf, EntitySteps, Regenerating
<1>4. QuietOf(p)' /\ OfferOf(p)' /\ LocksOf(p)'
  BY <1>1, <1>2 DEF Knows, QuietOf, OfferOf, LocksOf, Quiet, Outside, Checked, Marking
<1>5. WriteOf(p)'
  BY <1>1, <1>2 DEF Knows, WriteOf, WriteOK, RowsOf, Inserts
<1> QED BY <1>3, <1>4, <1>5 DEF Knows

\* After SaveClosing the request knows what its new step relies on.
LEMMA SaveClosingKnows ==
    ASSUME LocalInv, NEW p \in Requests, Knows(p), SaveClosing(p) PROVE Knows(p)'
<1> DEFINE c   == req[p].c
           row == WithColumns(closing[c], req[p].entity, req[p].dirty)
<1>1. /\ pc[p] = "saveClosing" /\ pc'[p] = "commit" /\ c \in Closings /\ req[p].op # "pick"
      /\ wClosing' = [wClosing EXCEPT ![p] = [@ EXCEPT ![c] = row]]
      /\ UNCHANGED <<closing, pending, bLock, pLock, wPending, req>>
  BY LocalsOf DEF SaveClosing, Goto, tables, LocalInv, TypeOK, OpOK, SaveSteps
<1>2. ClosingOf(p)'
  <2>1. req[p].entity.state # "absent" /\ closing[c].state # "absent"
    BY <1>1 DEF Knows, ClosingOf, EntitySteps
  <2>2. row.state # "absent"
    BY <2>1 DEF WithColumns
  <2> HIDE DEF row
  <2>3. \A d \in Closings : wClosing'[p][d] # NoRow => wClosing'[p][d].state # "absent"
    BY <1>1, <2>2 DEF Knows, ClosingOf, LocalInv, TypeOK
  <2> QED BY <1>1, <2>1, <2>3 DEF ClosingOf, EntitySteps
<1>3. BookOf(p)' /\ QuietOf(p)' /\ OfferOf(p)' /\ LocksOf(p)'
  BY <1>1 DEF Knows, BookOf, QuietOf, OfferOf, LocksOf, Regenerating, Quiet, Outside, Checked, Marking
<1>4. WriteOf(p)'
  BY <1>1 DEF Knows, WriteOf, WriteOK, RowsOf, Inserts
<1> QED BY <1>2, <1>3, <1>4 DEF Knows

\* After Allocate the request knows what its new step relies on.
LEMMA AllocateKnows ==
    ASSUME LocalInv, NEW p \in Requests, Knows(p), Allocate(p) PROVE Knows(p)'
<1>1. /\ pc[p] = "allocate" /\ pc'[p] \in {"done", "lockPending"}
      /\ UNCHANGED <<closing, wClosing, wPending>>
      /\ pc'[p] = "lockPending" => req'[p].ids = req'[p].rows
  <2>1. /\ pc[p] = "allocate" /\ pc'[p] \in {"done", "lockPending"}
        /\ UNCHANGED <<closing, wClosing, wPending>>
    BY DEF Allocate, Goto, buffers, LocalInv, TypeOK
  <2>2. pc'[p] = "lockPending" => req'[p].ids = req'[p].rows
    <3>1. PICK toPick \in SUBSET PendingIds :
            \/ pc' = [pc EXCEPT ![p] = "done"]
            \/ req' = [req EXCEPT ![p] = [req[p] EXCEPT !.ids = toPick, !.rows = toPick]]
      <4> DEFINE listed == {x.id : x \in view[p].items}
                 toPick == {x \in req[p].ids \cap listed :
                               ViewOf(view[p].items).remaining[x] \in Nat \ {0}}
      <4>1. toPick \in SUBSET PendingIds
        BY LocalsOf
      <4>2. \/ pc' = [pc EXCEPT ![p] = "done"]
            \/ req' = [req EXCEPT ![p] = [req[p] EXCEPT !.ids = toPick, !.rows = toPick]]
        BY DEF Allocate, Goto
      <4> HIDE DEF toPick
      <4> QED BY <4>1, <4>2
    <3>2. req[p] \in Locals /\ req \in [Requests -> Locals] /\ pc \in [Requests -> Steps]
      BY DEF LocalInv, TypeOK
    <3>3. pc' = [pc EXCEPT ![p] = "done"] => pc'[p] = "done"
      BY <3>2
    <3>4. ASSUME req' = [req EXCEPT ![p] = [req[p] EXCEPT !.ids = toPick, !.rows = toPick]]
          PROVE  req'[p].ids = req'[p].rows
      <4>1. req'[p] = [req[p] EXCEPT !.ids = toPick, !.rows = toPick]
        BY <3>2, <3>4
      <4> QED BY <3>2, <4>1 DEF Locals
    <3> QED BY <3>1, <3>3, <3>4
  <2> QED BY <2>1, <2>2
<1>2. \A x \in PendingIds : wPending'[p][x] = NoRow
  BY <1>1 DEF Knows, QuietOf, Quiet, Outside
<1>3. ClosingOf(p)' /\ BookOf(p)' /\ QuietOf(p)' /\ OfferOf(p)' /\ LocksOf(p)' /\ WriteOf(p)'
  BY <1>1, <1>2 DEF Knows, ClosingOf, BookOf, QuietOf, OfferOf, LocksOf, WriteOf, EntitySteps,
                    Regenerating, Checked, Marking
<1> QED BY <1>3 DEF Knows

\* A pick that moves on under its locks, with nothing new written.
LEMMA PickKnows ==
    ASSUME LocalInv, NEW p \in Requests, Knows(p), Picking(p),
           pc'[p] \in {"lockPending", "checkPending", "readClosing", "diffClosing", "updateClosing",
                      "lockBook"},
           req[p].op = "pick", req'[p].op = "pick", req'[p].ids = req[p].ids,
           UNCHANGED <<pending, bLock, wPending>>,
           \A x \in PendingIds : pLock[x] = p => pLock'[x] = p,
           pc[p] \in {"readClosing", "diffClosing", "updateClosing"} =>
              pc'[p] \in {"readClosing", "diffClosing", "updateClosing", "lockBook"},
           pc[p] # "lockBook",
           ClosingOf(p)', LocksOf(p)'
    PROVE  Knows(p)'
<1>1. BookOf(p)' /\ QuietOf(p)' /\ OfferOf(p)'
  BY DEF BookOf, QuietOf, OfferOf, Regenerating, Quiet, Outside
<1>2. WriteOf(p)'
  <2> SUFFICES ASSUME NEW x \in PendingIds, wPending[p][x] # NoRow PROVE WriteOK(p, x)'
    BY DEF WriteOf
  <2>1. WriteOK(p, x)
    BY DEF Knows, WriteOf
  <2>2. pc[p] \notin {"saveClosing", "commit"}
    BY DEF Picking
  <2> QED BY <2>1, <2>2 DEF WriteOK, Picking
<1> QED BY <1>1, <1>2 DEF Knows

\* After LockPending the request knows what its new step relies on.
LEMMA LockPendingKnows ==
    ASSUME LocalInv, NEW p \in Requests, Knows(p), LockPending(p) PROVE Knows(p)'
<1> DEFINE x    == NextToLock(p)
           rest == req[p].rows \ {x}
           step == IF req[p].rows = {x} THEN "checkPending" ELSE "lockPending"
<1>1. /\ pc[p] = "lockPending" /\ Picking(p) /\ req[p].op = "pick" /\ req[p] \in Locals
      /\ UNCHANGED <<closing, pending, bLock, wClosing, wPending>>
  BY DEF LockPending, Picking, LocalInv, OpOK, PickSteps, TypeOK, tables, buffers
<1>2. /\ pLock[x] = NoOne /\ pLock' = [pLock EXCEPT ![x] = p]
      /\ req' = [req EXCEPT ![p] = [req[p] EXCEPT !.rows = rest]]
      /\ pc' = [pc EXCEPT ![p] = step]
  BY DEF LockPending, Goto
<1> HIDE DEF x
<1>3. /\ req'[p].rows = rest /\ req'[p].ids = req[p].ids /\ req'[p].op = "pick"
  <2> HIDE DEF rest
  <2>1. req'[p] = [req[p] EXCEPT !.rows = rest]
    BY <1>2 DEF LocalInv, TypeOK
  <2> QED BY <1>1, <2>1 DEF Locals
<1>4. pc'[p] = step /\ (step = "checkPending" => rest = {}) /\ step \in {"checkPending", "lockPending"}
  BY <1>2 DEF LocalInv, TypeOK
<1>5. \A y \in PendingIds : pLock[y] = p \/ y = x => pLock'[y] = p
  BY <1>2 DEF LocalInv, TypeOK
<1>6. LocksOf(p)'
  <2>1. \A y \in req[p].ids \ rest : y \in PendingIds /\ (y \in req[p].ids \ req[p].rows \/ y = x)
    BY LocalsOf
  <2> HIDE DEF rest, step
  <2> QED BY <1>1, <1>3, <1>4, <1>5, <2>1 DEF Knows, LocksOf, Checked, Marking
<1>7. ClosingOf(p)'
  BY <1>1, <1>4 DEF Knows, ClosingOf, EntitySteps, Regenerating
<1> HIDE DEF step
<1> QED BY <1>1, <1>3, <1>4, <1>5, <1>6, <1>7, PickKnows

\* After CheckPending the request knows what its new step relies on.
LEMMA CheckPendingKnows ==
    ASSUME LocalInv, NEW p \in Requests, Knows(p), CheckPending(p) PROVE Knows(p)'
<1>1. CASE Rollback(p)
  BY <1>1, EndKnows DEF Rollback
<1>2. CASE ~Rollback(p)
  <2>1. /\ pc[p] = "checkPending" /\ Picking(p) /\ req[p].op = "pick" /\ req[p] \in Locals
        /\ UNCHANGED <<closing, pending, bLock, pLock, wClosing, wPending>>
    BY <1>2 DEF CheckPending, Picking, LocalInv, OpOK, PickSteps, TypeOK, tables, locks, buffers
  <2>2. /\ \A x \in req[p].ids : pending[x].state = "PENDING"
        /\ req' = [req EXCEPT ![p] = [req[p] EXCEPT !.rows = req[p].ids]]
        /\ pc' = [pc EXCEPT ![p] = "readClosing"]
    BY <1>2 DEF CheckPending, Goto
  <2>3. pc'[p] = "readClosing" /\ req'[p].ids = req[p].ids /\ req'[p].op = "pick"
    BY <2>1, <2>2 DEF LocalInv, TypeOK, Locals
  <2>4. LocksOf(p)'
    <3>1. \A x \in req[p].ids : pLock[x] = p
      BY <2>1 DEF Knows, LocksOf
    <3> QED BY <2>1, <2>2, <2>3, <3>1 DEF LocksOf, Checked, Marking
  <2>5. ClosingOf(p)'
    BY <2>1, <2>3 DEF Knows, ClosingOf, EntitySteps, Regenerating
  <2> QED BY <2>1, <2>3, <2>4, <2>5, PickKnows
<1> QED BY <1>1, <1>2

\* After ReadClosing the request knows what its new step relies on.
LEMMA ReadClosingKnows ==
    ASSUME LocalInv, RowsHaveClosing, NEW p \in Requests, Knows(p), ReadClosing(p) PROVE Knows(p)'
<1>1. CASE Rollback(p)
  BY <1>1, EndKnows DEF Rollback
<1>2. CASE ~Rollback(p)
  <2>1. /\ pc[p] = "readClosing" /\ Picking(p) /\ req[p].op = "pick" /\ req[p] \in Locals
        /\ req[p].rows \subseteq req[p].ids
    BY <1>2 DEF ReadClosing, Picking, LocalInv, OpOK, ViewOK, PickSteps, TypeOK
  <2>2. PICK x \in req[p].rows :
          LET c   == pending[x].closing
              row == Seen(wClosing[p], closing, c)
          IN  /\ row.state = "live"
              /\ req' = [req EXCEPT ![p] = [req[p] EXCEPT !.cur = x, !.c = c, !.entity = row,
                                                          !.rows = req[p].rows \ {x}]]
              /\ pc' = [pc EXCEPT ![p] = "diffClosing"]
              /\ UNCHANGED <<tables, expense, clock, locks, buffers, view>>
    BY ZenonT(40), <1>2 DEF ReadClosing, Goto
  <2> DEFINE c    == pending[x].closing
             row  == Seen(wClosing[p], closing, c)
             rest == req[p].rows \ {x}
  <2>3. /\ pc'[p] = "diffClosing" /\ row.state = "live"
        /\ UNCHANGED <<closing, pending, bLock, pLock, wClosing, wPending>>
    BY <2>2 DEF LocalInv, TypeOK, tables, locks, buffers
  <2>4. req' = [req EXCEPT ![p] = [req[p] EXCEPT !.cur = x, !.c = c, !.entity = row, !.rows = rest]]
    BY <2>2
  <2> HIDE DEF c, row, rest
  <2>5. /\ req'[p].cur = x /\ req'[p].c = c /\ req'[p].entity = row /\ req'[p].ids = req[p].ids
        /\ req'[p].op = "pick"
    <3>1. req'[p] = [req[p] EXCEPT !.cur = x, !.c = c, !.entity = row, !.rows = rest]
      BY <2>4 DEF LocalInv, TypeOK
    <3> QED BY <2>1, <3>1 DEF Locals
  <2>6. /\ \A y \in req[p].ids : pLock[y] = p /\ pending[y].state = "PENDING"
        /\ x \in PendingIds /\ pending[x].state = "PENDING"
    BY <2>1, LocalsOf DEF Knows, LocksOf, Checked
  <2>7. closing[c].state # "absent"
    BY <2>6 DEF RowsHaveClosing, c
  <2>8. ClosingOf(p)'
    BY <2>3, <2>5, <2>7 DEF Knows, ClosingOf, EntitySteps
  <2>9. LocksOf(p)'
    BY <2>3, <2>5, <2>6 DEF LocksOf, Checked, Marking, c
  <2> QED BY <2>1, <2>3, <2>5, <2>8, <2>9, PickKnows
<1> QED BY <1>1, <1>2

\* After DiffClosing the request knows what its new step relies on.
LEMMA DiffClosingKnows ==
    ASSUME LocalInv, NEW p \in Requests, Knows(p), DiffClosing(p) PROVE Knows(p)'
<1> DEFINE new  == [req[p].entity EXCEPT !.who = req[p].who, !.pickup = 0,
                        !.withdrawn = IF @ > 0 THEN @ ELSE view[p].take[req[p].cur]]
           diff == Changed(new, Seen(wClosing[p], closing, req[p].c))
<1>1. /\ pc[p] = "diffClosing" /\ Picking(p) /\ Marking(p) /\ req[p].op = "pick" /\ req[p] \in Locals
      /\ UNCHANGED <<closing, pending, bLock, pLock, wClosing, wPending>>
  BY DEF DiffClosing, Picking, Marking, LocalInv, OpOK, PickSteps, TypeOK, tables, locks, buffers
<1>2. /\ req' = [req EXCEPT ![p] = [req[p] EXCEPT !.entity = new, !.dirty = diff]]
      /\ pc' = [pc EXCEPT ![p] = "updateClosing"]
  BY DEF DiffClosing, Goto
<1>3. new.state = req[p].entity.state
  BY LocalsOf DEF ClosingRow
<1> HIDE DEF new, diff
<1>4. /\ req'[p].cur = req[p].cur /\ req'[p].c = req[p].c /\ req'[p].entity = new
      /\ req'[p].ids = req[p].ids /\ req'[p].op = "pick" /\ pc'[p] = "updateClosing"
  <2>1. req'[p] = [req[p] EXCEPT !.entity = new, !.dirty = diff] /\ pc'[p] = "updateClosing"
    BY <1>2 DEF LocalInv, TypeOK
  <2> QED BY <1>1, <2>1 DEF Locals
<1>5. ClosingOf(p)'
  BY <1>1, <1>3, <1>4 DEF Knows, ClosingOf, EntitySteps
<1>6. LocksOf(p)'
  BY <1>1, <1>4 DEF Knows, LocksOf, Checked, Marking
<1> QED BY <1>1, <1>4, <1>5, <1>6, PickKnows

\* After UpdateClosing the request knows what its new step relies on.
LEMMA UpdateClosingKnows ==
    ASSUME LocalInv, NEW p \in Requests, Knows(p), UpdateClosing(p) PROVE Knows(p)'
<1> DEFINE c == req[p].c
<1>1. /\ pc[p] = "updateClosing" /\ pc'[p] = "lockBook" /\ Picking(p) /\ Marking(p)
      /\ req[p].op = "pick"
      /\ UNCHANGED <<closing, pending, bLock, pLock, wPending, req>>
  BY DEF UpdateClosing, Goto, Picking, Marking, LocalInv, OpOK, PickSteps, TypeOK, tables
<1>2. ClosingOf(p)'
  <2>1. /\ req[p].entity.state # "absent" /\ closing[c].state # "absent"
        /\ Seen(wClosing[p], closing, c).state # "absent" /\ c \in Closings
    BY <1>1, LocalsOf DEF Knows, ClosingOf, EntitySteps, Seen
  <2>2. PICK row : /\ row.state # "absent"
                   /\ wClosing' = [wClosing EXCEPT ![p] = [@ EXCEPT ![c] = row]]
    BY <2>1 DEF UpdateClosing, WithColumns
  <2>3. \A d \in Closings : wClosing'[p][d] # NoRow => wClosing'[p][d].state # "absent"
    BY <2>1, <2>2 DEF Knows, ClosingOf, LocalInv, TypeOK
  <2> QED BY <1>1, <2>1, <2>3 DEF ClosingOf
<1>3. LocksOf(p)'
  BY <1>1 DEF Knows, LocksOf, Checked, Marking
<1> QED BY <1>1, <1>2, <1>3, PickKnows

\* After MarkPicked the request knows what its new step relies on.
LEMMA MarkPickedKnows ==
    ASSUME LocalInv, NEW p \in Requests, Knows(p), MarkPicked(p) PROVE Knows(p)'
<1> DEFINE c   == req[p].c
           x   == req[p].cur
           row == [pending[x] EXCEPT !.state = "PICKED", !.amount = view[p].take[x]]
<1>1. /\ pc[p] = "lockBook" /\ req[p].op = "pick" /\ Marking(p) /\ c \in Closings
      /\ x \in PendingIds /\ x \in req[p].ids
      /\ UNCHANGED <<closing, pending, pLock, wClosing, req>>
  BY LocalsOf DEF MarkPicked, Marking, LocalInv, ViewOK, tables
<1>2. /\ bLock' = [bLock EXCEPT ![c] = p]
      /\ wPending' = [wPending EXCEPT ![p] = [@ EXCEPT ![x] = row]]
      /\ pc'[p] \in {"commit", "readClosing"}
  BY DEF MarkPicked, Goto, LocalInv, TypeOK
<1>3. /\ \A y \in req[p].ids : pLock[y] = p /\ pending[y].state = "PENDING"
      /\ c = pending[x].closing
  BY <1>1 DEF Knows, LocksOf, Checked
<1>4. row.closing = c /\ row.state = "PICKED"
  BY <1>1, <1>3 DEF LocalInv, TypeOK, PendingRow
<1> HIDE DEF row
<1>5. /\ \A d \in Closings : bLock[d] = p \/ d = c => bLock'[d] = p
      /\ wPending'[p][x] = row
      /\ \A y \in PendingIds \ {x} : wPending'[p][y] = wPending[p][y]
  BY <1>1, <1>2 DEF LocalInv, TypeOK
<1>6. ClosingOf(p)' /\ BookOf(p)' /\ QuietOf(p)' /\ OfferOf(p)'
  BY <1>1, <1>2 DEF Knows, ClosingOf, BookOf, QuietOf, OfferOf, EntitySteps, Regenerating, Quiet, Outside
<1>7. LocksOf(p)'
  BY <1>1, <1>2, <1>3 DEF LocksOf, Checked, Marking
<1>8. WriteOf(p)'
  <2> SUFFICES ASSUME NEW y \in PendingIds, wPending'[p][y] # NoRow PROVE WriteOK(p, y)'
    BY DEF WriteOf
  <2>1. CASE y = x
    BY <1>1, <1>2, <1>3, <1>4, <1>5, <2>1 DEF WriteOK, Active
  <2>2. CASE y # x
    <3>1. WriteOK(p, y) /\ wPending'[p][y] = wPending[p][y] /\ pending[y].closing \in Closings
      BY <1>5, <2>2, LocalsOf DEF Knows, WriteOf
    <3> QED BY <1>1, <1>2, <1>5, <3>1 DEF WriteOK
  <2> QED BY <2>1, <2>2
<1> QED BY <1>6, <1>7, <1>8 DEF Knows

-----------------------------------------------------------------------------
(* What changes committed rows is harmless to the others                     *)

\* Committed rows that do not change harm nobody.
LEMMA UnchangedHarmless ==
    ASSUME UNCHANGED <<closing, pending>>, NEW q \in Requests
    PROVE  Harmless(q)
BY DEF Harmless

\* Nor do they offer cash twice.
LEMMA UnchangedTables ==
    ASSUME RowsHaveClosing, CashOfferedOnce, UNCHANGED <<closing, pending>>
    PROVE  RowsHaveClosing' /\ CashOfferedOnce'
BY DEF RowsHaveClosing, CashOfferedOnce, RowsOf

\* The rows of a committing request, published.
LEMMA CommitRows ==
    ASSUME LocalInv, NEW p \in Requests, Knows(p), Commit(p)
    PROVE  /\ \A c \in Closings : closing[c].state # "absent" => closing'[c].state # "absent"
           /\ \A x \in PendingIds :
                \/ wPending[p][x] = NoRow /\ pending'[x] = pending[x]
                \/ wPending[p][x] # NoRow /\ WriteOK(p, x) /\ pending'[x] = wPending[p][x]
<1>1. /\ \A c \in Closings : closing'[c] = Seen(wClosing[p], closing, c)
      /\ \A x \in PendingIds : pending'[x] = Seen(wPending[p], pending, x)
  BY DEF Commit
<1> QED BY <1>1 DEF Seen, Knows, ClosingOf, WriteOf

\* A commit is harmless to every other request.
LEMMA CommitHarmless ==
    ASSUME LocalInv, NEW p \in Requests, Knows(p), Commit(p), NEW q \in Requests \ {p}
    PROVE  Harmless(q)
<1>1. pc[p] = "commit"
  BY DEF Commit
<1>2. ASSUME NEW x \in PendingIds, wPending[p][x] # NoRow, pending[x].state = "absent", WriteOK(p, x)
      PROVE  bLock[wPending[p][x].closing] = p
  BY <1>1, <1>2 DEF WriteOK, Knows, BookOf, Regenerating
<1>3. ASSUME NEW x \in PendingIds
      PROVE  /\ pending[x].state # "absent" =>
                   pending'[x].state # "absent" /\ pending'[x].closing = pending[x].closing
             /\ pLock[x] = q => pending'[x] = pending[x]
             /\ pending'[x].state \in Active /\ bLock[pending'[x].closing] = q =>
                   pending[x].state \in Active /\ pending[x].closing = pending'[x].closing
             /\ /\ pending[x].state # "absent" /\ bLock[pending[x].closing] = q
                /\ pending[x].state # "PICKED"
                => pending'[x].state # "PICKED"
  <2>1. CASE wPending[p][x] = NoRow /\ pending'[x] = pending[x]
    BY <2>1
  <2>2. CASE wPending[p][x] # NoRow /\ WriteOK(p, x) /\ pending'[x] = wPending[p][x]
    BY <1>2, <2>2 DEF WriteOK
  <2> QED BY <2>1, <2>2, CommitRows
<1> QED BY <1>3, CommitRows DEF Harmless

\* A commit offers the cash of no closing twice.
LEMMA CommitTables ==
    ASSUME LocalInv, NEW p \in Requests, Knows(p), Commit(p), RowsHaveClosing, CashOfferedOnce
    PROVE  RowsHaveClosing' /\ CashOfferedOnce'
<1> DEFINE d == req[p].c
           New(x) == /\ wPending[p][x] # NoRow /\ pending[x].state = "absent"
                     /\ pending'[x].closing = d /\ RowsOf(d, Active) = {}
                     /\ \A y \in PendingIds : Inserts(p, y) => y = x
           Old(x) == pending[x].state # "absent" /\ pending'[x].closing = pending[x].closing
                     /\ (pending'[x].state \in Active => pending[x].state \in Active)
<1>1. closing[d].state # "absent" \/ \A x \in PendingIds : ~New(x)
  <2>1. (\E x \in PendingIds : New(x)) => req[p].op \notin {"pick", "unlock"}
    BY CommitRows DEF WriteOK
  <2>2. pc[p] = "commit"
    BY DEF Commit
  <2> HIDE DEF New
  <2> QED BY <2>1, <2>2 DEF Knows, ClosingOf, Regenerating
<1>2. \A x \in PendingIds : pending'[x].state # "absent" => New(x) \/ Old(x)
  <2> TAKE x \in PendingIds
  <2>1. CASE wPending[p][x] = NoRow /\ pending'[x] = pending[x]
    BY <2>1
  <2>2. CASE wPending[p][x] # NoRow /\ WriteOK(p, x) /\ pending'[x] = wPending[p][x]
    BY <2>2 DEF WriteOK
  <2> QED BY <2>1, <2>2, CommitRows
<1>3. RowsHaveClosing'
  BY <1>1, <1>2, CommitRows, LocalsOf DEF RowsHaveClosing
<1>4. CashOfferedOnce'
  <2> SUFFICES ASSUME NEW c \in Closings, NEW x \in PendingIds, NEW y \in PendingIds,
                      pending'[x].closing = c, pending'[x].state \in Active,
                      pending'[y].closing = c, pending'[y].state \in Active
               PROVE  x = y
    BY DEF CashOfferedOnce, RowsOf
  <2>1. (New(x) \/ Old(x)) /\ (New(y) \/ Old(y))
    BY <1>2 DEF Active
  <2>2. CASE New(x) /\ New(y)
    BY <2>2 DEF Inserts
  <2>3. CASE Old(x) /\ Old(y)
    BY <2>3 DEF CashOfferedOnce, RowsOf
  <2>4. CASE New(x) /\ Old(y)
    BY <2>4 DEF RowsOf
  <2>5. CASE Old(x) /\ New(y)
    BY <2>5 DEF RowsOf
  <2> QED BY <2>1, <2>2, <2>3, <2>4, <2>5
<1> QED BY <1>3, <1>4

\* The orphan clean-up deactivates rows that nobody has locked.
LEMMA ListPendingTables ==
    ASSUME LocalInv, NEW p \in Requests, ListPending(p), RowsHaveClosing, CashOfferedOnce
    PROVE  /\ RowsHaveClosing' /\ CashOfferedOnce'
           /\ \A q \in Requests : Harmless(q)
<1>1. PICK orphans \in SUBSET PendingIds :
        /\ \A x \in orphans : pLock[x] = NoOne /\ pending[x].state = "PENDING"
        /\ pending' = [x \in PendingIds |->
              IF x \in orphans THEN [pending[x] EXCEPT !.state = "inactive"] ELSE pending[x]]
        /\ closing' = [c \in Closings |->
              IF \E x \in orphans : pending[x].closing = c /\ closing[c].state = "live"
                THEN [closing[c] EXCEPT !.pickup = 0] ELSE closing[c]]
  BY DEF ListPending
<1>2. \A c \in Closings : closing'[c].state = closing[c].state
  BY <1>1 DEF LocalInv, TypeOK, ClosingRow
<1>3. \A x \in PendingIds : /\ pending'[x].closing = pending[x].closing
                            /\ pending'[x].state = IF x \in orphans THEN "inactive" ELSE pending[x].state
                            /\ x \notin orphans => pending'[x] = pending[x]
  BY <1>1 DEF LocalInv, TypeOK, PendingRow
<1>4. RowsHaveClosing' /\ CashOfferedOnce'
  BY <1>1, <1>2, <1>3, LocalsOf DEF RowsHaveClosing, CashOfferedOnce, RowsOf, Active
<1>5. \A q \in Requests : Harmless(q)
  BY <1>1, <1>2, <1>3, CashPickupAssumption, LocalsOf DEF Harmless, Active
<1> QED BY <1>4, <1>5

\* A new closing has the only row of its id, and no transaction knows of either.
LEMMA CreateClosingTables ==
    ASSUME LocalInv, NEW c \in Closings, NEW fig \in Figures, NEW who \in People \cup {NoOne},
           CreateClosing(c, fig, who), RowsHaveClosing, CashOfferedOnce
    PROVE  /\ RowsHaveClosing' /\ CashOfferedOnce'
           /\ \A q \in Requests : Harmless(q)
<1>1. PICK row : closing' = [closing EXCEPT ![c] = row] /\ row.state = "live"
  <2> DEFINE base == [state |-> "live", counted |-> fig[1], withdrawn |-> fig[2], own |-> fig[3],
                      who |-> who, pickup |-> 0]
             row  == IF who = NoOne THEN [base EXCEPT !.pickup = Take(base)] ELSE base
  <2>1. closing' = [closing EXCEPT ![c] = row]
    BY DEF CreateClosing
  <2>2. row.state = "live"
    OBVIOUS
  <2> QED BY <2>1, <2>2
<1>2. /\ closing[c].state = "absent" /\ closing'[c].state = "live"
      /\ \A d \in Closings \ {c} : closing'[d] = closing[d]
  BY <1>1 DEF CreateClosing, LocalInv, TypeOK
<1>3. \A y \in PendingIds : pending[y].closing = c => pending[y].state = "absent"
  BY <1>2 DEF RowsHaveClosing
<1>4. \A y \in PendingIds : pending[y].closing \in Closings
  BY DEF LocalInv, TypeOK, PendingRow
<1>5. CASE pending' = pending
  <2>1. RowsHaveClosing' /\ CashOfferedOnce'
    BY <1>2, <1>5, <1>4 DEF RowsHaveClosing, CashOfferedOnce, RowsOf
  <2>2. \A q \in Requests : Harmless(q)
    BY <1>2, <1>5 DEF Harmless
  <2> QED BY <2>1, <2>2
<1>6. ASSUME NEW x \in FreeIds, NEW amount, pending' = [pending EXCEPT ![x] = NewPending(c, amount)]
      PROVE  /\ RowsHaveClosing' /\ CashOfferedOnce'
             /\ \A q \in Requests : Harmless(q)
  <2>1. /\ x \in PendingIds /\ pending[x].state = "absent"
        /\ \A q \in Requests : wPending[q][x] = NoRow
    BY DEF FreeIds
  <2>2. /\ pending'[x].state = "PENDING" /\ pending'[x].closing = c
        /\ \A y \in PendingIds \ {x} : pending'[y] = pending[y]
    BY <1>6, <2>1 DEF LocalInv, TypeOK, NewPending
  <2>3. RowsHaveClosing'
    BY <1>2, <1>4, <2>2 DEF RowsHaveClosing
  <2>4. CashOfferedOnce'
    BY <1>3, <2>1, <2>2 DEF CashOfferedOnce, RowsOf, Active
  <2>5. \A q \in Requests : Harmless(q)
    BY <1>2, <2>1, <2>2 DEF Harmless
  <2> QED BY <2>3, <2>4, <2>5
<1>7. \/ pending' = pending
      \/ \E x \in FreeIds : \E amount \in {fig[1], fig[2], 0} :
            pending' = [pending EXCEPT ![x] = NewPending(c, amount)]
  BY DEF CreateClosing, Take
<1> QED BY <1>5, <1>6, <1>7

-----------------------------------------------------------------------------
(* The theorems                                                              *)

\* What request p does, when p goes on knowing, is harmless and leaves the others alone.
LEMMA Together ==
    ASSUME LocalInv, LocalInv', \A q \in Requests : Knows(q), NEW p \in Requests, Knows(p)',
           \A q \in Requests \ {p} : Leaves(q) /\ Harmless(q),
           RowsHaveClosing', CashOfferedOnce'
    PROVE  IInv'
<1>1. \A q \in Requests \ {p} : Knows(q)'
  BY KnowsKept
<1> QED BY <1>1 DEF IInv

\* A rollback keeps the inductive invariant.
LEMMA RollbackSafe ==
    ASSUME IInv, LocalInv', NEW p \in Requests, Rollback(p) PROVE IInv'
<1>1. EndOfTransaction(p) /\ UNCHANGED <<closing, pending>>
  BY DEF Rollback, tables
<1>2. Knows(p)' /\ \A q \in Requests \ {p} : Leaves(q) /\ Harmless(q)
  BY <1>1, EndKnows, EndLeaves, UnchangedHarmless DEF IInv
<1> QED BY <1>1, <1>2, UnchangedTables, Together DEF IInv

\* Other steps of a request leave closings and pending rows as they are committed.
LEMMA RequestUnchanged ==
    ASSUME NEW p \in Requests, Start(p) \/ TransactionStep(p), ~ListPending(p), ~Commit(p)
    PROVE  UNCHANGED <<closing, pending>>
<1> USE DEF Rollback, tables
<1>1. CASE Start(p)
  BY <1>1 DEF Start, StartOnClosing, StartPick
<1>2. CASE LockClosing(p) \/ LoadClosing(p) \/ LockBook(p) \/ ReadPending(p)
  BY <1>2 DEF LockClosing, LoadClosing, LockBook, ReadPending
<1>3. CASE WriteOffer(p)
  BY <1>3 DEF WriteOffer
<1>4. CASE CancelPending(p) \/ CompareClosing(p) \/ SaveClosing(p) \/ Allocate(p) \/ LockPending(p)
  BY <1>4 DEF CancelPending, CompareClosing, SaveClosing, Allocate, LockPending
<1>5. CASE CheckPending(p) \/ ReadClosing(p)
  BY <1>5 DEF CheckPending, ReadClosing
<1>6. CASE DiffClosing(p) \/ UpdateClosing(p) \/ MarkPicked(p)
  BY <1>6 DEF DiffClosing, UpdateClosing, MarkPicked
<1> QED BY <1>1, <1>2, <1>3, <1>4, <1>5, <1>6 DEF TransactionStep

\* A step of a request keeps the inductive invariant.
LEMMA RequestSafe ==
    ASSUME IInv, LocalInv', NEW p \in Requests, Start(p) \/ TransactionStep(p) PROVE IInv'
<1> USE DEF IInv
<1>1. \A q \in Requests \ {p} : Leaves(q)
  BY StepLeaves
<1>2. CASE ListPending(p)
  BY <1>1, <1>2, ListPendingKnows, ListPendingTables, Together
<1>3. CASE Commit(p)
  <2>1. Knows(p)'
    BY <1>3, EndKnows DEF Commit
  <2> QED BY <1>1, <1>3, <2>1, CommitHarmless, CommitTables, Together
<1>4. CASE ~ListPending(p) /\ ~Commit(p)
  <2>1. Knows(p)'
    BY <1>4, StartKnows, LockClosingKnows, LoadClosingKnows, LockBookKnows, ReadPendingKnows,
       WriteOfferKnows, CancelPendingKnows, CompareClosingKnows, SaveClosingKnows, AllocateKnows,
       LockPendingKnows, CheckPendingKnows, ReadClosingKnows, DiffClosingKnows, UpdateClosingKnows, MarkPickedKnows
       DEF TransactionStep
  <2>2. UNCHANGED <<closing, pending>>
    BY <1>4, RequestUnchanged
  <2> QED BY <1>1, <2>1, <2>2, UnchangedHarmless, UnchangedTables, Together
<1> QED BY <1>2, <1>3, <1>4

\* So does a step of anything else.
LEMMA EnvironmentSafe ==
    ASSUME IInv, LocalInv', Environment PROVE IInv'
<1> USE DEF IInv
<1>1. UNCHANGED <<cLock, pLock, bLock, wClosing, wPending, wBook, wOffset, pc, req>>
  BY DEF Environment, CreateClosing, RecordExpense, VoidExpense, locks, buffers
<1>2. \A q \in Requests : Leaves(q)
  BY <1>1 DEF Leaves
<1>3. RowsHaveClosing' /\ CashOfferedOnce' /\ \A q \in Requests : Harmless(q)
  <2>1. ASSUME NEW c \in Closings, NEW fig \in Figures, NEW who \in People \cup {NoOne},
               CreateClosing(c, fig, who)
        PROVE  RowsHaveClosing' /\ CashOfferedOnce' /\ \A q \in Requests : Harmless(q)
    BY <2>1, CreateClosingTables
  <2>2. CASE UNCHANGED <<closing, pending>>
    BY <2>2, UnchangedHarmless, UnchangedTables
  <2> QED BY <2>1, <2>2 DEF Environment, RecordExpense, VoidExpense, tables
<1>4. \A q \in Requests : Knows(q)'
  BY <1>2, <1>3, KnowsKept
<1> QED BY <1>3, <1>4

\* It holds at the start.
LEMMA InitSafe == Init => IInv
<1> SUFFICES ASSUME Init PROVE IInv
  OBVIOUS
<1>1. LocalInv
  BY LocalInit
<1>2. \A p \in Requests : Knows(p)
  BY DEF Init, NoWrites, Knows, ClosingOf, QuietOf, BookOf, OfferOf, LocksOf, WriteOf, EntitySteps,
         Regenerating, Checked, Marking
<1>3. RowsHaveClosing /\ CashOfferedOnce
  BY DEF Init, RowsHaveClosing, CashOfferedOnce, RowsOf, Active
<1> QED BY <1>1, <1>2, <1>3 DEF IInv

\* Every step keeps it.
LEMMA NextSafe == IInv /\ [Next]_vars => IInv'
<1> SUFFICES ASSUME IInv, [Next]_vars PROVE IInv'
  OBVIOUS
<1>1. LocalInv'
  BY NextLocal DEF IInv
<1>2. CASE Environment
  BY <1>1, <1>2, EnvironmentSafe
<1>3. CASE UNCHANGED vars
  <2>1. \A q \in Requests : Leaves(q) /\ Harmless(q)
    BY <1>3 DEF vars, tables, locks, buffers, Leaves, Harmless
  <2>2. RowsHaveClosing' /\ CashOfferedOnce'
    BY <1>3, UnchangedTables DEF IInv, vars, tables
  <2> QED BY <1>1, <2>1, <2>2, KnowsKept DEF IInv
<1>4. ASSUME NEW p \in Requests, Start(p) \/ TransactionStep(p) PROVE IInv'
  BY <1>1, <1>4, RequestSafe
<1>5. ASSUME NEW p \in Requests, DeadlockVictim(p) \/ Die(p) PROVE IInv'
  BY <1>1, <1>5, RollbackSafe DEF DeadlockVictim, Die
<1> QED BY <1>2, <1>3, <1>4, <1>5 DEF Next

\* However edits, removals, regenerations and pickups interleave, fail or deadlock, a
\* closing never has two active withdrawals: the lock of its ledger rows, taken before its
\* offer is read, is what keeps two regenerations from both creating one.
THEOREM OfferedOnce == Spec => []CashOfferedOnce
<1>1. IInv => CashOfferedOnce
  BY DEF IInv
<1> QED BY <1>1, InitSafe, NextSafe, PTL DEF Spec

\* A pickup that is about to be committed finds its rows PENDING: rows are locked before
\* their state is checked again, and nobody publishes a row another one has locked.
THEOREM PickedOnce == Spec => []PickupNotRepeated
<1>1. IInv => PickupNotRepeated
  <2> SUFFICES ASSUME IInv, NEW p \in Requests, NEW x \in PendingIds, wPending[p][x] # NoRow,
                      wPending[p][x].state = "PICKED"
               PROVE  pending[x].state = "PENDING"
    BY DEF PickupNotRepeated
  <2>1. /\ pc[p] \in {"readClosing", "diffClosing", "updateClosing", "lockBook", "commit"}
        /\ req[p].op = "pick" /\ x \in req[p].ids
    BY DEF IInv, Knows, WriteOf, WriteOK
  <2>2. Checked(p)
    BY <2>1 DEF Checked, Marking
  <2> QED BY <2>1, <2>2 DEF IInv, Knows, LocksOf
<1> QED BY <1>1, InitSafe, NextSafe, PTL DEF Spec

-----------------------------------------------------------------------------
(* What becomes of a pickup                                                  *)

\* Whoever is about to write over a pickup removes its closing, and has written that.
Cancels(p) ==
    /\ \A x \in PendingIds :
          wPending[p][x] # NoRow /\ pending[x].state = "PICKED" =>
             /\ req[p].op = "remove" /\ wPending[p][x].state = "inactive"
             /\ pending[x].closing = req[p].c /\ pc[p] \in {"writePending", "commit"}
    /\ req[p].op = "remove" /\ pc[p] \in {"lockBook", "readPending", "writePending", "commit"} =>
          wClosing[p][req[p].c] # NoRow /\ wClosing[p][req[p].c].state = "removed"
    /\ pc[p] \in {"loadClosing", "compareClosing", "saveClosing"} => req[p].op # "remove"

\* What a removal knows of its rows stays true while others work.
LEMMA CancelsKept ==
    ASSUME IInv, NEW q \in Requests, Cancels(q), Leaves(q), Harmless(q)
    PROVE  Cancels(q)'
<1>1. \A x \in PendingIds : wPending[q][x] # NoRow => pending'[x] = pending[x]
  BY DEF IInv, Knows, WriteOf, WriteOK, Harmless
<1> QED BY <1>1 DEF Cancels, Leaves

\* A step that neither writes a pending row nor gets to work on the removal of a closing.
LEMMA CancelsNothingNew ==
    ASSUME IInv, NEW p \in Requests, Cancels(p), UNCHANGED <<pending, wPending>>,
           \/ req'[p].op # "remove" /\ \A x \in PendingIds : wPending[p][x] # NoRow => pending[x].state # "PICKED"
           \/ /\ req'[p].op = req[p].op /\ req'[p].c = req[p].c /\ wClosing' = wClosing
              /\ \/ pc[p] = "lockBook" /\ pc'[p] = "readPending"
                 \/ pc[p] = "readPending" /\ pc'[p] = "writePending"
    PROVE  Cancels(p)'
BY DEF Cancels

\* A pickup cancels no row.
LEMMA PickCancelsNothing ==
    ASSUME IInv, NEW p \in Requests, Cancels(p), pc[p] \in PickSteps \/ req[p].op = "pick"
    PROVE  req[p].op = "pick" /\ \A x \in PendingIds : wPending[p][x] # NoRow => pending[x].state # "PICKED"
BY DEF IInv, LocalInv, OpOK, Cancels

\* A step of a request keeps what it knows of the rows it cancels.
LEMMA StepCancels ==
    ASSUME IInv, NEW p \in Requests, Cancels(p), Start(p) \/ TransactionStep(p)
    PROVE  Cancels(p)'
<1> DEFINE c == req[p].c
<1> USE LocalsOf DEF IInv
<1>1. ASSUME EndOfTransaction(p) PROVE Cancels(p)'
  BY <1>1 DEF EndOfTransaction, LocalInv, TypeOK, NoWrites, Cancels
<1>2. ASSUME Quiet(p) PROVE \A x \in PendingIds : wPending[p][x] = NoRow
  BY <1>2 DEF Knows, QuietOf
<1>3. CASE Start(p)
  <2>1. Quiet(p) /\ wPending' = wPending
    <3>1. pc[p] = "idle" /\ UNCHANGED buffers
      <4>1. ASSUME NEW d, NEW op, StartOnClosing(p, d, op) PROVE pc[p] = "idle" /\ UNCHANGED buffers
        BY <4>1 DEF StartOnClosing
      <4>2. ASSUME NEW ids, NEW who, StartPick(p, ids, who) PROVE pc[p] = "idle" /\ UNCHANGED buffers
        BY <4>2 DEF StartPick
      <4> QED BY <1>3, <4>1, <4>2 DEF Start
    <3> QED BY <3>1 DEF Quiet, Outside, buffers
  <2>2. ASSUME NEW d \in Closings, NEW op \in AllOps \ {"pick"}, StartOnClosing(p, d, op)
        PROVE  /\ pc'[p] \in {"lockClosing", "loadClosing", "listPending"}
               /\ pc'[p] = "loadClosing" => req'[p].op # "remove"
    <3>1. /\ req' = [req EXCEPT ![p] = [req[p] EXCEPT !.op = op, !.c = d]]
          /\ pc' = [pc EXCEPT ![p] = IF op \in {"resync", "unlock"} THEN "loadClosing"
                                    ELSE "lockClosing"]
      BY <2>2 DEF StartOnClosing, Goto, LocalInv, TypeOK
    <3>2. req'[p].op = op
      BY <3>1 DEF LocalInv, TypeOK, Locals
    <3> QED BY <3>1, <3>2 DEF LocalInv, TypeOK
  <2>3. ASSUME NEW ids \in SUBSET PendingIds, NEW who \in People, StartPick(p, ids, who)
        PROVE  pc'[p] = "listPending"
    BY <2>3 DEF StartPick, Goto, LocalInv, TypeOK
  <2> QED BY <1>2, <1>3, <2>1, <2>2, <2>3 DEF Cancels, Start
<1>4. CASE LockClosing(p)
  <2>1. CASE closing[c].state # "live"
    BY <1>1, <1>4, <2>1 DEF LockClosing, Rollback
  <2>2. CASE closing[c].state = "live"
    <3>1. PICK row : /\ req[p].op = "remove" => row.state = "removed" /\ row \in ClosingRow
                     /\ wClosing' = [wClosing EXCEPT ![p] = [@ EXCEPT ![c] = row]]
                     /\ req' = [req EXCEPT ![p] = [@ EXCEPT !.entity = row]]
                     /\ pc' = [pc EXCEPT ![p] = "lockBook"] /\ wPending' = wPending
      <4>1. PICK dto \in Edits :
              LET row == IF req[p].op = "remove" THEN [closing[c] EXCEPT !.state = "removed"]
                                                 ELSE Patch(closing[c], dto)
              IN  /\ wClosing' = [wClosing EXCEPT ![p] = [@ EXCEPT ![c] = row]]
                  /\ req' = [req EXCEPT ![p] = [@ EXCEPT !.entity = row]]
                  /\ pc' = [pc EXCEPT ![p] = "lockBook"] /\ wPending' = wPending
        BY <1>4, <2>2 DEF LockClosing, Goto
      <4>2. /\ [closing[c] EXCEPT !.state = "removed"].state = "removed"
            /\ [closing[c] EXCEPT !.state = "removed"] \in ClosingRow
        <5>1. closing[c] \in ClosingRow
          BY DEF LocalInv, TypeOK
        <5> QED BY <5>1 DEF ClosingRow
      <4> QED BY <4>1, <4>2
    <3>2. req'[p].op = req[p].op /\ req'[p].c = c /\ pc'[p] = "lockBook" /\ wClosing'[p][c] = row
      BY <3>1 DEF LocalInv, TypeOK, Locals
    <3>3. Quiet(p)
      BY <1>4 DEF LockClosing, Quiet, Outside
    <3> QED BY <1>2, <3>1, <3>2, <3>3, NoRowAssumption DEF Cancels
  <2> QED BY <2>1, <2>2
<1>5. CASE LoadClosing(p)
  <2>1. CASE closing[c].state # "live"
    BY <1>1, <1>5, <2>1 DEF LoadClosing, Rollback
  <2>2. CASE closing[c].state = "live"
    <3>1. /\ req' = [req EXCEPT ![p] = [@ EXCEPT !.entity = closing[c]]]
          /\ UNCHANGED <<pending, wPending>> /\ pc[p] = "loadClosing"
      BY <1>5, <2>2 DEF LoadClosing, tables, buffers
    <3>2. req'[p].op = req[p].op /\ req[p].op # "remove" /\ Quiet(p)
      BY <3>1 DEF LocalInv, TypeOK, Locals, Cancels, Quiet, Outside
    <3> QED BY <1>2, <3>1, <3>2, CancelsNothingNew
  <2> QED BY <2>1, <2>2
<1>6. CASE LockBook(p)
  BY <1>6, CancelsNothingNew DEF LockBook, Goto, tables, LocalInv, TypeOK
<1>7. CASE ReadPending(p)
  <2>1. /\ pc[p] = "readPending" /\ pc'[p] = "writePending" /\ UNCHANGED <<pending, wPending, wClosing>>
        /\ req'[p].op = req[p].op /\ req'[p].c = c
    BY <1>7 DEF ReadPending, Goto, tables, buffers, LocalInv, TypeOK, Locals
  <2> QED BY <2>1, CancelsNothingNew
<1>8. CASE WriteOffer(p)
  <2>1. /\ pc[p] = "writePending" /\ req[p].op \in {"update", "resync"} /\ Quiet(p)
        /\ pending' = pending
    BY <1>8 DEF WriteOffer, Quiet, tables
  <2>2. req'[p].op = req[p].op
    <3>1. PICK entity : req' = [req EXCEPT ![p] = [req[p] EXCEPT !.entity = entity]]
      BY <1>8 DEF WriteOffer
    <3> QED BY <3>1 DEF LocalInv, TypeOK, Locals
  <2>3. \A x \in PendingIds : wPending'[p][x] # NoRow => pending[x].state # "PICKED"
    <3>1. CASE wPending' = wPending
      BY <1>2, <2>1, <3>1
    <3>2. ASSUME NEW x \in PendingIds, NEW row, WritePendingRow(p, x, row), pending[x].state # "PICKED"
          PROVE  \A y \in PendingIds : wPending'[p][y] # NoRow => pending[y].state # "PICKED"
      BY <1>2, <2>1, <3>2 DEF WritePendingRow, LocalInv, TypeOK
    <3>3. \A x \in req[p].rows : x \in PendingIds /\ pending[x].state # "PICKED"
      BY <2>1 DEF Knows, OfferOf
    <3>4. \A x \in FreeIds : x \in PendingIds /\ pending[x].state # "PICKED"
      BY DEF FreeIds
    <3> QED BY <1>8, <3>1, <3>2, <3>3, <3>4 DEF WriteOffer
  <2> QED BY <2>1, <2>2, <2>3 DEF Cancels
<1>9. CASE CancelPending(p)
  <2>1. /\ pc[p] = "writePending" /\ req[p].op = "remove" /\ UNCHANGED <<pending, wClosing>>
    BY <1>9 DEF CancelPending, tables
  <2>2. CASE req[p].rows = {}
    <3>1. pc'[p] = "commit" /\ UNCHANGED <<wPending, req>>
      BY <1>9, <2>2 DEF CancelPending, Goto, LocalInv, TypeOK
    <3> QED BY <2>1, <3>1 DEF Cancels
  <2>3. CASE req[p].rows # {}
    <3>1. PICK x \in req[p].rows :
            /\ WritePendingRow(p, x, [pending[x] EXCEPT !.state = "inactive"])
            /\ req' = [req EXCEPT ![p] = [@ EXCEPT !.rows = req[p].rows \ {x}]]
            /\ UNCHANGED pc
      BY <1>9, <2>3 DEF CancelPending
    <3> DEFINE row == [pending[x] EXCEPT !.state = "inactive"]
    <3>2. x \in PendingIds /\ pending[x].closing = c /\ row.state = "inactive"
      BY <2>1 DEF Knows, OfferOf, LocalInv, TypeOK, PendingRow
    <3>3. req'[p].op = "remove" /\ req'[p].c = c
      BY <2>1, <3>1 DEF LocalInv, TypeOK, Locals
    <3> HIDE DEF row
    <3>4. /\ wPending'[p][x] = row
          /\ \A y \in PendingIds \ {x} : wPending'[p][y] = wPending[p][y]
      BY <3>1, <3>2 DEF WritePendingRow, LocalInv, TypeOK, row
    <3> QED BY <2>1, <3>1, <3>2, <3>3, <3>4 DEF Cancels
  <2> QED BY <2>2, <2>3
<1>10. CASE CompareClosing(p) \/ SaveClosing(p)
  <2>1. req[p].op # "remove" /\ UNCHANGED <<pending, wPending>>
    BY <1>10 DEF CompareClosing, SaveClosing, Cancels, tables, buffers
  <2>2. req'[p].op = req[p].op
    <3>1. CASE CompareClosing(p)
      <4>1. PICK diff : req' = [req EXCEPT ![p] = [req[p] EXCEPT !.dirty = diff]]
        BY <3>1 DEF CompareClosing
      <4> QED BY <4>1 DEF LocalInv, TypeOK, Locals
    <3>2. CASE SaveClosing(p)
      BY <3>2 DEF SaveClosing
    <3> QED BY <1>10, <3>1, <3>2
  <2>3. \A x \in PendingIds : wPending[p][x] # NoRow => pending[x].state # "PICKED"
    BY <2>1 DEF Cancels
  <2> QED BY <2>1, <2>2, <2>3, CancelsNothingNew
<1>11. CASE ListPending(p)
  <2>1. Quiet(p) /\ wPending' = wPending /\ pc'[p] = "allocate"
    BY <1>11 DEF ListPending, Quiet, Outside, Goto, buffers, LocalInv, TypeOK
  <2> QED BY <1>2, <2>1 DEF Cancels
<1>12. CASE Allocate(p)
  <2>1. Quiet(p) /\ UNCHANGED <<pending, wPending>> /\ pc'[p] \in {"done", "lockPending"}
    BY <1>12 DEF Allocate, Quiet, Outside, Goto, buffers, LocalInv, TypeOK
  <2> QED BY <1>2, <2>1 DEF Cancels
<1>13. CASE (CheckPending(p) /\ Rollback(p)) \/ (ReadClosing(p) /\ Rollback(p)) \/ Commit(p)
  BY <1>1, <1>13 DEF Rollback, Commit
<1>14. CASE MarkPicked(p)
  <2> DEFINE x == req[p].cur
  <2>1. /\ pc[p] = "lockBook" /\ req[p].op = "pick" /\ Marking(p) /\ UNCHANGED <<pending, req>>
        /\ x \in PendingIds /\ x \in req[p].ids
    BY <1>14 DEF MarkPicked, Marking, LocalInv, ViewOK, tables
  <2>2. pending[x].state = "PENDING"
    BY <2>1 DEF Knows, LocksOf, Checked
  <2>3. PICK row : wPending' = [wPending EXCEPT ![p] = [@ EXCEPT ![x] = row]]
    BY <1>14 DEF MarkPicked
  <2>4. \A y \in PendingIds : wPending'[p][y] # NoRow => pending[y].state # "PICKED"
    BY <2>1, <2>2, <2>3, PickCancelsNothing DEF LocalInv, TypeOK
  <2>5. pc'[p] \in {"commit", "readClosing"}
    BY <1>14 DEF MarkPicked, Goto, LocalInv, TypeOK
  <2> QED BY <2>1, <2>4, <2>5 DEF Cancels
<1>15. ASSUME pc[p] \in PickSteps, UNCHANGED <<pending, wPending>>, req'[p].op = req[p].op PROVE Cancels(p)'
  BY <1>15, PickCancelsNothing, CancelsNothingNew
<1>16. CASE LockPending(p)
  <2>1. req' = [req EXCEPT ![p] = [req[p] EXCEPT !.rows = req[p].rows \ {NextToLock(p)}]]
    BY <1>16 DEF LockPending
  <2>2. req'[p].op = req[p].op
    BY <2>1 DEF LocalInv, TypeOK, Locals
  <2> QED BY <1>15, <1>16, <2>2 DEF LockPending, PickSteps, tables, buffers
<1>17. CASE CheckPending(p) /\ ~Rollback(p)
  <2>1. req' = [req EXCEPT ![p] = [req[p] EXCEPT !.rows = req[p].ids]]
    BY <1>17 DEF CheckPending
  <2>2. req'[p].op = req[p].op
    BY <2>1 DEF LocalInv, TypeOK, Locals
  <2> QED BY <1>15, <1>17, <2>2 DEF CheckPending, PickSteps, tables, buffers
<1>18. CASE ReadClosing(p) /\ ~Rollback(p)
  <2>1. PICK x \in req[p].rows :
          LET d   == pending[x].closing
              row == Seen(wClosing[p], closing, d)
          IN  /\ req' = [req EXCEPT ![p] = [req[p] EXCEPT !.cur = x, !.c = d, !.entity = row,
                                                          !.rows = req[p].rows \ {x}]]
              /\ UNCHANGED <<tables, expense, clock, locks, buffers, view>>
    BY <1>18 DEF ReadClosing
  <2> DEFINE d    == pending[x].closing
             row  == Seen(wClosing[p], closing, d)
             rest == req[p].rows \ {x}
  <2>2. /\ req' = [req EXCEPT ![p] = [req[p] EXCEPT !.cur = x, !.c = d, !.entity = row, !.rows = rest]]
        /\ pc[p] \in PickSteps /\ UNCHANGED <<pending, wPending>>
    BY <1>18, <2>1 DEF ReadClosing, PickSteps, tables, buffers
  <2> HIDE DEF d, row, rest
  <2>3. req'[p].op = req[p].op
    BY <2>2 DEF LocalInv, TypeOK, Locals
  <2> QED BY <1>15, <2>2, <2>3
<1>19. CASE DiffClosing(p)
  <2> DEFINE new  == [req[p].entity EXCEPT !.who = req[p].who, !.pickup = 0,
                          !.withdrawn = IF @ > 0 THEN @ ELSE view[p].take[req[p].cur]]
             diff == Changed(new, Seen(wClosing[p], closing, req[p].c))
  <2>1. req' = [req EXCEPT ![p] = [req[p] EXCEPT !.entity = new, !.dirty = diff]]
    BY <1>19 DEF DiffClosing
  <2> HIDE DEF new, diff
  <2>2. req'[p].op = req[p].op
    BY <2>1 DEF LocalInv, TypeOK, Locals
  <2> QED BY <1>15, <1>19, <2>2 DEF DiffClosing, PickSteps, tables, buffers
<1>20. CASE UpdateClosing(p)
  BY <1>15, <1>20 DEF UpdateClosing, PickSteps, tables
<1> QED BY <1>3, <1>4, <1>5, <1>6, <1>7, <1>8, <1>9, <1>10, <1>11, <1>12, <1>13, <1>14, <1>16, <1>17,
           <1>18, <1>19, <1>20 DEF TransactionStep

\* A pickup changes when a removal of its closing is committed.
LEMMA NextKeepsPicked ==
    ASSUME IInv, \A p \in Requests : Cancels(p), Next PROVE KeepsPicked
<1> SUFFICES ASSUME NEW x \in PendingIds, pending[x].state = "PICKED", pending'[x] # pending[x]
             PROVE  /\ pending'[x].state = "inactive"
                    /\ closing'[pending[x].closing].state = "removed"
  BY DEF KeepsPicked
<1>1. ASSUME NEW c \in Closings, NEW fig \in Figures, NEW who \in People \cup {NoOne}, CreateClosing(c, fig, who)
      PROVE  FALSE
  BY <1>1 DEF CreateClosing, FreeIds, IInv, LocalInv, TypeOK
<1>2. ASSUME NEW p \in Requests, ListPending(p) PROVE FALSE
  BY <1>2 DEF ListPending
<1>3. PICK p \in Requests : Commit(p)
  <2>1. CASE Environment
    BY <1>1, <2>1 DEF Environment, RecordExpense, VoidExpense, tables
  <2>2. ASSUME NEW p \in Requests, Start(p) \/ TransactionStep(p) PROVE Commit(p)
    BY <1>2, <2>2, RequestUnchanged
  <2>3. ASSUME NEW p \in Requests, DeadlockVictim(p) \/ Die(p) PROVE FALSE
    BY <2>3 DEF DeadlockVictim, Die, Rollback, tables
  <2> QED BY <2>1, <2>2, <2>3 DEF Next
<1>4. wPending[p][x] # NoRow /\ pending'[x] = wPending[p][x]
  BY <1>3, CommitRows DEF IInv
<1>5. /\ req[p].op = "remove" /\ wPending[p][x].state = "inactive" /\ pending[x].closing = req[p].c
      /\ pc[p] = "commit"
  BY <1>3, <1>4 DEF Cancels, Commit
<1>6. wClosing[p][req[p].c] # NoRow /\ wClosing[p][req[p].c].state = "removed"
  BY <1>5 DEF Cancels
<1>7. closing'[req[p].c] = wClosing[p][req[p].c]
  BY <1>3, <1>6, LocalsOf DEF Commit, Seen, IInv
<1> QED BY <1>4, <1>5, <1>6, <1>7

\* Every step does.
LEMMA NextCancels ==
    ASSUME IInv, IInv', \A q \in Requests : Cancels(q), [Next]_vars PROVE \A q \in Requests : Cancels(q)'
<1>1. CASE Environment
  <2>1. \A q \in Requests : Leaves(q)
    <3>1. UNCHANGED <<cLock, pLock, bLock, wClosing, wPending, wBook, wOffset, pc, req>>
      BY <1>1 DEF Environment, CreateClosing, RecordExpense, VoidExpense, locks, buffers
    <3> QED BY <3>1 DEF Leaves
  <2>2. \A q \in Requests : Harmless(q)
    <3>1. ASSUME NEW c \in Closings, NEW fig \in Figures, NEW who \in People \cup {NoOne},
                 CreateClosing(c, fig, who)
          PROVE  \A q \in Requests : Harmless(q)
      BY <3>1, CreateClosingTables DEF IInv
    <3>2. CASE UNCHANGED <<closing, pending>>
      BY <3>2, UnchangedHarmless
    <3> QED BY <1>1, <3>1, <3>2 DEF Environment, RecordExpense, VoidExpense, tables
  <2> QED BY <2>1, <2>2, CancelsKept
<1>2. CASE UNCHANGED vars
  BY <1>2 DEF vars, tables, buffers, Cancels
<1>3. ASSUME NEW p \in Requests, Start(p) \/ TransactionStep(p) PROVE \A q \in Requests : Cancels(q)'
  <2>1. \A q \in Requests \ {p} : Leaves(q)
    BY <1>3, StepLeaves DEF IInv
  <2>2. \A q \in Requests \ {p} : Harmless(q)
    <3>1. CASE ListPending(p)
      BY <3>1, ListPendingTables DEF IInv
    <3>2. CASE Commit(p)
      BY <3>2, CommitHarmless DEF IInv
    <3>3. CASE ~ListPending(p) /\ ~Commit(p)
      BY <1>3, <3>3, RequestUnchanged, UnchangedHarmless
    <3> QED BY <3>1, <3>2, <3>3
  <2> QED BY <1>3, <2>1, <2>2, CancelsKept, StepCancels
<1>4. ASSUME NEW p \in Requests, DeadlockVictim(p) \/ Die(p) PROVE \A q \in Requests : Cancels(q)'
  <2>1. EndOfTransaction(p) /\ UNCHANGED <<closing, pending>>
    BY <1>4 DEF DeadlockVictim, Die, Rollback, tables
  <2>2. \A q \in Requests \ {p} : Leaves(q) /\ Harmless(q)
    BY <2>1, EndLeaves, UnchangedHarmless DEF IInv
  <2>3. Cancels(p)'
    BY <2>1 DEF EndOfTransaction, IInv, LocalInv, TypeOK, NoWrites, Cancels
  <2> QED BY <2>2, <2>3, CancelsKept
<1> QED BY <1>1, <1>2, <1>3, <1>4 DEF Next

\* A pickup is never undone or changed by edits, regenerations or other pickups, whatever they
\* read before it: only the removal of its closing deactivates it, in the same transaction.
THEOREM PickupsStand == Spec => PickedIsFinal
<1>1. Init => \A p \in Requests : Cancels(p)
  BY DEF Init, NoWrites, NoLocals, Cancels
<1>2. IInv /\ (\A p \in Requests : Cancels(p)) /\ [Next]_vars => [KeepsPicked]_vars
  BY NextKeepsPicked
<1>3. IInv /\ IInv' /\ (\A p \in Requests : Cancels(p)) /\ [Next]_vars => (\A p \in Requests : Cancels(p))'
  BY NextCancels
<1> QED BY <1>1, <1>2, <1>3, InitSafe, NextSafe, PTL DEF Spec, PickedIsFinal

-----------------------------------------------------------------------------
(* The offer and the ledger follow the closing                               *)

\* Whoever writes back a closing that he read without a lock overlaps with nobody.
StaleOps == {"resync", "unlock"}
SavesAlone == StaleOps \cap Ops \subseteq Alone

\* Nobody says how much he takes: it is what was counted, or what is left of it.
TakesAll == (\A fig \in Figures : fig[2] = 0) /\ \A dto \in Edits : "withdrawn" \notin DOMAIN dto

\* The step of an edition or a removal that has its closing locked.
Saving(p) == \/ pc[p] \in {"readPending", "writePending"}
             \/ pc[p] \in {"lockBook", "commit"} /\ req[p].op # "pick"

\* Steps before a request writes anything.
Early == Outside \cup {"lockPending", "checkPending"}

\* Who writes a closing, its ledger or one of its withdrawals holds the lock of the closing.
HoldsOf(p) ==
    /\ req[p].op \notin StaleOps /\ pc[p] \notin {"loadClosing", "compareClosing", "saveClosing"}
    /\ \A c \in Closings : wClosing[p][c] # NoRow =>
          pc[p] \notin Early /\ cLock[c] = p /\ wClosing[p][c].counted > 0
    /\ \A x \in PendingIds : wPending[p][x] # NoRow =>
          pc[p] \notin Early /\ pending[x].state # "absent" /\ cLock[pending[x].closing] = p
    /\ Saving(p) \/ pc[p] = "lockBook" => cLock[req[p].c] = p

\* A save writes the closing it has locked, and nothing of another one.
SaveOf(p) ==
    Saving(p) =>
        LET c == req[p].c IN
        /\ closing[c].state = "live" /\ wClosing[p][c] # NoRow
        /\ pc[p] # "commit" => wClosing[p][c] = req[p].entity
        /\ \A d \in Closings : wClosing[p][d] # NoRow => d = c
        /\ \A x \in PendingIds : wPending[p][x] # NoRow => pending[x].closing = c

\* An edition has read the whole offer, and leaves what its closing says.
UpdateOf(p) ==
    Saving(p) /\ req[p].op = "update" =>
        LET c == req[p].c  row == wClosing[p][req[p].c] IN
        /\ row.state = "live" /\ (row.who = NoOne => closing[c].who = NoOne)
        /\ pc[p] = "writePending" => /\ req[p].rows = RowsOf(c, {"PENDING"})
                                     /\ req[p].picked = (RowsOf(c, {"PICKED"}) # {})
        /\ pc[p] = "commit" => \A x \in PendingIds :
              IF x \in RowsOf(c, {"PENDING"})
                THEN LET seen == Seen(wPending[p], pending, x) IN
                     IF row.who = NoOne THEN seen.state = "PENDING" /\ seen.amount = Take(row)
                                        ELSE seen.state = "inactive"
                ELSE wPending[p][x] = NoRow

\* A removal cancels every active row of its closing.
RemoveOf(p) ==
    Saving(p) /\ req[p].op = "remove" =>
        /\ wClosing[p][req[p].c].state = "removed"
        /\ \A x \in PendingIds : wPending[p][x] # NoRow => wPending[p][x].state = "inactive"
        /\ pc[p] \in {"writePending", "commit"} => \A x \in RowsOf(req[p].c, Active) :
              wPending[p][x] # NoRow \/ (pc[p] = "writePending" /\ x \in req[p].rows)

\* A pickup writes the closings of the rows that it marks, each row once.
PickOf(p) ==
    req[p].op = "pick" =>
        /\ \A x \in PendingIds : wPending[p][x] # NoRow =>
              wPending[p][x].state = "PICKED" /\ x \notin req[p].rows /\ (Marking(p) => x # req[p].cur)
        /\ Marking(p) => req[p].cur \notin req[p].rows
        /\ pc[p] \in {"diffClosing", "updateClosing"} => req[p].entity.counted > 0
        /\ \A c \in Closings : wClosing[p][c] # NoRow =>
              \/ \E x \in PendingIds : wPending[p][x] # NoRow /\ pending[x].closing = c
              \/ pc[p] = "lockBook" /\ c = req[p].c

Follows(p) == HoldsOf(p) /\ SaveOf(p) /\ UpdateOf(p) /\ RemoveOf(p) /\ PickOf(p)

CashCounted == \A c \in Closings : closing[c].state # "absent" => closing[c].counted > 0

\* What the offer and the ledger read of a closing is the same in both rows.
Same(a, b) == a.state = b.state /\ a.counted = b.counted /\ a.withdrawn = b.withdrawn /\ a.who = b.who

ResaveSteps == {"loadClosing", "lockBook", "readPending", "writePending", "compareClosing",
                "saveClosing", "commit"}

\* Who saves a closing that he loaded without a lock finds it, and its offer, as they were.
ResaveOf(p) ==
    LET c == req[p].c IN
    /\ pc[p] \in ResaveSteps /\ req[p].op \in StaleOps
    /\ \A x \in PendingIds : wPending[p][x] = NoRow
    /\ \A d \in Closings : wClosing[p][d] # NoRow =>
          pc[p] # "loadClosing" /\ d = c /\ Same(wClosing[p][d], closing[d])
    /\ pc[p] # "loadClosing" => closing[c].state = "live" /\ Same(req[p].entity, closing[c])
    /\ pc[p] = "writePending" => /\ req[p].rows = RowsOf(c, {"PENDING"})
                                 /\ req[p].picked = (RowsOf(c, {"PICKED"}) # {})

\* What overlaps with nobody is at work alone.
SolitaryOf(p) ==
    AtWork(p) => /\ req[p].op \in Ops
                 /\ req[p].op \in Alone => \A q \in Requests \ {p} : ~AtWork(q)

OfferInv ==
    /\ IInv /\ OfferFollowsClosing /\ CashCounted
    /\ \A p \in Requests : SolitaryOf(p) /\ (Follows(p) \/ ResaveOf(p))

\* A closing that q has locked stays as it is, and so do its rows.
Frozen(q) ==
    /\ \A c \in Closings : cLock[c] = q => cLock'[c] = q
    /\ \A c \in Closings : cLock[c] = q /\ closing[c].state # "absent" => closing'[c] = closing[c]
    /\ \A x \in PendingIds :
          /\ pending[x].state # "absent" /\ cLock[pending[x].closing] = q
          => pending'[x] = pending[x]
    /\ \A x \in PendingIds :
          /\ pending'[x].state # "absent" /\ cLock[pending'[x].closing] = q
          /\ closing[pending'[x].closing].state # "absent"
          => pending'[x] = pending[x]

\* The rows of a closing that q has locked are the same afterwards.
LEMMA RowsFrozen ==
    ASSUME LocalInv, NEW q \in Requests, Frozen(q), NEW c \in Closings, cLock[c] = q,
           closing[c].state # "absent"
    PROVE  /\ RowsOf(c, {"PENDING"})' = RowsOf(c, {"PENDING"})
           /\ RowsOf(c, {"PICKED"})' = RowsOf(c, {"PICKED"})
           /\ RowsOf(c, Active)' = RowsOf(c, Active)
           /\ closing'[c] = closing[c]
<1>1. \A x \in PendingIds :
         /\ pending[x].closing = c /\ pending[x].state \in Active => pending'[x] = pending[x]
         /\ pending'[x].closing = c /\ pending'[x].state \in Active => pending'[x] = pending[x]
  BY DEF Frozen, Active
<1> QED BY <1>1 DEF Frozen, RowsOf, Active

\* What a request relies on stays true while others leave it alone and its closings frozen.
LEMMA FollowsKept ==
    ASSUME IInv, NEW q \in Requests, Follows(q), Leaves(q), Frozen(q)
    PROVE  Follows(q)'
<1> DEFINE c == req[q].c
<1>1. c \in Closings /\ req[q].rows \subseteq PendingIds /\ req[q].cur \in PendingIds
      /\ \A x \in PendingIds : pending[x].closing \in Closings
  BY LocalsOf DEF IInv
<1>2. \A x \in PendingIds : wPending[q][x] # NoRow => pending'[x] = pending[x]
  BY <1>1 DEF Follows, HoldsOf, Frozen
<1> DEFINE Kept == /\ cLock[c] = q /\ closing'[c] = closing[c]
                   /\ RowsOf(c, {"PENDING"})' = RowsOf(c, {"PENDING"})
                   /\ RowsOf(c, {"PICKED"})' = RowsOf(c, {"PICKED"})
                   /\ RowsOf(c, Active)' = RowsOf(c, Active)
<1>3. Saving(q) => Kept
  <2> SUFFICES ASSUME Saving(q) PROVE Kept
    OBVIOUS
  <2>1. cLock[c] = q /\ closing[c].state # "absent"
    BY DEF Follows, HoldsOf, SaveOf
  <2>2. req'[q] = req[q]
    BY DEF Leaves
  <2> HIDE DEF c
  <2>3. /\ RowsOf(c, {"PENDING"})' = RowsOf(c, {"PENDING"})
        /\ RowsOf(c, {"PICKED"})' = RowsOf(c, {"PICKED"})
        /\ RowsOf(c, Active)' = RowsOf(c, Active)
        /\ closing'[c] = closing[c]
    <3>1. PICK d \in Closings : d = c
      BY <1>1
    <3>2. /\ RowsOf(d, {"PENDING"})' = RowsOf(d, {"PENDING"})
          /\ RowsOf(d, {"PICKED"})' = RowsOf(d, {"PICKED"})
          /\ RowsOf(d, Active)' = RowsOf(d, Active)
          /\ closing'[d] = closing[d]
      BY <2>1, <3>1, RowsFrozen DEF IInv
    <3>3. c' = d
      BY <2>2, <3>1 DEF c
    <3> QED BY <3>1, <3>2, <3>3 DEF RowsOf
  <2> QED BY <2>1, <2>3
<1>4. /\ pc'[q] = pc[q] /\ req'[q] = req[q] /\ wPending'[q] = wPending[q] /\ wClosing'[q] = wClosing[q]
      /\ \A d \in Closings : cLock[d] = q => cLock'[d] = q
      /\ Saving(q)' = Saving(q) /\ Marking(q)' = Marking(q)
  BY DEF Leaves, Frozen, Saving, Marking
<1>5. HoldsOf(q)'
  BY <1>1, <1>2, <1>4 DEF Follows, HoldsOf
<1>6. SaveOf(q)'
  BY <1>1, <1>2, <1>3, <1>4 DEF Follows, SaveOf
<1>7. UpdateOf(q)'
  <2> SUFFICES ASSUME Saving(q), req[q].op = "update"
               PROVE  UpdateOf(q)'
    BY <1>4 DEF UpdateOf
  <2>1. \A x \in PendingIds : x \in RowsOf(c, {"PENDING"}) =>
            Seen(wPending[q], pending, x)' = Seen(wPending[q], pending, x)
    BY <1>1, <1>3, <1>4 DEF Seen, RowsOf, Frozen, Follows, SaveOf
  <2> QED BY <1>1, <1>3, <1>4, <2>1 DEF Follows, UpdateOf
<1>8. RemoveOf(q)'
  BY <1>1, <1>3, <1>4 DEF Follows, RemoveOf
<1>9. PickOf(q)'
  BY <1>1, <1>2, <1>4 DEF Follows, PickOf
<1> QED BY <1>5, <1>6, <1>7, <1>8, <1>9 DEF Follows

\* A request that has ended holds nothing.
LEMMA EndFollows ==
    ASSUME LocalInv, NEW p \in Requests, EndOfTransaction(p) PROVE Follows(p)'
<1>1. /\ pc'[p] = "done" /\ req'[p] = NoLocals
      /\ \A x \in PendingIds : wPending'[p][x] = NoRow
      /\ \A c \in Closings : wClosing'[p][c] = NoRow
  BY DEF EndOfTransaction, LocalInv, TypeOK, NoWrites
<1>2. req'[p].op = "update"
  BY <1>1 DEF NoLocals
<1> QED BY <1>1, <1>2
     DEF Follows, HoldsOf, SaveOf, UpdateOf, RemoveOf, PickOf, Saving, Early, Outside, StaleOps

\* Nor does one that has written nothing yet.
LEMMA NothingYetFollows ==
    ASSUME NEW p \in Requests, Follows(p), pc[p] \in Early,
           wClosing'[p] = wClosing[p], wPending'[p] = wPending[p],
           pc'[p] \in (Early \cup {"readClosing"}) \ {"loadClosing"}, req'[p].op \notin StaleOps
    PROVE  Follows(p)'
<1>1. /\ \A x \in PendingIds : wPending'[p][x] = NoRow
      /\ \A c \in Closings : wClosing'[p][c] = NoRow
  BY DEF Follows, HoldsOf
<1> QED BY <1>1 DEF Follows, HoldsOf, SaveOf, UpdateOf, RemoveOf, PickOf, Saving, Marking, Early, Outside

\* A request that starts holds nothing, and one that is going to save a closing has not read it.
LEMMA StartFollows ==
    ASSUME LocalInv, NEW p \in Requests, Follows(p), Start(p) PROVE Follows(p)' \/ ResaveOf(p)'
<1>1. ASSUME NEW c \in Closings, NEW op \in AllOps \ {"pick"}, StartOnClosing(p, c, op)
      PROVE  Follows(p)' \/ ResaveOf(p)'
  <2>1. /\ pc' = [pc EXCEPT ![p] = IF op \in {"resync", "unlock"} THEN "loadClosing"
                                    ELSE "lockClosing"]
        /\ req' = [req EXCEPT ![p] = [req[p] EXCEPT !.op = op, !.c = c]]
        /\ pc[p] = "idle" /\ UNCHANGED <<wClosing, wPending>>
    BY <1>1 DEF StartOnClosing, Goto, buffers
  <2>2. req'[p].op = op
    BY <2>1 DEF LocalInv, TypeOK, Locals
  <2>3. CASE op \in StaleOps
    <3>1. pc'[p] = "loadClosing"
      BY <2>1, <2>3 DEF StaleOps, LocalInv, TypeOK
    <3>2. /\ \A x \in PendingIds : wPending'[p][x] = NoRow
          /\ \A d \in Closings : wClosing'[p][d] = NoRow
      BY <2>1 DEF Follows, HoldsOf, Early, Outside
    <3> QED BY <2>2, <2>3, <3>1, <3>2 DEF ResaveOf, ResaveSteps
  <2>4. CASE op \notin StaleOps
    <3>1. pc'[p] = "lockClosing"
      BY <2>1, <2>4 DEF StaleOps, LocalInv, TypeOK
    <3> QED BY <2>1, <2>2, <2>4, <3>1, NothingYetFollows DEF Early, Outside
  <2> QED BY <2>3, <2>4
<1>2. ASSUME NEW ids \in SUBSET PendingIds, NEW who \in People, StartPick(p, ids, who)
      PROVE  Follows(p)'
  <2>1. /\ pc' = [pc EXCEPT ![p] = "listPending"]
        /\ req' = [req EXCEPT ![p] = [req[p] EXCEPT !.op = "pick", !.ids = ids, !.who = who]]
        /\ pc[p] = "idle" /\ UNCHANGED <<wClosing, wPending>>
    BY <1>2 DEF StartPick, Goto, buffers
  <2>2. pc'[p] = "listPending" /\ req'[p].op = "pick"
    BY <2>1 DEF LocalInv, TypeOK, Locals
  <2> QED BY <2>1, <2>2, NothingYetFollows DEF Early, Outside, StaleOps
<1> QED BY <1>1, <1>2 DEF Start

\* An edition changes neither the state of a closing nor, without a name, who took its cash.
LEMMA PatchKeeps ==
    ASSUME NEW row \in ClosingRow, row.counted > 0, NEW dto \in Edits
    PROVE  /\ Patch(row, dto).state = row.state /\ Patch(row, dto).counted > 0
           /\ Patch(row, dto).who = NoOne => row.who = NoOne
BY CashPickupAssumption DEF Patch, ClosingRow

\* LockClosing takes the closing it is going to write.
LEMMA LockClosingFollows ==
    ASSUME IInv, CashCounted, NEW p \in Requests, Follows(p), LockClosing(p)
    PROVE  Follows(p)'
<1> USE DEF IInv
<1> DEFINE c == req[p].c
<1>1. CASE closing[c].state # "live"
  BY <1>1, EndFollows DEF LockClosing, Rollback
<1>2. CASE closing[c].state = "live"
  <2>0. pc[p] = "lockClosing" /\ req[p].op \in {"update", "remove"} /\ c \in Closings /\ closing[c] \in ClosingRow
        /\ closing[c].counted > 0
    <3>1. /\ pc[p] = "lockClosing" /\ req[p].op \notin {"resync", "unlock"}
          /\ closing[c] \in ClosingRow /\ closing[c].counted > 0
      BY <1>2, LocalsOf DEF LockClosing, Follows, HoldsOf, StaleOps, CashCounted, LocalInv, TypeOK
    <3>2. req[p].op # "pick" /\ req[p].op \in AllOps
      BY <3>1, LocalsOf DEF LocalInv, OpOK, SaveSteps, Locals
    <3> QED BY <3>1, <3>2, LocalsOf DEF AllOps
  <2>1. PICK row \in ClosingRow :
          /\ row.counted > 0
          /\ req[p].op = "update" => row.state = "live" /\ (row.who = NoOne => closing[c].who = NoOne)
          /\ req[p].op = "remove" => row.state = "removed"
          /\ cLock' = [cLock EXCEPT ![c] = p]
          /\ wClosing' = [wClosing EXCEPT ![p] = [@ EXCEPT ![c] = row]]
          /\ req' = [req EXCEPT ![p] = [@ EXCEPT !.entity = row]]
          /\ pc' = [pc EXCEPT ![p] = "lockBook"]
          /\ UNCHANGED <<tables, wPending>>
    <3>1. PICK dto \in Edits :
            LET row == IF req[p].op = "remove" THEN [closing[c] EXCEPT !.state = "removed"]
                                               ELSE Patch(closing[c], dto)
            IN  /\ cLock' = [cLock EXCEPT ![c] = p]
                /\ wClosing' = [wClosing EXCEPT ![p] = [@ EXCEPT ![c] = row]]
                /\ req' = [req EXCEPT ![p] = [@ EXCEPT !.entity = row]]
                /\ pc' = [pc EXCEPT ![p] = "lockBook"]
                /\ UNCHANGED <<tables, wPending>>
      BY <1>2 DEF LockClosing, Goto
    <3>2. CASE req[p].op = "remove"
      <4>1. /\ [closing[c] EXCEPT !.state = "removed"] \in ClosingRow
            /\ [closing[c] EXCEPT !.state = "removed"].state = "removed"
            /\ [closing[c] EXCEPT !.state = "removed"].counted > 0
        BY <2>0 DEF ClosingRow
      <4> QED BY <3>1, <3>2, <4>1
    <3>3. CASE req[p].op = "update"
      <4>1. /\ Patch(closing[c], dto) \in ClosingRow /\ Patch(closing[c], dto).state = "live"
            /\ Patch(closing[c], dto).counted > 0
            /\ Patch(closing[c], dto).who = NoOne => closing[c].who = NoOne
        BY <1>2, <2>0, PatchType, PatchKeeps
      <4> QED BY <3>1, <3>3, <4>1
    <3> QED BY <2>0, <3>2, <3>3
  <2>2. /\ pc'[p] = "lockBook" /\ req'[p].entity = row /\ req'[p].c = c /\ req'[p].op = req[p].op
        /\ closing' = closing /\ wPending' = wPending /\ cLock'[c] = p /\ wClosing'[p][c] = row
        /\ \A d \in Closings \ {c} : wClosing'[p][d] = NoRow
        /\ \A x \in PendingIds : wPending'[p][x] = NoRow
    BY <2>0, <2>1, LocalsOf DEF LocalInv, TypeOK, tables, Locals, Follows, HoldsOf, Early, Outside
  <2>3. row # NoRow
    BY NoRowAssumption
  <2> QED BY <1>2, <2>0, <2>1, <2>2, <2>3
       DEF Follows, HoldsOf, SaveOf, UpdateOf, RemoveOf, PickOf, Saving, Early, Outside, StaleOps
<1> QED BY <1>1, <1>2

\* LockBook changes nothing of what was read or written of the offer.
LEMMA LockBookFollows ==
    ASSUME IInv, NEW p \in Requests, Follows(p), LockBook(p) PROVE Follows(p)'
<1>1. /\ pc[p] = "lockBook" /\ pc'[p] = "readPending" /\ req[p].op # "pick"
      /\ UNCHANGED <<closing, pending, cLock, wClosing, wPending, req>>
  BY DEF LockBook, Goto, tables, IInv, LocalInv, TypeOK
<1>2. \A x \in PendingIds : wPending[p][x] = NoRow
  BY <1>1 DEF IInv, Knows, QuietOf, Quiet
<1> QED BY <1>1, <1>2 DEF Follows, HoldsOf, SaveOf, UpdateOf, RemoveOf, PickOf, Saving, Early, Outside

\* ReadPending reads the whole offer.
LEMMA ReadPendingFollows ==
    ASSUME IInv, NEW p \in Requests, Follows(p), ReadPending(p) PROVE Follows(p)'
<1> DEFINE c == req[p].c
<1> DEFINE offers == RowsOf(c, {"PENDING"})
           taken  == RowsOf(c, {"PICKED"})
<1>1. PICK rows \in SUBSET (offers \cup taken) :
        /\ IF req[p].op = "remove"
             THEN rows = offers \cup taken
             ELSE /\ rows \subseteq offers
                  /\ IF offers = {} THEN rows = {} ELSE \E x \in offers : rows = {x}
        /\ req' = [req EXCEPT ![p].rows = rows, ![p].picked = (taken # {})]
  BY ZenonT(60) DEF ReadPending
<1>2. /\ pc[p] = "readPending" /\ pc'[p] = "writePending"
      /\ UNCHANGED <<closing, pending, cLock, wClosing, wPending>>
  BY DEF ReadPending, Goto, tables, locks, buffers, IInv, LocalInv, TypeOK
<1>3. /\ req'[p].op = req[p].op /\ req'[p].c = c /\ req'[p].entity = req[p].entity
      /\ req'[p].rows = rows
  BY <1>1, LocalsOf DEF IInv, LocalInv, TypeOK, Locals
<1>11. req'[p].picked = (taken # {})
  BY <1>1, LocalsOf, Zenon DEF IInv, LocalInv, TypeOK, Locals
<1>4. c \in Closings /\ \A x \in PendingIds : wPending[p][x] = NoRow
  BY <1>2, LocalsOf DEF IInv, Knows, QuietOf, Quiet
<1>5. req[p].op # "remove" => rows = RowsOf(c, {"PENDING"})
  <2>1. \A x, y \in RowsOf(c, {"PENDING"}) : x = y
    BY <1>4 DEF IInv, CashOfferedOnce, RowsOf, Active
  <2> QED BY <1>1, <2>1
<1>6. req[p].op = "remove" => rows = RowsOf(c, Active)
  BY <1>1 DEF RowsOf, Active
<1>7. req[p].op # "pick"
  BY <1>2 DEF IInv, LocalInv, OpOK, SaveSteps
<1>8. HoldsOf(p)' /\ SaveOf(p)'
  BY <1>2, <1>3, <1>4 DEF Follows, HoldsOf, SaveOf, Saving, Early, Outside
<1>9. UpdateOf(p)'
  BY <1>2, <1>3, <1>4, <1>5, <1>11 DEF Follows, UpdateOf, Saving, RowsOf
<1>10. RemoveOf(p)' /\ PickOf(p)'
  BY <1>2, <1>3, <1>4, <1>6, <1>7 DEF Follows, RemoveOf, PickOf, Saving, RowsOf
<1> QED BY <1>8, <1>9, <1>10 DEF Follows

\* What WriteOffer does to the rows that an edition has read.
LEMMA OfferWritten ==
    ASSUME IInv, OfferFollowsClosing, NEW p \in Requests, Follows(p), WriteOffer(p)
    PROVE  LET c == req[p].c  row == req[p].entity IN
           /\ pc[p] = "writePending" /\ req[p].op = "update"
           /\ \A x \in PendingIds : wPending[p][x] = NoRow
           /\ \A x \in PendingIds \ RowsOf(c, {"PENDING"}) : wPending'[p][x] = NoRow
           /\ \A x \in RowsOf(c, {"PENDING"}) :
                 LET seen == Seen(wPending'[p], pending, x) IN
                 IF row.who = NoOne THEN seen.state = "PENDING" /\ seen.amount = Take(row)
                                    ELSE seen.state = "inactive"
<1> DEFINE c      == req[p].c
           row    == req[p].entity
           take   == Take(row)
           offers == RowsOf(c, {"PENDING"})
           none   == \A x \in PendingIds : wPending'[p][x] = NoRow
<1>1. pc[p] = "writePending" /\ req[p].op = "update"
  BY DEF WriteOffer, Follows, HoldsOf, StaleOps
<1>2. /\ Saving(p) /\ c \in Closings /\ row \in ClosingRow /\ wClosing[p][c] = row /\ row.counted > 0
      /\ row.state = "live" /\ closing[c].state = "live" /\ (row.who = NoOne => closing[c].who = NoOne)
      /\ req[p].rows = offers /\ req[p].picked = (RowsOf(c, {"PICKED"}) # {})
  <2>1. Saving(p) /\ c \in Closings /\ row \in ClosingRow
    BY <1>1, LocalsOf DEF Saving, IInv
  <2>2. wClosing[p][c] = row /\ wClosing[p][c] # NoRow /\ closing[c].state = "live"
    BY <1>1, <2>1 DEF Follows, SaveOf
  <2> QED BY <1>1, <2>1, <2>2 DEF Follows, HoldsOf, UpdateOf
<1>3. \A x \in PendingIds : wPending[p][x] = NoRow
  BY <1>1 DEF IInv, Knows, QuietOf, Quiet
<1>4. take > 0
  BY <1>2 DEF Take, ClosingRow
<1>5. \A x, y \in offers : x = y
  BY <1>2 DEF IInv, CashOfferedOnce, RowsOf, Active
<1>6. offers \subseteq PendingIds
  BY DEF RowsOf
<1>7. NothingToOffer(p) <=> (RowsOf(c, {"PICKED"}) # {} \/ row.who # NoOne)
  <2>1. take # 0
    BY <1>4
  <2> QED BY <1>2, <2>1, Zenon DEF NothingToOffer
<1>8. row.who = NoOne /\ RowsOf(c, {"PICKED"}) = {} => offers # {}
  BY <1>2 DEF OfferFollowsClosing
<1>9. RowsOf(c, {"PICKED"}) # {} => offers = {}
  BY <1>2 DEF OfferFollowsClosing
<1>10. ASSUME NEW x \in offers, NEW r, WritePendingRow(p, x, r)
       PROVE  wPending'[p][x] = r /\ \A y \in PendingIds \ {x} : wPending'[p][y] = NoRow
  BY <1>3, <1>6, <1>10 DEF WritePendingRow, IInv, LocalInv, TypeOK
<1>11. \/ /\ NothingToOffer(p)
          /\ \E x \in offers : WritePendingRow(p, x, [pending[x] EXCEPT !.state = "inactive"])
       \/ /\ ~NothingToOffer(p)
          /\ \E x \in offers : WritePendingRow(p, x, [pending[x] EXCEPT !.amount = take])
       \/ none /\ NothingToOffer(p) /\ offers = {}
       \/ none /\ ~NothingToOffer(p) /\ \E x \in offers : pending[x].amount = take
  <2>1. wPending' = wPending => none
    BY <1>3
  <2>2. \/ /\ NothingToOffer(p)
           /\ \E x \in req[p].rows : WritePendingRow(p, x, [pending[x] EXCEPT !.state = "inactive"])
        \/ /\ ~NothingToOffer(p)
           /\ \E x \in req[p].rows : WritePendingRow(p, x, [pending[x] EXCEPT !.amount = take])
        \/ /\ wPending' = wPending
           /\ \/ NothingToOffer(p) /\ req[p].rows = {}
              \/ ~NothingToOffer(p) /\ \E x \in req[p].rows : pending[x].amount = take
        \/ ~NothingToOffer(p) /\ req[p].rows = {}
    BY DEF WriteOffer
  <2>3. ~(~NothingToOffer(p) /\ req[p].rows = {})
    BY <1>2, <1>7, <1>8
  <2> HIDE DEF none, take
  <2> QED BY <1>2, <2>1, <2>2, <2>3
<1>12. \A x \in offers : pending[x].state = "PENDING" /\ pending[x] \in PendingRow /\ pending[x] # NoRow
  BY <1>6, NoRowAssumption DEF RowsOf, IInv, LocalInv, TypeOK
<1> HIDE DEF none, take, row
<1>13. CASE NothingToOffer(p) /\ offers # {}
  <2>1. PICK x \in offers : WritePendingRow(p, x, [pending[x] EXCEPT !.state = "inactive"])
    BY <1>11, <1>13
  <2>2. row.who # NoOne
    BY <1>7, <1>9, <1>13
  <2>3. /\ [pending[x] EXCEPT !.state = "inactive"].state = "inactive"
        /\ [pending[x] EXCEPT !.state = "inactive"] # NoRow
    BY <1>12, NoRowAssumption DEF PendingRow
  <2>4. Seen(wPending'[p], pending, x).state = "inactive"
    BY <1>10, <2>1, <2>3 DEF Seen
  <2>5. \A y \in PendingIds \ offers : wPending'[p][y] = NoRow
    BY <1>10, <2>1
  <2>6. \A y \in offers : Seen(wPending'[p], pending, y).state = "inactive"
    BY <1>5, <2>4
  <2> QED BY <1>1, <1>3, <2>2, <2>5, <2>6 DEF row
<1>14. CASE offers = {}
  <2>1. none
    BY <1>11, <1>14
  <2> QED BY <1>1, <1>3, <1>14, <2>1 DEF none
<1>15. CASE ~NothingToOffer(p) /\ offers # {}
  <2>1. row.who = NoOne
    BY <1>7, <1>15
  <2>2. PICK x \in offers : \/ WritePendingRow(p, x, [pending[x] EXCEPT !.amount = take])
                            \/ none /\ pending[x].amount = take
    BY <1>11, <1>15
  <2>3. /\ [pending[x] EXCEPT !.amount = take].state = "PENDING"
        /\ [pending[x] EXCEPT !.amount = take].amount = take
        /\ [pending[x] EXCEPT !.amount = take] # NoRow
    <3>1. take \in Nat
      BY <1>2, PlanType DEF take, row
    <3> QED BY <1>12, <3>1, NoRowAssumption DEF PendingRow
  <2>4. /\ Seen(wPending'[p], pending, x).state = "PENDING"
        /\ Seen(wPending'[p], pending, x).amount = take
        /\ \A y \in PendingIds \ offers : wPending'[p][y] = NoRow
    <3>1. CASE WritePendingRow(p, x, [pending[x] EXCEPT !.amount = take])
      BY <1>10, <2>3, <3>1 DEF Seen
    <3>2. CASE none /\ pending[x].amount = take
      BY <1>6, <1>12, <3>2 DEF Seen, none
    <3> QED BY <2>2, <3>1, <3>2
  <2>5. \A y \in offers : /\ Seen(wPending'[p], pending, y).state = "PENDING"
                          /\ Seen(wPending'[p], pending, y).amount = take
    BY <1>5, <2>4
  <2> QED BY <1>1, <1>3, <2>1, <2>4, <2>5 DEF row, take
<1> QED BY <1>13, <1>14, <1>15

\* WriteOffer brings the offer up to the closing that is written with it.
LEMMA WriteOfferFollows ==
    ASSUME IInv, OfferFollowsClosing, NEW p \in Requests, Follows(p), WriteOffer(p) PROVE Follows(p)'
<1> DEFINE c == req[p].c
<1>1. /\ pc[p] = "writePending" /\ req[p].op = "update"
      /\ \A x \in PendingIds : wPending[p][x] = NoRow
      /\ \A x \in PendingIds \ RowsOf(c, {"PENDING"}) : wPending'[p][x] = NoRow
      /\ \A x \in RowsOf(c, {"PENDING"}) :
            LET seen == Seen(wPending'[p], pending, x) IN
            IF req[p].entity.who = NoOne THEN seen.state = "PENDING" /\ seen.amount = Take(req[p].entity)
                                         ELSE seen.state = "inactive"
  BY OfferWritten
<1>2. Saving(p) /\ c \in Closings /\ req[p].entity \in ClosingRow /\ wClosing[p][c] = req[p].entity
      /\ wClosing[p][c] # NoRow /\ closing[c].state = "live" /\ cLock[c] = p
  BY <1>1, LocalsOf DEF Saving, IInv, Follows, HoldsOf, SaveOf
<1>3. PICK entity : /\ entity = [req[p].entity EXCEPT !.pickup = PickupAfter(p)]
                    /\ req' = [req EXCEPT ![p] = [@ EXCEPT !.entity = entity]]
                    /\ pc' = [pc EXCEPT ![p] = "commit"]
                    /\ \/ wClosing' = wClosing /\ entity = req[p].entity
                       \/ wClosing' = [wClosing EXCEPT ![p] = [@ EXCEPT ![c] = entity]]
                    /\ UNCHANGED <<closing, pending, cLock>>
  <2>1. req[p].op # "resync"
    BY <1>1
  <2> QED BY <1>1, <2>1 DEF WriteOffer, Goto, tables
<1>4. /\ entity.state = req[p].entity.state /\ entity.counted = req[p].entity.counted
      /\ entity.who = req[p].entity.who /\ entity.withdrawn = req[p].entity.withdrawn
      /\ entity # NoRow
  <2>1. PickupAfter(p) \in Nat
    BY <1>2, PlanType DEF PickupAfter, ClosingRow
  <2>2. entity \in ClosingRow
    BY <1>2, <1>3, <2>1 DEF ClosingRow
  <2> QED BY <1>2, <1>3, <2>2, NoRowAssumption DEF ClosingRow
<1>5. /\ pc'[p] = "commit" /\ req'[p].op = "update" /\ req'[p].c = c
      /\ wClosing'[p][c] = entity /\ \A d \in Closings \ {c} : wClosing'[p][d] = wClosing[p][d]
  BY <1>1, <1>2, <1>3 DEF IInv, LocalInv, TypeOK, Locals
<1>6. Take(entity) = Take(req[p].entity)
  BY <1>4 DEF Take
<1>7. \A x \in RowsOf(c, {"PENDING"}) : x \in PendingIds /\ pending[x].state = "PENDING" /\ pending[x].closing = c
  BY DEF RowsOf
<1>8. RowsOf(c, {"PENDING"})' = RowsOf(c, {"PENDING"})
  BY <1>3 DEF RowsOf
<1> HIDE DEF c
<1>9. HoldsOf(p)'
  <2>1. \A d \in Closings : wClosing'[p][d] # NoRow => cLock'[d] = p /\ wClosing'[p][d].counted > 0
    <3> TAKE d \in Closings
    <3>1. CASE d = c
      <4>1. wClosing[p][c].counted > 0
        BY <1>2 DEF Follows, HoldsOf
      <4> QED BY <1>2, <1>3, <1>4, <1>5, <3>1, <4>1
    <3>2. CASE d # c
      BY <1>3, <1>5, <3>2 DEF Follows, HoldsOf
    <3> QED BY <3>1, <3>2
  <2>2. \A x \in PendingIds : wPending'[p][x] # NoRow => pending'[x].state # "absent" /\ cLock'[pending'[x].closing] = p
    BY <1>1, <1>2, <1>3, <1>7
  <2> QED BY <1>2, <1>3, <1>5, <2>1, <2>2 DEF HoldsOf, Early, Outside, StaleOps
<1>10. SaveOf(p)'
  BY <1>1, <1>2, <1>3, <1>4, <1>5, <1>7 DEF Follows, SaveOf, c
<1>11. UpdateOf(p)'
  <2> DEFINE row == req[p].entity
  <2>1. row.state = "live" /\ (row.who = NoOne => closing[c].who = NoOne)
    BY <1>1, <1>2 DEF Follows, UpdateOf, c
  <2>2. \A x \in PendingIds :
           IF x \in RowsOf(c, {"PENDING"})
             THEN LET seen == Seen(wPending'[p], pending', x) IN
                  IF entity.who = NoOne THEN seen.state = "PENDING" /\ seen.amount = Take(entity)
                                        ELSE seen.state = "inactive"
             ELSE wPending'[p][x] = NoRow
    BY <1>1, <1>3, <1>4, <1>6
  <2>3. /\ wClosing'[p][c] = entity /\ req'[p].c = c /\ closing' = closing /\ pending' = pending
        /\ pc'[p] = "commit"
    BY <1>3, <1>5
  <2>4. entity.state = "live" /\ (entity.who = NoOne => closing[c].who = NoOne)
    BY <1>4, <2>1
  <2> QED BY <2>2, <2>3, <2>4 DEF UpdateOf, RowsOf
<1>12. RemoveOf(p)' /\ PickOf(p)'
  BY <1>5 DEF RemoveOf, PickOf
<1> QED BY <1>9, <1>10, <1>11, <1>12 DEF Follows

\* CancelPending writes the rows that it has read, one after the other.
LEMMA CancelPendingFollows ==
    ASSUME IInv, NEW p \in Requests, Follows(p), CancelPending(p) PROVE Follows(p)'
<1> DEFINE c == req[p].c
<1>1. /\ pc[p] = "writePending" /\ req[p].op = "remove"
      /\ UNCHANGED <<closing, pending, cLock, wClosing>>
  BY DEF CancelPending, tables
<1>2. \A x \in req[p].rows : x \in PendingIds /\ pending[x].state # "absent" /\ pending[x].closing = c
  BY <1>1, LocalsOf DEF IInv, Knows, OfferOf
<1>3. Saving(p)
  BY <1>1 DEF Saving
<1>4. CASE req[p].rows = {}
  <2>1. pc'[p] = "commit" /\ UNCHANGED <<wPending, req>>
    BY <1>4 DEF CancelPending, Goto, IInv, LocalInv, TypeOK
  <2> QED BY <1>1, <1>3, <1>4, <2>1
       DEF Follows, HoldsOf, SaveOf, UpdateOf, RemoveOf, PickOf, Saving, Early, Outside, RowsOf
<1>5. CASE req[p].rows # {}
  <2>1. PICK x \in req[p].rows :
          /\ WritePendingRow(p, x, [pending[x] EXCEPT !.state = "inactive"])
          /\ req' = [req EXCEPT ![p] = [@ EXCEPT !.rows = req[p].rows \ {x}]]
          /\ UNCHANGED pc
    BY <1>5 DEF CancelPending
  <2> DEFINE row == [pending[x] EXCEPT !.state = "inactive"]
  <2>2. row.state = "inactive" /\ row # NoRow
    <3>1. pending[x] \in PendingRow
      BY <1>2 DEF IInv, LocalInv, TypeOK
    <3>2. row \in PendingRow /\ row.state = "inactive"
      BY <3>1 DEF PendingRow
    <3> QED BY <3>2, NoRowAssumption
  <2>3. /\ req'[p].op = "remove" /\ req'[p].c = c /\ req'[p].entity = req[p].entity
        /\ req'[p].rows = req[p].rows \ {x}
    BY <1>1, <2>1 DEF IInv, LocalInv, TypeOK, Locals
  <2>4. /\ wPending'[p][x] = row
        /\ \A y \in PendingIds \ {x} : wPending'[p][y] = wPending[p][y]
    BY <1>2, <2>1 DEF WritePendingRow, IInv, LocalInv, TypeOK
  <2> HIDE DEF row, c
  <2>5. cLock[c] = p
    BY <1>3 DEF Follows, HoldsOf, c
  <2>6. HoldsOf(p)'
    BY <1>1, <1>2, <2>1, <2>2, <2>3, <2>4, <2>5 DEF Follows, HoldsOf, Saving, Early, Outside, c
  <2>7. SaveOf(p)'
    BY <1>1, <1>2, <1>3, <2>1, <2>2, <2>3, <2>4 DEF Follows, SaveOf, c
  <2>8. RemoveOf(p)'
    BY <1>1, <1>2, <1>3, <2>1, <2>2, <2>3, <2>4 DEF Follows, RemoveOf, RowsOf, c
  <2>9. UpdateOf(p)' /\ PickOf(p)'
    BY <2>3 DEF UpdateOf, PickOf
  <2> QED BY <2>6, <2>7, <2>8, <2>9 DEF Follows
<1> QED BY <1>4, <1>5

\* Before a pickup has checked its rows it has written nothing.
LEMMA BeforePickFollows ==
    ASSUME IInv, NEW p \in Requests, Follows(p),
           ListPending(p) \/ Allocate(p) \/ LockPending(p) \/ CheckPending(p)
    PROVE  Follows(p)'
<1>1. CASE ListPending(p)
  <2>1. /\ pc[p] = "listPending" /\ pc'[p] = "allocate" /\ req[p].op = "pick"
        /\ UNCHANGED <<wClosing, wPending, req>>
    BY <1>1 DEF ListPending, Goto, buffers, IInv, LocalInv, TypeOK, OpOK, PickSteps
  <2> QED BY <2>1, NothingYetFollows DEF Early, Outside, StaleOps
<1>2. CASE Allocate(p)
  <2>1. /\ pc[p] = "allocate" /\ req[p].op = "pick" /\ UNCHANGED <<wClosing, wPending>>
        /\ pc'[p] \in {"done", "lockPending"}
    BY <1>2 DEF Allocate, Goto, buffers, IInv, LocalInv, TypeOK, OpOK, PickSteps
  <2>2. \/ req'[p] = NoLocals
        \/ \E rows, ids : req' = [req EXCEPT ![p] = [req[p] EXCEPT !.ids = ids, !.rows = rows]]
    BY <1>2 DEF Allocate, IInv, LocalInv, TypeOK
  <2>3. req'[p].op \notin StaleOps
    <3>1. req[p].op = "pick" /\ req \in [Requests -> Locals]
      BY <2>1 DEF IInv, LocalInv, TypeOK
    <3>2. CASE req'[p] = NoLocals
      BY <3>2 DEF NoLocals, StaleOps
    <3>3. ASSUME NEW rows, NEW ids, req' = [req EXCEPT ![p] = [req[p] EXCEPT !.ids = ids, !.rows = rows]]
          PROVE  req'[p].op = "pick"
      BY <3>1, <3>3 DEF Locals
    <3> QED BY <2>2, <3>2, <3>3 DEF StaleOps
  <2> QED BY <2>1, <2>3, NothingYetFollows DEF Early, Outside
<1>3. CASE LockPending(p)
  <2>1. /\ pc[p] = "lockPending" /\ req[p].op = "pick" /\ UNCHANGED <<wClosing, wPending>>
        /\ pc'[p] \in {"checkPending", "lockPending"}
        /\ req' = [req EXCEPT ![p] = [req[p] EXCEPT !.rows = req[p].rows \ {NextToLock(p)}]]
    BY <1>3 DEF LockPending, Goto, buffers, IInv, LocalInv, TypeOK, OpOK, PickSteps
  <2>2. req'[p].op \notin StaleOps
    BY <2>1 DEF IInv, LocalInv, TypeOK, Locals, StaleOps
  <2> QED BY <2>1, <2>2, NothingYetFollows DEF Early, Outside
<1>4. CASE CheckPending(p)
  <2>1. CASE Rollback(p)
    BY <2>1, EndFollows DEF Rollback, IInv
  <2>2. CASE ~Rollback(p)
    <3>1. /\ pc[p] = "checkPending" /\ req[p].op = "pick" /\ UNCHANGED <<wClosing, wPending>>
          /\ pc'[p] = "readClosing"
          /\ req' = [req EXCEPT ![p] = [req[p] EXCEPT !.rows = req[p].ids]]
      BY <1>4, <2>2 DEF CheckPending, Goto, buffers, IInv, LocalInv, TypeOK, OpOK, PickSteps
    <3>2. req'[p].op \notin StaleOps
      BY <3>1 DEF IInv, LocalInv, TypeOK, Locals, StaleOps
    <3> QED BY <3>1, <3>2, NothingYetFollows DEF Early, Outside
  <2> QED BY <2>1, <2>2
<1> QED BY <1>1, <1>2, <1>3, <1>4

\* A closing as a request sees it has cash.
LEMMA SeenCounted ==
    ASSUME CashCounted, NEW p \in Requests, Follows(p), NEW c \in Closings, closing[c].state # "absent"
    PROVE  Seen(wClosing[p], closing, c).counted > 0
BY DEF Seen, Follows, HoldsOf, CashCounted

\* ReadClosing takes the next row of the pickup.
LEMMA ReadClosingFollows ==
    ASSUME IInv, CashCounted, NEW p \in Requests, Follows(p), ReadClosing(p) PROVE Follows(p)'
<1> USE DEF IInv
<1>1. CASE Rollback(p)
  BY <1>1, EndFollows DEF Rollback
<1>2. CASE ~Rollback(p)
  <2>1. PICK x \in req[p].rows :
          LET d   == pending[x].closing
              row == Seen(wClosing[p], closing, d)
          IN  /\ req' = [req EXCEPT ![p] = [req[p] EXCEPT !.cur = x, !.c = d, !.entity = row,
                                                          !.rows = req[p].rows \ {x}]]
              /\ pc' = [pc EXCEPT ![p] = "diffClosing"]
              /\ UNCHANGED <<tables, expense, clock, locks, buffers, view>>
    BY <1>2 DEF ReadClosing, Goto
  <2> DEFINE d    == pending[x].closing
             row  == Seen(wClosing[p], closing, d)
             rest == req[p].rows \ {x}
  <2>2. /\ req' = [req EXCEPT ![p] = [req[p] EXCEPT !.cur = x, !.c = d, !.entity = row, !.rows = rest]]
        /\ pc' = [pc EXCEPT ![p] = "diffClosing"] /\ pc[p] = "readClosing"
        /\ UNCHANGED <<closing, pending, cLock, wClosing, wPending>>
    BY <2>1 DEF ReadClosing, tables, locks, buffers
  <2>3. x \in req[p].ids /\ x \in PendingIds /\ d \in Closings /\ pending[x].state = "PENDING"
    BY <2>2, LocalsOf DEF LocalInv, ViewOK, Picking, Knows, LocksOf, Checked
  <2>4. row.counted > 0
    BY <2>3, SeenCounted DEF RowsHaveClosing
  <2> HIDE DEF d, row
  <2>5. /\ req'[p].op = req[p].op /\ req'[p].cur = x /\ req'[p].c = d /\ req'[p].entity = row
        /\ req'[p].rows = rest /\ pc'[p] = "diffClosing" /\ req[p].op = "pick"
    BY <2>2 DEF LocalInv, TypeOK, Locals, OpOK, PickSteps
  <2>6. HoldsOf(p)'
    BY <2>2, <2>5 DEF Follows, HoldsOf, Saving, Early, Outside
  <2>7. PickOf(p)'
    <3>1. \A y \in PendingIds : wPending[p][y] # NoRow => y \notin req[p].rows /\ wPending[p][y].state = "PICKED"
      BY <2>5 DEF Follows, PickOf
    <3>2. \A k \in Closings : wClosing[p][k] # NoRow =>
             \E y \in PendingIds : wPending[p][y] # NoRow /\ pending[y].closing = k
      BY <2>2, <2>5 DEF Follows, PickOf
    <3> QED BY <2>2, <2>3, <2>4, <2>5, <3>1, <3>2 DEF PickOf
  <2> QED BY <2>5, <2>6, <2>7 DEF Follows, SaveOf, UpdateOf, RemoveOf, Saving
<1> QED BY <1>1, <1>2

\* DiffClosing changes who has the cash and what was taken, not what was counted.
LEMMA DiffClosingFollows ==
    ASSUME IInv, NEW p \in Requests, Follows(p), DiffClosing(p) PROVE Follows(p)'
<1> DEFINE new  == [req[p].entity EXCEPT !.who = req[p].who, !.pickup = 0,
                        !.withdrawn = IF @ > 0 THEN @ ELSE view[p].take[req[p].cur]]
           diff == Changed(new, Seen(wClosing[p], closing, req[p].c))
<1>1. /\ req' = [req EXCEPT ![p] = [req[p] EXCEPT !.entity = new, !.dirty = diff]]
      /\ pc[p] = "diffClosing" /\ pc' = [pc EXCEPT ![p] = "updateClosing"]
      /\ UNCHANGED <<closing, pending, cLock, wClosing, wPending>>
  BY DEF DiffClosing, Goto, tables, locks, buffers
<1>2. new.counted = req[p].entity.counted
  BY LocalsOf DEF IInv, ClosingRow
<1> HIDE DEF new, diff
<1>3. /\ req'[p].op = "pick" /\ req[p].op = "pick" /\ req'[p].cur = req[p].cur /\ req'[p].c = req[p].c
      /\ req'[p].entity = new /\ req'[p].rows = req[p].rows /\ pc'[p] = "updateClosing"
  BY <1>1 DEF IInv, LocalInv, TypeOK, Locals, OpOK, PickSteps
<1>4. HoldsOf(p)' /\ PickOf(p)'
  BY <1>1, <1>2, <1>3 DEF Follows, HoldsOf, PickOf, Saving, Marking, Early, Outside
<1> QED BY <1>3, <1>4 DEF Follows, SaveOf, UpdateOf, RemoveOf, Saving

\* UpdateClosing locks the closing and writes it.
LEMMA UpdateClosingFollows ==
    ASSUME IInv, CashCounted, NEW p \in Requests, Follows(p), UpdateClosing(p) PROVE Follows(p)'
<1> DEFINE c == req[p].c
<1>0. c \in Closings
  BY LocalsOf DEF IInv
<1>1. /\ wClosing'[p][c].counted \in {req[p].entity.counted, Seen(wClosing[p], closing, c).counted}
      /\ \A d \in Closings \ {c} : wClosing'[p][d] = wClosing[p][d]
  <2> DEFINE new == req[p].entity
             D   == req[p].dirty
             now == Seen(wClosing[p], closing, c)
             written == [state     |-> IF "state" \in D THEN new.state ELSE now.state,
                         counted   |-> IF "counted" \in D THEN new.counted ELSE now.counted,
                         withdrawn |-> IF "withdrawn" \in D THEN new.withdrawn ELSE now.withdrawn,
                         own       |-> now.own,
                         who       |-> IF "who" \in D THEN new.who ELSE now.who,
                         pickup    |-> IF "pickup" \in D THEN new.pickup ELSE now.pickup]
  <2>1. wClosing' = [wClosing EXCEPT ![p] = [@ EXCEPT ![c] = written]]
    BY DEF UpdateClosing, WithColumns
  <2>2. written.counted \in {new.counted, now.counted}
    OBVIOUS
  <2> HIDE DEF written
  <2>3. wClosing'[p][c] = written /\ \A d \in Closings \ {c} : wClosing'[p][d] = wClosing[p][d]
    BY <1>0, <2>1 DEF IInv, LocalInv, TypeOK
  <2> QED BY <2>2, <2>3
<1>2. /\ pc[p] = "updateClosing" /\ pc'[p] = "lockBook" /\ req[p].op = "pick"
      /\ cLock[c] \in {NoOne, p} /\ cLock' = [cLock EXCEPT ![c] = p]
      /\ UNCHANGED <<closing, pending, wPending, req>>
  BY DEF UpdateClosing, Goto, FreeOrMine, tables, IInv, LocalInv, TypeOK, OpOK, PickSteps
<1>3. c \in Closings /\ closing[c].state # "absent"
  BY <1>2, LocalsOf DEF IInv, Knows, ClosingOf, EntitySteps
<1>4. wClosing'[p][c].counted > 0
  BY <1>1, <1>2, <1>3, SeenCounted DEF Follows, PickOf
<1>5. /\ \A d \in Closings \ {c} : wClosing'[p][d] = wClosing[p][d]
      /\ cLock'[c] = p /\ \A d \in Closings \ {c} : cLock'[d] = cLock[d]
  BY <1>1, <1>2, <1>3 DEF IInv, LocalInv, TypeOK
<1> HIDE DEF c
<1>6. HoldsOf(p)'
  BY <1>2, <1>3, <1>4, <1>5, LocalsOf DEF IInv, Follows, HoldsOf, Saving, Early, Outside, c
<1>7. PickOf(p)'
  BY <1>2, <1>3, <1>5 DEF Follows, PickOf, Marking, c
<1> QED BY <1>2, <1>6, <1>7 DEF Follows, SaveOf, UpdateOf, RemoveOf, Saving

\* MarkPicked writes the row of the closing that it has written.
LEMMA MarkPickedFollows ==
    ASSUME IInv, NEW p \in Requests, Follows(p), MarkPicked(p) PROVE Follows(p)'
<1> DEFINE x == req[p].cur
           row == [pending[x] EXCEPT !.state = "PICKED", !.amount = view[p].take[x]]
<1>1. /\ pc[p] = "lockBook" /\ req[p].op = "pick" /\ pc'[p] \in {"commit", "readClosing"}
      /\ wPending' = [wPending EXCEPT ![p] = [@ EXCEPT ![x] = row]]
      /\ UNCHANGED <<closing, pending, cLock, wClosing, req>>
  BY DEF MarkPicked, Goto, tables, IInv, LocalInv, TypeOK
<1>2. x \in PendingIds /\ pending[x].state = "PENDING" /\ pending[x].closing = req[p].c /\ x \notin req[p].rows
  <2>1. Marking(p) /\ Checked(p)
    BY <1>1 DEF Marking, Checked
  <2> QED BY <1>1, <2>1, LocalsOf DEF IInv, LocalInv, ViewOK, Knows, LocksOf, Follows, PickOf
<1>3. row.state = "PICKED" /\ row # NoRow
  <2>1. pending[x] \in PendingRow /\ view[p].take[x] \in Nat
    BY <1>1, <1>2 DEF IInv, LocalInv, TypeOK, ViewOK, Picking, Marking
  <2>2. row \in PendingRow
    BY <2>1 DEF PendingRow
  <2> QED BY <2>1, <2>2, NoRowAssumption DEF PendingRow
<1> HIDE DEF row
<1>4. wPending'[p][x] = row /\ \A y \in PendingIds \ {x} : wPending'[p][y] = wPending[p][y]
  BY <1>1, <1>2 DEF IInv, LocalInv, TypeOK
<1>5. cLock[req[p].c] = p
  BY <1>1 DEF Follows, HoldsOf
<1> HIDE DEF x
<1>6. HoldsOf(p)'
  BY <1>1, <1>2, <1>4, <1>5 DEF Follows, HoldsOf, Saving, Early, Outside
<1>7. PickOf(p)'
  BY <1>1, <1>2, <1>3, <1>4 DEF Follows, PickOf, Marking
<1> QED BY <1>1, <1>6, <1>7 DEF Follows, SaveOf, UpdateOf, RemoveOf, Saving

\* Every step of a request keeps what it relies on.
LEMMA StepFollows ==
    ASSUME IInv, OfferFollowsClosing, CashCounted, NEW p \in Requests, Follows(p),
           TransactionStep(p)
    PROVE  Follows(p)'
<1> USE DEF IInv
<1>2. CASE LockClosing(p) \/ LockBook(p) \/ ReadPending(p) \/ WriteOffer(p) \/ CancelPending(p)
  BY <1>2, LockClosingFollows, LockBookFollows, ReadPendingFollows, WriteOfferFollows, CancelPendingFollows
<1>3. CASE LoadClosing(p) \/ CompareClosing(p) \/ SaveClosing(p)
  BY <1>3 DEF LoadClosing, CompareClosing, SaveClosing, Follows, HoldsOf
<1>4. CASE ListPending(p) \/ Allocate(p) \/ LockPending(p) \/ CheckPending(p)
  BY <1>4, BeforePickFollows
<1>5. CASE ReadClosing(p) \/ DiffClosing(p) \/ UpdateClosing(p) \/ MarkPicked(p)
  BY <1>5, ReadClosingFollows, DiffClosingFollows, UpdateClosingFollows, MarkPickedFollows
<1>6. CASE Commit(p)
  BY <1>6, EndFollows DEF Commit
<1> QED BY <1>2, <1>3, <1>4, <1>5, <1>6 DEF TransactionStep

\* What a commit publishes: rows that exist, of closings whose lock the request holds.
LEMMA CommitPublishes ==
    ASSUME IInv, NEW p \in Requests, Follows(p), Commit(p)
    PROVE  /\ \A c \in Closings : \/ wClosing[p][c] = NoRow /\ closing'[c] = closing[c]
                                  \/ /\ wClosing[p][c] # NoRow /\ closing'[c] = wClosing[p][c]
                                     /\ closing'[c].counted > 0 /\ cLock[c] = p
           /\ \A x \in PendingIds :
                \/ wPending[p][x] = NoRow /\ pending'[x] = pending[x]
                \/ /\ wPending[p][x] # NoRow /\ pending'[x] = wPending[p][x] /\ pending[x].state # "absent"
                   /\ cLock[pending[x].closing] = p /\ pending'[x].closing = pending[x].closing
                   /\ WriteOK(p, x)
<1>1. \A c \in Closings : closing'[c] = Seen(wClosing[p], closing, c)
  BY DEF Commit
<1> QED BY <1>1, CommitRows DEF Seen, IInv, Follows, HoldsOf, WriteOK

\* So a commit leaves alone what another request has locked.
LEMMA CommitFrozen ==
    ASSUME IInv, NEW p \in Requests, Follows(p), Commit(p), NEW q \in Requests \ {p}
    PROVE  Frozen(q)
<1>1. \A c \in Closings : cLock[c] = q => cLock'[c] = q
  BY CashPickupAssumption DEF Commit, EndOfTransaction, Released, IInv, LocalInv, TypeOK
<1>2. \A c \in Closings : cLock[c] = q => closing'[c] = closing[c]
  BY CommitPublishes
<1>3. \A x \in PendingIds : pending[x].closing \in Closings
  BY LocalsOf DEF IInv
<1>4. \A x \in PendingIds : cLock[pending[x].closing] = q => pending'[x] = pending[x]
  BY CommitPublishes
<1>5. \A x \in PendingIds : cLock[pending'[x].closing] = q => pending'[x] = pending[x]
  BY CommitPublishes
<1> QED BY <1>1, <1>2, <1>4, <1>5 DEF Frozen

\* The orphan clean-up finds nothing to clean: no closing has both an offer and a pickup.
LEMMA NoOrphans ==
    ASSUME IInv, NEW p \in Requests, ListPending(p)
    PROVE  UNCHANGED <<closing, pending>>
<1> DEFINE orphans == {x \in {y \in PendingIds : pending[y].state = "PENDING"} :
                          RowsOf(pending[x].closing, {"PICKED"}) # {}}
<1>1. orphans = {}
  <2> SUFFICES ASSUME NEW x \in PendingIds, pending[x].state = "PENDING",
                      NEW y \in RowsOf(pending[x].closing, {"PICKED"})
               PROVE  FALSE
    OBVIOUS
  <2>1. pending[x].closing \in Closings
    BY LocalsOf DEF IInv
  <2>2. x \in RowsOf(pending[x].closing, Active) /\ y \in RowsOf(pending[x].closing, Active)
    BY DEF RowsOf, Active
  <2>3. x = y
    BY <2>1, <2>2 DEF IInv, CashOfferedOnce
  <2> QED BY <2>3 DEF RowsOf
<1>2. /\ pending' = [x \in PendingIds |->
            IF x \in orphans THEN [pending[x] EXCEPT !.state = "inactive"] ELSE pending[x]]
      /\ closing' = [c \in Closings |->
            IF \E x \in orphans : pending[x].closing = c /\ closing[c].state = "live"
              THEN [closing[c] EXCEPT !.pickup = 0] ELSE closing[c]]
  BY DEF ListPending
<1> HIDE DEF orphans
<1>3. pending' = [x \in PendingIds |-> pending[x]] /\ closing' = [c \in Closings |-> closing[c]]
  BY <1>1, <1>2
<1> QED BY <1>3 DEF IInv, LocalInv, TypeOK

\* A commit leaves every closing with the offer that goes with it.
LEMMA CommitOffers ==
    ASSUME IInv, OfferFollowsClosing, CashCounted, NEW p \in Requests, Follows(p), Commit(p)
    PROVE  OfferFollowsClosing' /\ CashCounted'
<1>a. PICK d \in Closings : d = req[p].c
  BY LocalsOf DEF IInv
<1>0. pc[p] = "commit" /\ req[p].op \in {"update", "remove", "pick"}
      /\ \A x \in PendingIds : pending[x].closing \in Closings
  BY LocalsOf DEF Commit, IInv, Locals, AllOps, Follows, HoldsOf, StaleOps
<1> USE <1>a
<1>1. CashCounted'
  BY CommitPublishes DEF CashCounted
<1> DEFINE Right(c) == LET offers == RowsOf(c, {"PENDING"})
                           open   == /\ closing[c].state = "live" /\ closing[c].who = NoOne
                                     /\ RowsOf(c, {"PICKED"}) = {}
                       IN  /\ open => offers # {}
                           /\ offers # {} => open
                           /\ \A x \in offers : pending[x].amount = Take(closing[c])
<1>2. ASSUME NEW c \in Closings, closing'[c] = closing[c],
             \A x \in PendingIds : pending[x].closing = c => wPending[p][x] = NoRow
      PROVE  Right(c)'
  <2>1. \A x \in PendingIds : (pending'[x].closing = c <=> pending[x].closing = c)
                              /\ (pending[x].closing = c => pending'[x] = pending[x])
    BY <1>2, CommitPublishes
  <2>2. RowsOf(c, {"PENDING"})' = RowsOf(c, {"PENDING"}) /\ RowsOf(c, {"PICKED"})' = RowsOf(c, {"PICKED"})
    BY <2>1 DEF RowsOf
  <2>3. Right(c)
    BY DEF OfferFollowsClosing
  <2> QED BY <1>2, <2>1, <2>2, <2>3 DEF RowsOf
<1>3. ASSUME req[p].op = "update" PROVE Right(d)'
  <2> DEFINE row == wClosing[p][d]
  <2>1. /\ Saving(p) /\ row # NoRow /\ closing'[d] = row /\ closing[d].state = "live" /\ row.state = "live"
        /\ (row.who = NoOne => closing[d].who = NoOne)
        /\ \A x \in PendingIds :
              IF x \in RowsOf(d, {"PENDING"})
                THEN LET seen == Seen(wPending[p], pending, x) IN
                     IF row.who = NoOne THEN seen.state = "PENDING" /\ seen.amount = Take(row)
                                        ELSE seen.state = "inactive"
                ELSE wPending[p][x] = NoRow
    <3>1. Saving(p)
      BY <1>0, <1>3 DEF Saving
    <3>2. row # NoRow /\ closing[d].state = "live"
      BY <1>0, <3>1 DEF Follows, SaveOf
    <3> QED BY <1>0, <1>3, <3>1, <3>2, CommitPublishes DEF Follows, UpdateOf
  <2>2. \A x \in PendingIds : pending'[x] = Seen(wPending[p], pending, x)
    BY DEF Commit
  <2>3. \A x \in PendingIds : pending'[x].closing = pending[x].closing
    BY CommitPublishes
  <2> HIDE DEF row
  <2>4. RowsOf(d, {"PICKED"})' = RowsOf(d, {"PICKED"})
    <3>1. ASSUME NEW x \in PendingIds, x \in RowsOf(d, {"PENDING"}) PROVE pending'[x].state # "PICKED"
      BY <2>1, <2>2, <3>1
    <3>2. ASSUME NEW x \in PendingIds, x \notin RowsOf(d, {"PENDING"}) PROVE pending'[x] = pending[x]
      BY <2>1, <2>2, <3>2 DEF Seen
    <3> QED BY <2>3, <3>1, <3>2 DEF RowsOf
  <2>5. CASE row.who = NoOne
    <3>1. \A x \in RowsOf(d, {"PENDING"}) : pending'[x].state = "PENDING" /\ pending'[x].amount = Take(row)
      BY <2>1, <2>2, <2>5 DEF RowsOf
    <3>2. RowsOf(d, {"PENDING"})' = RowsOf(d, {"PENDING"})
      <4>1. \A x \in PendingIds \ RowsOf(d, {"PENDING"}) : pending'[x] = pending[x]
        BY <2>1, <2>2 DEF Seen
      <4> QED BY <2>3, <3>1, <4>1 DEF RowsOf
    <3>3. Right(d)
      BY <1>0 DEF OfferFollowsClosing
    <3> QED BY <2>1, <2>4, <2>5, <3>1, <3>2, <3>3
  <2>6. CASE row.who # NoOne
    <3>1. RowsOf(d, {"PENDING"})' = {}
      <4>1. \A x \in PendingIds \ RowsOf(d, {"PENDING"}) : pending'[x] = pending[x]
        BY <2>1, <2>2 DEF Seen
      <4>2. \A x \in RowsOf(d, {"PENDING"}) : pending'[x].state = "inactive"
        BY <2>1, <2>2, <2>6 DEF RowsOf
      <4> QED BY <2>3, <4>1, <4>2 DEF RowsOf
    <3> QED BY <2>1, <2>6, <3>1
  <2> QED BY <2>5, <2>6
<1>4. ASSUME req[p].op = "remove" PROVE Right(d)'
  <2>1. /\ Saving(p) /\ wClosing[p][d] # NoRow /\ wClosing[p][d].state = "removed"
        /\ \A x \in PendingIds : wPending[p][x] # NoRow => wPending[p][x].state = "inactive"
        /\ \A x \in RowsOf(d, Active) : wPending[p][x] # NoRow
    <3>1. Saving(p)
      BY <1>0, <1>4 DEF Saving
    <3> QED BY <1>0, <1>4, <3>1 DEF Follows, SaveOf, RemoveOf
  <2>2. closing'[d].state = "removed"
    BY <1>0, <2>1, CommitPublishes
  <2>3. RowsOf(d, {"PENDING"})' = {}
    <3> SUFFICES ASSUME NEW x \in PendingIds, pending'[x].closing = d, pending'[x].state = "PENDING"
                 PROVE  FALSE
      BY DEF RowsOf
    <3>1. wPending[p][x] = NoRow /\ pending'[x] = pending[x]
      BY <2>1, CommitPublishes
    <3> QED BY <2>1, <3>1 DEF RowsOf, Active
  <2> QED BY <2>2, <2>3
<1>5. ASSUME req[p].op = "pick", NEW x \in PendingIds, wPending[p][x] # NoRow,
             NEW c \in Closings, c = pending[x].closing
      PROVE  Right(c)'
  <2>1. /\ pending'[x].state = "PICKED" /\ pending'[x].closing = c /\ pending[x].state = "PENDING" /\ c \in Closings
    <3>1. wPending[p][x].state = "PICKED" /\ WriteOK(p, x) /\ pending'[x] = wPending[p][x]
          /\ pending'[x].closing = c
      BY <1>5, CommitPublishes DEF Follows, PickOf
    <3>2. pending[x].state = "PENDING"
      BY <1>0, <1>5, <3>1 DEF WriteOK, IInv, Knows, LocksOf, Checked
    <3> QED BY <1>0, <3>1, <3>2
  <2>2. x \in RowsOf(c, {"PICKED"})'
    BY <2>1 DEF RowsOf
  <2>3. RowsOf(c, {"PENDING"})' = {}
    <3>1. CashOfferedOnce'
      BY CommitTables DEF IInv
    <3>2. \A y, z \in RowsOf(c, Active)' : y = z
      BY <2>1, <3>1 DEF CashOfferedOnce
    <3> QED BY <2>1, <3>2 DEF RowsOf, Active
  <2> QED BY <2>2, <2>3
<1>6. ASSUME NEW c \in Closings PROVE Right(c)'
  <2>1. CASE req[p].op # "pick" /\ c = d
    BY <1>0, <1>3, <1>4, <2>1
  <2>2. CASE req[p].op # "pick" /\ c # d
    <3>1. Saving(p)
      BY <1>0, <2>2 DEF Saving
    <3>2. wClosing[p][c] = NoRow /\ \A x \in PendingIds : pending[x].closing = c => wPending[p][x] = NoRow
      BY <2>2, <3>1 DEF Follows, SaveOf
    <3>3. closing'[c] = closing[c]
      BY <3>2, CommitPublishes
    <3> QED BY <1>2, <3>2, <3>3
  <2>3. CASE req[p].op = "pick" /\ \E x \in PendingIds : pending[x].closing = c /\ wPending[p][x] # NoRow
    BY <1>5, <2>3
  <2>4. CASE req[p].op = "pick" /\ \A x \in PendingIds : pending[x].closing = c => wPending[p][x] = NoRow
    <3>1. wClosing[p][c] = NoRow
      BY <1>0, <2>4 DEF Follows, PickOf
    <3>2. closing'[c] = closing[c]
      BY <3>1, CommitPublishes
    <3> QED BY <1>2, <2>4, <3>2
  <2> QED BY <2>1, <2>2, <2>3, <2>4
<1>7. (\A c \in Closings : Right(c))' => OfferFollowsClosing'
  BY DEF OfferFollowsClosing
<1> HIDE DEF Right
<1> QED BY <1>1, <1>6, <1>7

\* A new closing offers its cash unless it names somebody, and no request knows of it.
LEMMA CreateClosingOffers ==
    ASSUME IInv, OfferFollowsClosing, CashCounted, NEW c \in Closings, NEW fig \in Figures,
           NEW who \in People \cup {NoOne}, CreateClosing(c, fig, who)
    PROVE  OfferFollowsClosing' /\ CashCounted' /\ \A q \in Requests : Frozen(q)
<1> DEFINE base == [state |-> "live", counted |-> fig[1], withdrawn |-> fig[2], own |-> fig[3],
                    who |-> who, pickup |-> 0]
           row  == IF who = NoOne THEN [base EXCEPT !.pickup = Take(base)] ELSE base
<1>1. fig[1] \in Nat /\ fig[1] > 0 /\ fig[2] \in Nat
  BY CashPickupAssumption
<1>2. row.state = "live" /\ row.counted > 0 /\ row.who = who /\ Take(row) = Take(base)
  BY <1>1 DEF Take
<1>3. /\ closing[c].state = "absent" /\ closing' = [closing EXCEPT ![c] = row]
      /\ IF who = NoOne THEN \E x \in FreeIds : pending' = [pending EXCEPT ![x] = NewPending(c, Take(base))]
                        ELSE pending' = pending
      /\ cLock' = cLock
  BY DEF CreateClosing, locks
<1> HIDE DEF row, base
<1>4. closing'[c] = row /\ \A d \in Closings \ {c} : closing'[d] = closing[d]
  BY <1>3 DEF IInv, LocalInv, TypeOK
<1>5. \A x \in PendingIds : pending[x].closing = c => pending[x].state = "absent"
  BY <1>3 DEF IInv, RowsHaveClosing
<1>6. \A x \in PendingIds : pending[x].closing \in Closings
  BY DEF IInv, LocalInv, TypeOK, PendingRow
<1>7. CashCounted'
  BY <1>2, <1>4 DEF CashCounted
<1>8. CASE who # NoOne
  <2>1. pending' = pending
    BY <1>3, <1>8
  <2>2. OfferFollowsClosing'
    BY <1>2, <1>4, <1>5, <1>8, <2>1 DEF OfferFollowsClosing, RowsOf
  <2>3. \A q \in Requests : Frozen(q)
    BY <1>3, <1>4, <2>1 DEF Frozen
  <2> QED BY <1>7, <2>2, <2>3
<1>9. CASE who = NoOne
  <2>1. PICK x \in FreeIds : pending' = [pending EXCEPT ![x] = NewPending(c, Take(base))]
    BY <1>3, <1>9
  <2>2. x \in PendingIds /\ pending[x].state = "absent"
    BY DEF FreeIds
  <2>3. /\ pending'[x].state = "PENDING" /\ pending'[x].closing = c /\ pending'[x].amount = Take(row)
        /\ \A y \in PendingIds \ {x} : pending'[y] = pending[y]
    BY <1>2, <2>1, <2>2 DEF IInv, LocalInv, TypeOK, NewPending
  <2>4. RowsOf(c, {"PENDING"})' = {x} /\ RowsOf(c, {"PICKED"})' = {}
    BY <1>5, <2>2, <2>3 DEF RowsOf
  <2>5. \A d \in Closings \ {c} : RowsOf(d, {"PENDING"})' = RowsOf(d, {"PENDING"})
                                 /\ RowsOf(d, {"PICKED"})' = RowsOf(d, {"PICKED"})
    BY <2>2, <2>3 DEF RowsOf
  <2>6. \A d \in Closings \ {c} : \A y \in RowsOf(d, {"PENDING"}) : pending'[y] = pending[y]
    BY <2>2, <2>3 DEF RowsOf
  <2>7. OfferFollowsClosing'
    <3> SUFFICES ASSUME NEW d \in Closings
                 PROVE  LET offers == RowsOf(d, {"PENDING"})'
                            open   == /\ closing'[d].state = "live" /\ closing'[d].who = NoOne
                                      /\ RowsOf(d, {"PICKED"})' = {}
                        IN  /\ open => offers # {}
                            /\ offers # {} => open
                            /\ \A y \in offers : pending'[y].amount = Take(closing'[d])
      BY DEF OfferFollowsClosing
    <3>1. CASE d = c
      BY <1>2, <1>4, <1>9, <2>3, <2>4, <3>1
    <3>2. CASE d # c
      BY <1>4, <2>5, <2>6, <3>2 DEF OfferFollowsClosing
    <3> QED BY <3>1, <3>2
  <2>8. \A q \in Requests : Frozen(q)
    BY <1>3, <1>4, <2>2, <2>3 DEF Frozen
  <2> QED BY <1>7, <2>7, <2>8
<1> QED BY <1>8, <1>9

\* Committed rows that do not change keep the offer, and every lock keeps them frozen.
LEMMA UnchangedOffers ==
    ASSUME UNCHANGED <<closing, pending>>, OfferFollowsClosing, CashCounted
    PROVE  OfferFollowsClosing' /\ CashCounted'
BY DEF OfferFollowsClosing, CashCounted, RowsOf

\* The locks of a request are released by its own end.
LEMMA OthersKeepLocks ==
    ASSUME LocalInv, NEW p \in Requests, NEW q \in Requests \ {p}, NEW c \in Closings, cLock[c] = q,
           Start(p) \/ TransactionStep(p) \/ Rollback(p)
    PROVE  cLock'[c] = q
<1> USE CashPickupAssumption DEF LocalInv, TypeOK
<1>1. ASSUME EndOfTransaction(p) PROVE cLock'[c] = q
  BY <1>1 DEF EndOfTransaction, Released
<1>2. CASE Start(p)
  BY <1>2 DEF Start, StartOnClosing, StartPick, locks
<1>3. CASE LockClosing(p)
  BY <1>1, <1>3 DEF LockClosing, Rollback
<1>4. CASE LoadClosing(p) \/ CheckPending(p) \/ ReadClosing(p)
  BY <1>1, <1>4 DEF LoadClosing, CheckPending, ReadClosing, Rollback, locks
<1>5. CASE LockBook(p) \/ ReadPending(p) \/ CancelPending(p) \/ CompareClosing(p) \/ ListPending(p)
  BY <1>5 DEF LockBook, ReadPending, CancelPending, CompareClosing, ListPending, locks
<1>6. CASE WriteOffer(p)
  BY <1>6 DEF WriteOffer
<1>7. CASE SaveClosing(p) \/ UpdateClosing(p)
  BY <1>7 DEF SaveClosing, UpdateClosing, FreeOrMine
<1>8. CASE Allocate(p) \/ LockPending(p) \/ DiffClosing(p) \/ MarkPicked(p)
  BY <1>8 DEF Allocate, LockPending, DiffClosing, MarkPicked, locks
<1>9. CASE Commit(p) \/ Rollback(p)
  BY <1>1, <1>9 DEF Commit, Rollback
<1> QED BY <1>2, <1>3, <1>4, <1>5, <1>6, <1>7, <1>8, <1>9 DEF TransactionStep

-----------------------------------------------------------------------------
(* Saving a closing that was loaded without a lock                           *)

\* A request runs one operation from its start to its end.
LEMMA KeepsOp ==
    ASSUME LocalInv, NEW p \in Requests, TransactionStep(p)
    PROVE  AtWork(p) /\ (AtWork(p)' => req'[p].op = req[p].op)
<1> USE DEF LocalInv, TypeOK, Locals, AtWork
<1>0. ASSUME EndOfTransaction(p) PROVE ~AtWork(p)'
  BY <1>0 DEF EndOfTransaction
<1>1. CASE LockClosing(p)
  BY <1>0, <1>1 DEF LockClosing, Rollback
<1>2. CASE LoadClosing(p)
  BY <1>0, <1>2 DEF LoadClosing, Rollback
<1>3. CASE LockBook(p) \/ CompareClosing(p) \/ SaveClosing(p)
  BY <1>3 DEF LockBook, CompareClosing, SaveClosing
<1>4. CASE ReadPending(p)
  <2> DEFINE taken == RowsOf(req[p].c, {"PICKED"})
  <2>1. PICK rows : req' = [req EXCEPT ![p].rows = rows, ![p].picked = (taken # {})]
    BY <1>4, ZenonT(60) DEF ReadPending
  <2>2. req'[p].op = req[p].op
    BY <2>1
  <2>3. pc[p] = "readPending"
    BY <1>4 DEF ReadPending
  <2> QED BY <2>2, <2>3
<1>5. CASE WriteOffer(p)
  <2> DEFINE entity == [req[p].entity EXCEPT !.pickup = PickupAfter(p)]
  <2>1. pc[p] = "writePending" /\ req' = [req EXCEPT ![p].entity = entity]
    BY <1>5 DEF WriteOffer
  <2> HIDE DEF entity
  <2>2. req'[p].op = req[p].op
    BY <2>1
  <2> QED BY <2>1, <2>2
<1>6. CASE CancelPending(p)
  <2>1. pc[p] = "writePending"
    BY <1>6 DEF CancelPending
  <2>2. req' = req \/ \E x : req' = [req EXCEPT ![p].rows = req[p].rows \ {x}]
    BY <1>6 DEF CancelPending
  <2>3. req'[p].op = req[p].op
    BY <2>2
  <2> QED BY <2>1, <2>3
<1>7. CASE ListPending(p) \/ LockPending(p)
  BY <1>7 DEF ListPending, LockPending
<1>8. CASE Allocate(p)
  BY <1>8 DEF Allocate, Goto
<1>9. CASE CheckPending(p)
  BY <1>0, <1>9 DEF CheckPending, Rollback
<1>12. CASE ReadClosing(p)
  <2>1. CASE Rollback(p)
    BY <1>0, <1>12, <2>1 DEF ReadClosing, Rollback
  <2>2. CASE ~Rollback(p)
    <3>1. pc[p] = "readClosing"
      BY <1>12 DEF ReadClosing
    <3>2. PICK x \in req[p].rows :
            LET d   == pending[x].closing
                row == Seen(wClosing[p], closing, d)
            IN  /\ req' = [req EXCEPT ![p] = [req[p] EXCEPT !.cur = x, !.c = d, !.entity = row,
                                                            !.rows = req[p].rows \ {x}]]
                /\ pc' = [pc EXCEPT ![p] = "diffClosing"]
                /\ UNCHANGED <<tables, expense, clock, locks, buffers, view>>
      BY <1>12, <2>2 DEF ReadClosing, Goto
    <3>3. req'[p].op = req[p].op
      BY <3>2
    <3> QED BY <3>1, <3>3
  <2> QED BY <2>1, <2>2
<1>10. CASE DiffClosing(p) \/ UpdateClosing(p) \/ MarkPicked(p)
  BY <1>10 DEF DiffClosing, UpdateClosing, MarkPicked
<1>11. CASE Commit(p)
  BY <1>0, <1>11 DEF Commit
<1> QED BY <1>1, <1>2, <1>3, <1>4, <1>5, <1>6, <1>7, <1>8, <1>9, <1>10, <1>11, <1>12
     DEF TransactionStep

\* Only a request at work is rolled back.
LEMMA VictimAtWork ==
    ASSUME NEW p \in Requests, DeadlockVictim(p) \/ Die(p) PROVE AtWork(p)
<1>1. CASE Die(p)
  BY <1>1 DEF Die, Outside, AtWork
<1>2. CASE DeadlockVictim(p)
  <2>1. PICK q : WaitsFor(p, q)
    BY <1>2 DEF DeadlockVictim, Deadlocked
  <2> QED BY <2>1 DEF WaitsFor, WantsPending, AtWork
<1> QED BY <1>1, <1>2

\* No step makes an operation that works alone meet another.
LEMMA StaysSolitary ==
    ASSUME LocalInv, \A p \in Requests : SolitaryOf(p), [Next]_vars
    PROVE  \A p \in Requests : SolitaryOf(p)'
<1>1. CASE Environment \/ UNCHANGED vars
  <2>1. UNCHANGED <<pc, req>>
    BY <1>1 DEF Environment, CreateClosing, RecordExpense, VoidExpense, vars
  <2> QED BY <2>1 DEF SolitaryOf, AtWork
<1>2. ASSUME NEW p \in Requests, TransactionStep(p) PROVE \A q \in Requests : SolitaryOf(q)'
  <2>1. AtWork(p) /\ (AtWork(p)' => req'[p].op = req[p].op)
    BY <1>2, KeepsOp
  <2>2. \A q \in Requests \ {p} : req'[q] = req[q] /\ AtWork(q)' = AtWork(q)
    BY <1>2, StepLeaves DEF Leaves, AtWork
  <2> HIDE DEF AtWork
  <2> QED BY <2>1, <2>2 DEF SolitaryOf
<1>3. ASSUME NEW p \in Requests, DeadlockVictim(p) \/ Die(p) PROVE \A q \in Requests : SolitaryOf(q)'
  <2>1. EndOfTransaction(p)
    BY <1>3 DEF DeadlockVictim, Die, Rollback
  <2>2. ~AtWork(p)' /\ \A q \in Requests \ {p} : req'[q] = req[q] /\ AtWork(q)' = AtWork(q)
    BY <2>1, EndLeaves DEF Leaves, AtWork, EndOfTransaction, LocalInv, TypeOK
  <2> HIDE DEF AtWork
  <2> QED BY <2>2 DEF SolitaryOf
<1>4. ASSUME NEW p \in Requests, Start(p) PROVE \A q \in Requests : SolitaryOf(q)'
  <2>1. PICK op \in Ops : MayStart(p, op) /\ req'[p].op = op /\ ~AtWork(p)
    <3>1. ASSUME NEW c \in Closings, NEW op \in AllOps, StartOnClosing(p, c, op)
          PROVE  op \in Ops /\ MayStart(p, op) /\ req'[p].op = op /\ ~AtWork(p)
      BY <3>1 DEF StartOnClosing, AtWork, LocalInv, TypeOK, Locals
    <3>2. ASSUME NEW ids \in SUBSET PendingIds, NEW who \in People, StartPick(p, ids, who)
          PROVE  "pick" \in Ops /\ MayStart(p, "pick") /\ req'[p].op = "pick" /\ ~AtWork(p)
      BY <3>2 DEF StartPick, AtWork, LocalInv, TypeOK, Locals
    <3> QED BY <1>4, <3>1, <3>2 DEF Start
  <2>2. \A q \in Requests \ {p} : req'[q] = req[q] /\ AtWork(q)' = AtWork(q)
    BY <1>4, StepLeaves DEF Leaves, AtWork
  <2> HIDE DEF AtWork
  <2>3. \A q \in Requests \ {p} : SolitaryOf(q)'
    BY <2>1, <2>2 DEF SolitaryOf, MayStart
  <2>4. SolitaryOf(p)'
    BY <2>1, <2>2 DEF SolitaryOf, MayStart
  <2> QED BY <2>3, <2>4
<1> QED BY <1>1, <1>2, <1>3, <1>4 DEF Next

\* While somebody saves a closing that he loaded without a lock, nobody else moves.
LEMMA NobodyElse ==
    ASSUME SavesAlone, LocalInv, NEW q \in Requests, SolitaryOf(q), ResaveOf(q),
           NEW p \in Requests \ {q}
    PROVE  ~AtWork(p) /\ ~Start(p)
<1>1. AtWork(q) /\ req[q].op \in Alone
  <2>1. AtWork(q)
    BY DEF ResaveOf, ResaveSteps, AtWork
  <2> QED BY <2>1 DEF SolitaryOf, ResaveOf, SavesAlone
<1>2. ~AtWork(p)
  BY <1>1 DEF SolitaryOf
<1>3. ~Start(p)
  BY <1>1 DEF Start, StartOnClosing, StartPick, MayStart
<1> QED BY <1>2, <1>3

\* What differs in no column that matters is written as it was.
LEMMA SameColumns ==
    ASSUME NEW now, NEW new, Same(new, now), NEW D
    PROVE  Same(WithColumns(now, new, D), now)
BY DEF Same, WithColumns

\* It leaves the offer as it is, and publishes a closing that says the same.
LEMMA ResaveCommit ==
    ASSUME IInv, NEW p \in Requests, ResaveOf(p), Commit(p)
    PROVE  /\ pending' = pending
           /\ \A c \in Closings : Same(closing'[c], closing[c])
<1>1. pending' = [x \in PendingIds |-> pending[x]]
  BY DEF Commit, ResaveOf, Seen
<1>2. \A c \in Closings : closing'[c] = Seen(wClosing[p], closing, c)
  BY DEF Commit
<1> QED BY <1>1, <1>2 DEF Seen, ResaveOf, Same, IInv, LocalInv, TypeOK

\* A closing that says the same keeps its offer.
LEMMA SameOffers ==
    ASSUME OfferFollowsClosing, CashCounted, pending' = pending,
           \A c \in Closings : Same(closing'[c], closing[c])
    PROVE  OfferFollowsClosing' /\ CashCounted'
<1>1. \A c \in Closings : /\ RowsOf(c, {"PENDING"})' = RowsOf(c, {"PENDING"})
                           /\ RowsOf(c, {"PICKED"})' = RowsOf(c, {"PICKED"})
                           /\ Take(closing'[c]) = Take(closing[c])
  BY DEF RowsOf, Take, Same
<1> QED BY <1>1 DEF OfferFollowsClosing, CashCounted, Same

\* Each step of such a save finds the offer right, and leaves it and the closing as they are.
LEMMA ResaveStep ==
    ASSUME IInv, OfferFollowsClosing, CashCounted, NEW p \in Requests, ResaveOf(p),
           TransactionStep(p)
    PROVE  (EndOfTransaction(p) /\ Follows(p)') \/ ResaveOf(p)'
<1> USE DEF IInv
<1>0. PICK c \in Closings : c = req[p].c
  BY LocalsOf
<1>1. /\ pc[p] \in ResaveSteps /\ req[p].op \in StaleOps /\ req[p] \in Locals
      /\ \A x \in PendingIds : wPending[p][x] = NoRow
      /\ \A d \in Closings : wClosing[p][d] # NoRow =>
            pc[p] # "loadClosing" /\ d = c /\ Same(wClosing[p][d], closing[d])
      /\ pc[p] # "loadClosing" => closing[c].state = "live" /\ Same(req[p].entity, closing[c])
  BY <1>0, LocalsOf DEF ResaveOf
<1>2. CASE EndOfTransaction(p)
  BY <1>2, EndFollows
<1>3. CASE LoadClosing(p)
  <2>1. CASE closing[c].state # "live"
    BY <1>0, <1>2, <1>3, <2>1 DEF LoadClosing, Rollback
  <2>2. CASE closing[c].state = "live"
    <3>1. /\ pc[p] = "loadClosing" /\ pc'[p] \in {"compareClosing", "lockBook"}
          /\ req' = [req EXCEPT ![p] = [req[p] EXCEPT !.entity = closing[c]]]
          /\ UNCHANGED <<closing, pending, wClosing, wPending>>
      BY <1>0, <1>3, <2>2 DEF LoadClosing, Goto, tables, buffers, LocalInv, TypeOK
    <3>2. req'[p].entity = closing[c] /\ req'[p].c = c /\ req'[p].op = req[p].op
      BY <1>0, <1>1, <3>1 DEF LocalInv, TypeOK, Locals
    <3>3. /\ pc'[p] \in ResaveSteps /\ pc'[p] # "writePending"
          /\ \A d \in Closings : wClosing'[p][d] = NoRow
      BY <1>1, <3>1 DEF ResaveSteps
    <3> QED BY <1>1, <2>2, <3>1, <3>2, <3>3 DEF ResaveOf, Same
  <2> QED BY <2>1, <2>2
<1>4. CASE LockBook(p)
  <2>1. /\ pc[p] = "lockBook" /\ pc'[p] = "readPending"
        /\ UNCHANGED <<closing, pending, wClosing, wPending, req>>
    BY <1>4 DEF LockBook, Goto, tables, LocalInv, TypeOK
  <2> QED BY <1>0, <1>1, <2>1 DEF ResaveOf, ResaveSteps
<1>5. CASE ReadPending(p)
  <2> DEFINE offers == RowsOf(c, {"PENDING"})
             taken  == RowsOf(c, {"PICKED"})
  <2>1. PICK rows : /\ rows \subseteq offers
                    /\ IF offers = {} THEN rows = {} ELSE \E x \in offers : rows = {x}
                    /\ req' = [req EXCEPT ![p] = [req[p] EXCEPT !.rows = rows, !.picked = (taken # {})]]
    <3>1. req[p].op # "remove"
      BY <1>1 DEF StaleOps
    <3>2. PICK rows : /\ IF req[p].op = "remove" THEN rows = offers \cup taken
                           ELSE /\ rows \subseteq offers
                                /\ IF offers = {} THEN rows = {} ELSE \E x \in offers : rows = {x}
                      /\ req' = [req EXCEPT ![p] = [req[p] EXCEPT !.rows = rows, !.picked = (taken # {})]]
      BY <1>0, <1>5, ZenonT(60) DEF ReadPending
    <3> QED BY <3>1, <3>2, Zenon
  <2>2. rows = offers
    <3>1. \A x, y \in offers : x = y
      BY DEF CashOfferedOnce, RowsOf, Active
    <3> QED BY <2>1, <3>1
  <2>3. /\ pc[p] = "readPending" /\ pc'[p] = "writePending"
        /\ UNCHANGED <<closing, pending, wClosing, wPending>>
    BY <1>5 DEF ReadPending, Goto, tables, buffers, LocalInv, TypeOK
  <2>4. req'[p] = [req[p] EXCEPT !.rows = rows, !.picked = (taken # {})]
    BY <2>1, Zenon DEF LocalInv, TypeOK
  <2>5. /\ req'[p].rows = rows /\ req'[p].c = c /\ req'[p].op = req[p].op
        /\ req'[p].entity = req[p].entity
    BY <1>0, <1>1, <2>4 DEF Locals
  <2>6. req'[p].picked = (taken # {})
    BY <1>1, <2>4, Zenon DEF Locals
  <2>7. RowsOf(c, {"PENDING"})' = offers /\ RowsOf(c, {"PICKED"})' = taken
    BY <2>3 DEF RowsOf
  <2> HIDE DEF offers, taken
  <2> QED BY <1>1, <2>2, <2>3, <2>5, <2>6, <2>7 DEF ResaveOf, ResaveSteps
<1>6. CASE WriteOffer(p)
  <2> DEFINE entity == [req[p].entity EXCEPT !.pickup = PickupAfter(p)]
             offers == RowsOf(c, {"PENDING"})
  <2>1. /\ pc[p] = "writePending" /\ req[p].op = "resync"
        /\ closing[c].state = "live" /\ Same(req[p].entity, closing[c])
        /\ req[p].rows = offers /\ req[p].picked = (RowsOf(c, {"PICKED"}) # {})
    BY <1>0, <1>1, <1>6 DEF WriteOffer, StaleOps, ResaveOf
  <2>2. Take(req[p].entity) = Take(closing[c]) /\ Take(closing[c]) # 0
    BY <2>1 DEF Take, Same, CashCounted, LocalInv, TypeOK, ClosingRow
  <2>3. NothingToOffer(p) <=> (RowsOf(c, {"PICKED"}) # {} \/ closing[c].who # NoOne)
    BY <2>1, <2>2, Zenon DEF NothingToOffer, Same
  <2>4. NothingToOffer(p) <=> offers = {}
    BY <2>1, <2>3 DEF OfferFollowsClosing
  <2>5. \A x \in offers : pending[x].amount = Take(req[p].entity)
    BY <2>2 DEF OfferFollowsClosing
  <2>6. wPending' = wPending
    <3>1. \/ NothingToOffer(p) /\ req[p].rows # {}
          \/ \E x \in req[p].rows : pending[x].amount # Take(req[p].entity)
          \/ ~NothingToOffer(p) /\ req[p].rows = {}
          \/ wPending' = wPending
      BY <1>6 DEF WriteOffer
    <3> QED BY <2>1, <2>4, <2>5, <3>1
  <2>7. /\ req' = [req EXCEPT ![p] = [req[p] EXCEPT !.entity = entity]]
        /\ UNCHANGED <<closing, pending, wClosing>> /\ pc'[p] \in {"compareClosing", "commit"}
    BY <1>6, <2>1 DEF WriteOffer, Goto, tables, LocalInv, TypeOK
  <2>8. Same(entity, req[p].entity)
    BY LocalsOf DEF Same, ClosingRow
  <2> HIDE DEF entity, offers
  <2>9. req'[p].entity = entity /\ req'[p].c = c /\ req'[p].op = req[p].op
    BY <1>0, <1>1, <2>7 DEF LocalInv, TypeOK, Locals
  <2>10. Same(entity, closing[c])
    BY <2>1, <2>8 DEF Same
  <2>11. pc'[p] \in ResaveSteps /\ pc'[p] # "writePending"
    BY <2>7 DEF ResaveSteps
  <2> QED BY <1>1, <2>1, <2>6, <2>7, <2>9, <2>10, <2>11 DEF ResaveOf
<1>7. CASE CompareClosing(p)
  <2>1. /\ pc[p] = "compareClosing" /\ pc'[p] = "saveClosing"
        /\ req' = [req EXCEPT ![p] = [req[p] EXCEPT !.dirty = Changed(req[p].entity, closing[req[p].c])]]
        /\ UNCHANGED <<closing, pending, wClosing, wPending>>
    BY <1>7 DEF CompareClosing, Goto, tables, buffers, LocalInv, TypeOK
  <2>2. req'[p].entity = req[p].entity /\ req'[p].c = c /\ req'[p].op = req[p].op
    BY <1>0, <1>1, <2>1 DEF LocalInv, TypeOK, Locals
  <2> QED BY <1>1, <2>1, <2>2 DEF ResaveOf, ResaveSteps
<1>8. CASE SaveClosing(p)
  <2> DEFINE row == WithColumns(closing[c], req[p].entity, req[p].dirty)
  <2>1. /\ pc[p] = "saveClosing" /\ pc'[p] = "commit" /\ UNCHANGED <<closing, pending, wPending, req>>
        /\ wClosing' = [wClosing EXCEPT ![p] = [wClosing[p] EXCEPT ![c] = row]]
    BY <1>0, <1>8 DEF SaveClosing, Goto, tables, LocalInv, TypeOK
  <2>2. Same(row, closing[c])
    BY <1>1, <2>1, SameColumns
  <2> HIDE DEF row
  <2>3. wClosing'[p][c] = row /\ \A d \in Closings \ {c} : wClosing'[p][d] = wClosing[p][d]
    BY <2>1 DEF LocalInv, TypeOK
  <2> QED BY <1>0, <1>1, <2>1, <2>2, <2>3 DEF ResaveOf, ResaveSteps
<1>9. CASE Commit(p)
  BY <1>2, <1>9 DEF Commit
<1>10. ~LockClosing(p) /\ ~CancelPending(p) /\ ~UpdateClosing(p) /\ ~MarkPicked(p)
  BY <1>1 DEF LockClosing, CancelPending, UpdateClosing, MarkPicked, ResaveSteps, StaleOps
<1>11. ~ListPending(p) /\ ~Allocate(p) /\ ~LockPending(p) /\ ~CheckPending(p) /\ ~ReadClosing(p) /\ ~DiffClosing(p)
  BY <1>1 DEF ListPending, Allocate, LockPending, CheckPending, ReadClosing, DiffClosing, ResaveSteps
<1> QED BY <1>3, <1>4, <1>5, <1>6, <1>7, <1>8, <1>9, <1>10, <1>11 DEF TransactionStep

\* Nobody else's closing changes, and a new one is none that is being saved.
LEMMA ResaveKept ==
    ASSUME IInv, NEW q \in Requests, ResaveOf(q), Leaves(q),
           \A c \in Closings : closing[c].state # "absent" => closing'[c] = closing[c],
           \A x \in PendingIds :
              \/ pending'[x] = pending[x]
              \/ /\ pending[x].state = "absent" /\ pending'[x].closing \in Closings
                 /\ closing[pending'[x].closing].state = "absent"
    PROVE  ResaveOf(q)'
<1> DEFINE c == req[q].c
<1>1. c \in Closings
  BY LocalsOf DEF IInv
<1>2. pc'[q] = pc[q] /\ req'[q] = req[q] /\ wPending'[q] = wPending[q] /\ wClosing'[q] = wClosing[q]
  BY DEF Leaves
<1>3. pc[q] # "loadClosing" =>
         /\ closing'[c] = closing[c]
         /\ RowsOf(c, {"PENDING"})' = RowsOf(c, {"PENDING"})
         /\ RowsOf(c, {"PICKED"})' = RowsOf(c, {"PICKED"})
  <2> SUFFICES ASSUME pc[q] # "loadClosing"
               PROVE  /\ closing'[c] = closing[c]
                      /\ RowsOf(c, {"PENDING"})' = RowsOf(c, {"PENDING"})
                      /\ RowsOf(c, {"PICKED"})' = RowsOf(c, {"PICKED"})
    OBVIOUS
  <2>1. closing[c].state = "live"
    BY DEF ResaveOf
  <2>2. PICK d \in Closings : d = c /\ closing[d].state = "live" /\ c' = d
    BY <1>1, <1>2, <2>1
  <2> HIDE DEF c
  <2> QED BY <2>2 DEF RowsOf
<1> QED BY <1>1, <1>2, <1>3 DEF ResaveOf

\* Every step keeps the offers, and what the requests rely on.
LEMMA NextOffers ==
    ASSUME SavesAlone, OfferInv, [Next]_vars PROVE OfferInv'
<1> USE DEF OfferInv
<1>1. IInv' /\ \A p \in Requests : SolitaryOf(p)'
  BY NextSafe, StaysSolitary DEF IInv
<1>2. CASE Environment
  <2>1. UNCHANGED <<cLock, pLock, bLock, wClosing, wPending, wBook, wOffset, pc, req>>
    BY ZenonT(40), <1>2 DEF Environment, CreateClosing, RecordExpense, VoidExpense, locks, buffers
  <2>2. \A q \in Requests : Leaves(q)
    BY <2>1 DEF Leaves
  <2>3. CASE UNCHANGED <<closing, pending>>
    <3>1. \A q \in Requests : Frozen(q)
      BY <2>1, <2>3 DEF Frozen
    <3> QED BY <1>1, <2>2, <2>3, <3>1, UnchangedOffers, FollowsKept, ResaveKept
  <2>4. ASSUME NEW c \in Closings, NEW fig \in Figures, NEW who \in People \cup {NoOne},
               CreateClosing(c, fig, who)
        PROVE  OfferInv'
    <3>1. OfferFollowsClosing' /\ CashCounted' /\ \A q \in Requests : Frozen(q)
      BY <2>4, CreateClosingOffers
    <3>2. \A d \in Closings : closing[d].state # "absent" => closing'[d] = closing[d]
      BY <2>4 DEF CreateClosing, IInv, LocalInv, TypeOK
    <3>3. closing[c].state = "absent" /\ \A x \in PendingIds :
             pending'[x] = pending[x] \/ (pending[x].state = "absent" /\ pending'[x].closing = c)
      BY <2>4 DEF CreateClosing, FreeIds, NewPending, IInv, LocalInv, TypeOK
    <3> QED BY <1>1, <2>2, <3>1, <3>2, <3>3, FollowsKept, ResaveKept
  <2> QED BY <1>2, <2>3, <2>4 DEF Environment, RecordExpense, VoidExpense, tables
<1>3. CASE UNCHANGED vars
  <2>1. \A q \in Requests : Leaves(q) /\ Frozen(q)
    BY <1>3 DEF vars, tables, locks, buffers, Leaves, Frozen
  <2>2. OfferFollowsClosing' /\ CashCounted' /\ UNCHANGED <<closing, pending>>
    BY <1>3, UnchangedOffers DEF vars, tables
  <2> QED BY <1>1, <2>1, <2>2, FollowsKept, ResaveKept
<1>4. ASSUME NEW p \in Requests, ResaveOf(p), TransactionStep(p) \/ DeadlockVictim(p) \/ Die(p)
      PROVE  OfferInv'
  <2>1. Follows(p)' \/ ResaveOf(p)'
    BY <1>4, ResaveStep, EndFollows DEF DeadlockVictim, Die, Rollback, IInv
  <2>2. ASSUME NEW q \in Requests \ {p} PROVE Follows(q)'
    <3>1. ~AtWork(q)
      BY <1>4, NobodyElse DEF IInv
    <3>2. Follows(q) /\ pc[q] \in {"idle", "done"}
      BY <3>1 DEF AtWork, ResaveOf, ResaveSteps
    <3>3. Leaves(q)
      BY <1>4, StepLeaves, EndLeaves DEF DeadlockVictim, Die, Rollback, IInv
    <3> QED BY <3>2, <3>3, NothingYetFollows DEF Leaves, Early, Outside, Follows, HoldsOf
  <2>3. OfferFollowsClosing' /\ CashCounted'
    <3>1. CASE Commit(p)
      BY <1>4, <3>1, ResaveCommit, SameOffers
    <3>2. CASE ~Commit(p)
      BY <1>4, <3>2, NoOrphans, RequestUnchanged, UnchangedOffers DEF DeadlockVictim, Die, Rollback, tables
    <3> QED BY <3>1, <3>2
  <2> QED BY <1>1, <2>1, <2>2, <2>3
<1>5. ASSUME NEW p \in Requests, Follows(p), \A q \in Requests \ {p} : Follows(q),
             Start(p) \/ TransactionStep(p)
      PROVE  OfferInv'
  <2>1. \A q \in Requests \ {p} : Leaves(q)
    BY <1>5, StepLeaves DEF IInv
  <2>2. Follows(p)' \/ ResaveOf(p)'
    BY <1>5, StartFollows, StepFollows DEF IInv
  <2>3. CASE Commit(p)
    BY <1>1, <1>5, <2>1, <2>2, <2>3, CommitFrozen, CommitOffers, FollowsKept
  <2>4. CASE ~Commit(p)
    <3>1. UNCHANGED <<closing, pending>>
      BY <1>5, <2>4, NoOrphans, RequestUnchanged
    <3>2. \A q \in Requests \ {p} : Frozen(q)
      BY <1>5, <3>1, OthersKeepLocks DEF Frozen, IInv
    <3> QED BY <1>1, <1>5, <2>1, <2>2, <3>1, <3>2, UnchangedOffers, FollowsKept
  <2> QED BY <2>3, <2>4
<1>6. ASSUME NEW p \in Requests, Follows(p), \A q \in Requests \ {p} : Follows(q),
             DeadlockVictim(p) \/ Die(p)
      PROVE  OfferInv'
  <2>1. EndOfTransaction(p) /\ UNCHANGED <<closing, pending>> /\ Rollback(p)
    BY <1>6 DEF DeadlockVictim, Die, Rollback, tables
  <2>2. \A q \in Requests \ {p} : Leaves(q)
    BY <2>1, EndLeaves DEF IInv
  <2>3. \A q \in Requests \ {p} : Frozen(q)
    BY <2>1, OthersKeepLocks DEF Frozen, IInv
  <2>4. Follows(p)'
    BY <2>1, EndFollows DEF IInv
  <2> QED BY <1>1, <1>6, <2>1, <2>2, <2>3, <2>4, UnchangedOffers, FollowsKept
<1>7. ASSUME NEW p \in Requests, Start(p) \/ TransactionStep(p) \/ DeadlockVictim(p) \/ Die(p)
      PROVE  OfferInv'
  <2>1. CASE ResaveOf(p)
    <3>1. ~Start(p)
      BY <2>1 DEF ResaveOf, ResaveSteps, Start, StartOnClosing, StartPick
    <3> QED BY <1>4, <1>7, <2>1, <3>1
  <2>2. CASE ~ResaveOf(p)
    <3>1. \A q \in Requests \ {p} : Follows(q)
      BY <1>7, KeepsOp, VictimAtWork, NobodyElse DEF IInv
    <3> QED BY <1>5, <1>6, <1>7, <2>2, <3>1
  <2> QED BY <2>1, <2>2
<1> QED BY <1>2, <1>3, <1>7 DEF Next

\* The offers are right at the start.
LEMMA InitOffers == Init => OfferInv
<1> SUFFICES ASSUME Init PROVE OfferInv
  OBVIOUS
<1>1. IInv
  BY InitSafe
<1>2. OfferFollowsClosing /\ CashCounted
  BY DEF Init, OfferFollowsClosing, CashCounted, RowsOf, AbsentClosing
<1>3. \A p \in Requests : SolitaryOf(p) /\ Follows(p)
  BY DEF Init, NoWrites, NoLocals, StaleOps, SolitaryOf, AtWork,
         Follows, HoldsOf, SaveOf, UpdateOf, RemoveOf, PickOf, Saving, Marking
<1> QED BY <1>1, <1>2, <1>3 DEF OfferInv

\* As long as whoever saves a closing he loaded without a lock (a resynchronisation, an
\* unlock) overlaps with nobody, the cash of a live closing that nobody has is on offer for
\* what the closing says, and nothing else is: edits and removals lock the closing before
\* they read its offer, and a pickup writes the closing of every row that it marks.
THEOREM OfferIsRight ==
    ASSUME SavesAlone PROVE Spec => []OfferFollowsClosing
<1>1. OfferInv /\ [Next]_vars => OfferInv'
  BY NextOffers
<1>2. OfferInv => OfferFollowsClosing
  BY DEF OfferInv
<1> QED BY <1>1, <1>2, InitOffers, PTL DEF Spec

-----------------------------------------------------------------------------
(* The ledger follows the closing                                            *)

Agrees(entries, row) == \A f \in {"income", "out", "to"} : entries[f] = Plan(row)[f]

\* Nothing was taken from a closing that names nobody.
NothingTaken(row) == row.who = NoOne => row.withdrawn = 0

\* The entries that a request writes are those of the closing that it writes.
LedgerOf(p) ==
    /\ \A c \in Closings : /\ wBook[p][c] # NoRow => wClosing[p][c] # NoRow
                           /\ wClosing[p][c] # NoRow => NothingTaken(wClosing[p][c])
    /\ Saving(p) /\ req[p].op = "update" /\ pc[p] # "lockBook" =>
          wBook[p][req[p].c] # NoRow /\ Agrees(wBook[p][req[p].c], wClosing[p][req[p].c])
    /\ req[p].op = "pick" =>
          /\ \A c \in Closings : wClosing[p][c] # NoRow /\ ~(pc[p] = "lockBook" /\ c = req[p].c) =>
                wBook[p][c] # NoRow /\ Agrees(wBook[p][c], wClosing[p][c])
          /\ \A x \in PendingIds : wPending[p][x] # NoRow =>
                /\ wBook[p][pending[x].closing] # NoRow
                /\ wBook[p][pending[x].closing].out = wPending[p][x].amount
          /\ pc[p] # "done" => req[p].who # NoOne

\* A pickup takes something of a closing as it was counted, and writes it down.
TakingOf(p) ==
    LET entity == req[p].entity  written == wClosing[p][req[p].c]  take == view[p].take[req[p].cur] IN
    /\ Picking(p) => \A x \in req[p].ids : view[p].take[x] > 0
    /\ pc[p] \in {"diffClosing", "updateClosing"} => entity.counted = pending[req[p].cur].amount
    /\ pc[p] = "diffClosing" => entity.withdrawn = 0
    /\ pc[p] = "updateClosing" => /\ entity.withdrawn = take /\ entity.who = req[p].who
                                  /\ "withdrawn" \in req[p].dirty /\ "who" \in req[p].dirty
    /\ pc[p] = "lockBook" /\ req[p].op = "pick" =>
          /\ entity.withdrawn = take /\ entity.who = req[p].who /\ written # NoRow
          /\ written.counted = entity.counted /\ written.withdrawn = entity.withdrawn /\ written.who = entity.who

\* Who saves a closing that he loaded without a lock writes the entries it has.
ResaveBook(p) ==
    \A c \in Closings : wBook[p][c] # NoRow =>
        pc[p] # "loadClosing" /\ c = req[p].c /\ Agrees(wBook[p][c], closing[c])

Books(p) == LedgerOf(p) /\ TakingOf(p)

LedgerInv ==
    /\ OfferInv /\ BookMatchesClosing
    /\ \A c \in Closings : closing[c].state # "absent" => NothingTaken(closing[c])
    /\ \A p \in Requests : IF req[p].op \in StaleOps THEN ResaveBook(p) ELSE Books(p)

\* A request that saves no closing it loaded without a lock.
Ordinary(p) == Follows(p) /\ LedgerOf(p) /\ TakingOf(p)

\* The step leaves alone what q is going to write of the ledger, and what it takes.
Spares(q) == Leaves(q) /\ wBook'[q] = wBook[q] /\ view'[q] = view[q]

\* What a request knows of the ledger stays true while others leave it and its rows alone.
LEMMA LedgerKept ==
    ASSUME OfferInv, NEW q \in Requests, Ordinary(q), Spares(q), Frozen(q), Harmless(q)
    PROVE  LedgerOf(q)' /\ TakingOf(q)'
<1> USE DEF OfferInv, Ordinary
<1>1. req[q].cur \in PendingIds /\ \A x \in PendingIds : pending[x].closing \in Closings
  BY LocalsOf DEF IInv
<1>2. \A x \in PendingIds : wPending[q][x] # NoRow => pending'[x] = pending[x]
  BY <1>1 DEF Follows, HoldsOf, Frozen
<1>3. pc[q] \in {"diffClosing", "updateClosing"} => pending'[req[q].cur] = pending[req[q].cur]
  <2> SUFFICES ASSUME pc[q] \in {"diffClosing", "updateClosing"}
               PROVE  pending'[req[q].cur] = pending[req[q].cur]
    OBVIOUS
  <2>1. Marking(q) /\ Checked(q)
    BY DEF Marking, Checked
  <2>2. pLock[req[q].cur] = q /\ pending[req[q].cur].state = "PENDING"
    BY <2>1 DEF IInv, LocalInv, ViewOK, Knows, LocksOf
  <2> QED BY <1>1, <2>2 DEF Harmless
<1>4. /\ pc'[q] = pc[q] /\ req'[q] = req[q] /\ view'[q] = view[q]
      /\ wPending'[q] = wPending[q] /\ wClosing'[q] = wClosing[q] /\ wBook'[q] = wBook[q]
  BY DEF Spares, Leaves
<1>5. LedgerOf(q)'
  BY <1>1, <1>2, <1>4 DEF LedgerOf, Saving
<1>6. TakingOf(q)'
  BY <1>1, <1>3, <1>4 DEF TakingOf, Picking
<1> QED BY <1>5, <1>6

\* A request that has ended writes nothing in the ledger.
LEMMA EndLedger ==
    ASSUME LocalInv, NEW p \in Requests, EndOfTransaction(p) PROVE LedgerOf(p)' /\ TakingOf(p)'
<1>1. /\ pc'[p] = "done" /\ req'[p] = NoLocals
      /\ \A x \in PendingIds : wPending'[p][x] = NoRow
      /\ \A c \in Closings : wClosing'[p][c] = NoRow /\ wBook'[p][c] = NoRow
  BY DEF EndOfTransaction, LocalInv, TypeOK, NoWrites
<1>2. req'[p].op = "update"
  BY <1>1 DEF NoLocals
<1> QED BY <1>1, <1>2 DEF LedgerOf, TakingOf, Saving, Picking

\* Nor does one that has written nothing yet.
LEMMA NothingYetLedger ==
    ASSUME NEW p \in Requests, Ordinary(p), pc[p] \in Early,
           wClosing'[p] = wClosing[p], wPending'[p] = wPending[p], wBook'[p] = wBook[p],
           pc'[p] \in Early \cup {"readClosing"},
           req'[p].op = "pick" /\ pc'[p] # "done" => req'[p].who # NoOne,
           Picking(p)' => \A x \in req'[p].ids : view'[p].take[x] > 0
    PROVE  LedgerOf(p)' /\ TakingOf(p)'
<1>1. /\ \A x \in PendingIds : wPending'[p][x] = NoRow
      /\ \A c \in Closings : wClosing'[p][c] = NoRow /\ wBook'[p][c] = NoRow
  BY DEF Ordinary, Follows, HoldsOf, LedgerOf
<1> QED BY <1>1 DEF LedgerOf, TakingOf, Saving, Early, Outside

\* A request that starts has nothing to write; a pickup names somebody.
LEMMA StartLedger ==
    ASSUME LedgerInv, NEW p \in Requests, Ordinary(p), Start(p)
    PROVE  LedgerOf(p)' /\ TakingOf(p)' /\ ResaveBook(p)'
<1> USE DEF LedgerInv, OfferInv, IInv, Ordinary
<1>0. ASSUME pc[p] = "idle", UNCHANGED <<wClosing, wBook>> PROVE ResaveBook(p)'
  BY <1>0 DEF ResaveBook, LedgerOf, Follows, HoldsOf, Early, Outside
<1>1. ASSUME NEW c \in Closings, NEW op \in AllOps \ {"pick"}, StartOnClosing(p, c, op)
      PROVE  LedgerOf(p)' /\ TakingOf(p)' /\ ResaveBook(p)'
  <2>1. /\ pc' = [pc EXCEPT ![p] = IF op \in {"resync", "unlock"} THEN "loadClosing"
                                    ELSE "lockClosing"]
        /\ req' = [req EXCEPT ![p] = [req[p] EXCEPT !.op = op, !.c = c]]
        /\ pc[p] = "idle" /\ UNCHANGED <<wClosing, wPending, wBook>>
    BY <1>1 DEF StartOnClosing, Goto, buffers
  <2>2. pc'[p] \in {"lockClosing", "loadClosing"} /\ req'[p].op # "pick"
    BY <2>1 DEF LocalInv, TypeOK, Locals
  <2> QED BY <1>0, <2>1, <2>2, NothingYetLedger DEF Early, Outside, Picking
<1>2. ASSUME NEW ids \in SUBSET PendingIds, NEW who \in People, StartPick(p, ids, who)
      PROVE  LedgerOf(p)' /\ TakingOf(p)' /\ ResaveBook(p)'
  <2>1. /\ pc' = [pc EXCEPT ![p] = "listPending"]
        /\ req' = [req EXCEPT ![p] = [req[p] EXCEPT !.op = "pick", !.ids = ids, !.who = who]]
        /\ pc[p] = "idle" /\ UNCHANGED <<wClosing, wPending, wBook>>
    BY <1>2 DEF StartPick, Goto, buffers
  <2>2. pc'[p] = "listPending" /\ req'[p].who = who /\ who # NoOne
    BY <2>1, CashPickupAssumption DEF LocalInv, TypeOK, Locals
  <2> QED BY <1>0, <2>1, <2>2, NothingYetLedger DEF Early, Outside, Picking
<1> QED BY <1>1, <1>2 DEF Start

\* Without explicit withdrawals an edition leaves what was taken.
LEMMA PatchTakes ==
    ASSUME TakesAll, NEW row \in ClosingRow, NothingTaken(row), NEW dto \in Edits
    PROVE  NothingTaken(Patch(row, dto))
<1>1. "withdrawn" \notin DOMAIN dto
  BY DEF TakesAll
<1>2. Patch(row, dto).withdrawn = row.withdrawn
  BY <1>1 DEF Patch, ClosingRow
<1>3. Patch(row, dto).who = NoOne => row.who = NoOne
  BY CashPickupAssumption DEF Patch, ClosingRow
<1> QED BY <1>2, <1>3 DEF NothingTaken

\* The row that LockClosing is going to write took nothing or names somebody.
LEMMA LockClosingLedger ==
    ASSUME LedgerInv, TakesAll, NEW p \in Requests, Ordinary(p), LockClosing(p)
    PROVE  LedgerOf(p)' /\ TakingOf(p)'
<1> USE DEF LedgerInv, OfferInv, IInv, Ordinary
<1> DEFINE c == req[p].c
<1>1. CASE closing[c].state # "live"
  BY <1>1, EndLedger DEF LockClosing, Rollback
<1>2. CASE closing[c].state = "live"
  <2>0. pc[p] = "lockClosing" /\ req[p].op # "pick" /\ c \in Closings /\ closing[c] \in ClosingRow
        /\ NothingTaken(closing[c])
    BY <1>2, LocalsOf DEF LockClosing, LocalInv, TypeOK, OpOK, SaveSteps
  <2>1. PICK row :
          /\ NothingTaken(row)
          /\ wClosing' = [wClosing EXCEPT ![p] = [@ EXCEPT ![c] = row]]
          /\ req' = [req EXCEPT ![p] = [@ EXCEPT !.entity = row]]
          /\ pc' = [pc EXCEPT ![p] = "lockBook"]
          /\ UNCHANGED <<tables, wPending, wBook>>
    <3>1. PICK dto \in Edits :
            LET row == IF req[p].op = "remove" THEN [closing[c] EXCEPT !.state = "removed"]
                                               ELSE Patch(closing[c], dto)
            IN  /\ wClosing' = [wClosing EXCEPT ![p] = [@ EXCEPT ![c] = row]]
                /\ req' = [req EXCEPT ![p] = [@ EXCEPT !.entity = row]]
                /\ pc' = [pc EXCEPT ![p] = "lockBook"]
                /\ UNCHANGED <<tables, wPending, wBook>>
      BY <1>2 DEF LockClosing, Goto
    <3>2. NothingTaken([closing[c] EXCEPT !.state = "removed"])
      BY <2>0 DEF NothingTaken, ClosingRow
    <3>3. NothingTaken(Patch(closing[c], dto))
      BY <2>0, PatchTakes
    <3> QED BY <3>1, <3>2, <3>3
  <2>2. /\ pc'[p] = "lockBook" /\ req'[p].op # "pick" /\ wClosing'[p][c] = row /\ c \in Closings
        /\ \A d \in Closings \ {c} : wClosing'[p][d] = NoRow
        /\ \A d \in Closings : wBook'[p][d] = NoRow
    BY <2>0, <2>1, LocalsOf DEF LocalInv, TypeOK, Locals, Follows, HoldsOf, LedgerOf, Early, Outside
  <2>3. \A d \in Closings : wClosing'[p][d] # NoRow => NothingTaken(wClosing'[p][d])
    <3> HIDE DEF c
    <3> QED BY <2>1, <2>2
  <2> QED BY <2>2, <2>3 DEF LedgerOf, TakingOf, Picking
<1> QED BY <1>1, <1>2

\* LockBook writes the plan of the row that goes with it.
LEMMA LockBookLedger ==
    ASSUME LedgerInv, NEW p \in Requests, Ordinary(p), LockBook(p)
    PROVE  LedgerOf(p)' /\ TakingOf(p)'
<1> USE DEF LedgerInv, OfferInv, IInv, Ordinary
<1>0. PICK c \in Closings : c = req[p].c
  BY LocalsOf
<1>1. /\ pc[p] = "lockBook" /\ pc'[p] = "readPending" /\ req[p].op # "pick" /\ Saving(p)
      /\ UNCHANGED <<pending, wClosing, wPending, req>>
  BY DEF LockBook, Goto, tables, LocalInv, TypeOK, Saving
<1>2. wBook' = [wBook EXCEPT ![p] = [@ EXCEPT ![c] =
                    IF req[p].op = "remove" THEN NoBook ELSE Plan(req[p].entity)]]
  BY <1>0 DEF LockBook
<1>3. /\ wBook'[p][c] = IF req[p].op = "remove" THEN NoBook ELSE Plan(req[p].entity)
      /\ \A d \in Closings \ {c} : wBook'[p][d] = wBook[p][d]
  BY <1>2 DEF LocalInv, TypeOK
<1>4. wClosing[p][c] # NoRow /\ wClosing[p][c] = req[p].entity
  BY <1>0, <1>1 DEF Follows, SaveOf
<1>5. wBook'[p][c] # NoRow
  <2>1. Plan(req[p].entity) \in BookRow /\ NoBook \in BookRow
    BY LocalsOf, PlanType DEF NoBook, BookRow
  <2> QED BY <1>3, <2>1, NoRowAssumption
<1>6. req[p].op = "update" => Agrees(wBook'[p][c], wClosing'[p][c])
  BY <1>1, <1>3, <1>4 DEF Agrees
<1>7. \A d \in Closings : wBook'[p][d] # NoRow => wClosing'[p][d] # NoRow
  BY <1>1, <1>3, <1>4 DEF LedgerOf
<1> QED BY <1>0, <1>1, <1>5, <1>6, <1>7 DEF LedgerOf, TakingOf, Picking

\* What matters to the ledger of a row of a closing.
LEMMA SamePlan ==
    ASSUME NEW a, NEW b, a.counted = b.counted, a.withdrawn = b.withdrawn, a.who = b.who, NEW entries
    PROVE  /\ Agrees(entries, a) <=> Agrees(entries, b)
           /\ NothingTaken(a) <=> NothingTaken(b)
BY DEF Agrees, Plan, Take, NothingTaken

\* Reading and writing the offer leave the ledger of the closing as planned.
LEMMA OfferLedger ==
    ASSUME LedgerInv, NEW p \in Requests, Ordinary(p),
           ReadPending(p) \/ WriteOffer(p) \/ CancelPending(p)
    PROVE  LedgerOf(p)' /\ TakingOf(p)'
<1> USE DEF LedgerInv, OfferInv, IInv, Ordinary
<1>0. PICK c \in Closings : c = req[p].c
  BY LocalsOf
<1>1. req[p].op # "pick" /\ pc[p] \in {"readPending", "writePending"} /\ wBook' = wBook
  BY DEF ReadPending, WriteOffer, CancelPending, LocalInv, OpOK, SaveSteps, buffers
<1>2. Saving(p)
  BY <1>1 DEF Saving
<1>3. ASSUME ReadPending(p) \/ CancelPending(p), req'[p].op = req[p].op, req'[p].c = c
      PROVE  LedgerOf(p)' /\ TakingOf(p)'
  <2>1. wClosing' = wClosing /\ pc'[p] \in {"writePending", "commit"}
    BY <1>3 DEF ReadPending, CancelPending, Goto, buffers, LocalInv, TypeOK
  <2> QED BY <1>0, <1>1, <1>2, <1>3, <2>1 DEF LedgerOf, TakingOf, Picking, Saving
<1>4. CASE ReadPending(p)
  <2> DEFINE offers == RowsOf(req[p].c, {"PENDING"})
             taken  == RowsOf(req[p].c, {"PICKED"})
  <2>1. PICK rows \in SUBSET (offers \cup taken) :
          req' = [req EXCEPT ![p].rows = rows, ![p].picked = (taken # {})]
    BY <1>4, ZenonT(60) DEF ReadPending
  <2>2. req'[p].op = req[p].op /\ req'[p].c = c
    BY <1>0, <2>1 DEF LocalInv, TypeOK, Locals
  <2> QED BY <1>3, <1>4, <2>2
<1>5. CASE CancelPending(p)
  <2>1. \/ req' = req
        \/ \E x \in req[p].rows : req' = [req EXCEPT ![p].rows = req[p].rows \ {x}]
    BY <1>5 DEF CancelPending
  <2>2. req'[p].op = req[p].op /\ req'[p].c = c
    BY <1>0, <2>1 DEF LocalInv, TypeOK, Locals
  <2> QED BY <1>3, <1>5, <2>2
<1>6. CASE WriteOffer(p)
  <2>1. wClosing[p][c] = req[p].entity /\ wClosing[p][c] # NoRow /\ req[p].op = "update" /\ pc[p] = "writePending"
    BY <1>0, <1>2, <1>6 DEF Follows, HoldsOf, StaleOps, SaveOf, WriteOffer
  <2>2. PICK entity : /\ entity = [req[p].entity EXCEPT !.pickup = PickupAfter(p)]
                      /\ req' = [req EXCEPT ![p] = [@ EXCEPT !.entity = entity]]
                      /\ pc' = [pc EXCEPT ![p] = "commit"]
                      /\ \/ wClosing' = wClosing /\ entity = req[p].entity
                         \/ wClosing' = [wClosing EXCEPT ![p] = [@ EXCEPT ![c] = entity]]
    <3>1. PICK entity : /\ entity = [req[p].entity EXCEPT !.pickup = PickupAfter(p)]
                        /\ req' = [req EXCEPT ![p] = [@ EXCEPT !.entity = entity]]
                        /\ pc' = [pc EXCEPT ![p] = "commit"]
                        /\ \/ wClosing' = wClosing /\ entity = req[p].entity
                           \/ wClosing' = [wClosing EXCEPT ![p] = [@ EXCEPT ![req[p].c] = entity]]
      <4>1. req[p].op # "resync"
        BY <2>1
      <4> QED BY <1>6, <4>1 DEF WriteOffer, Goto
    <3> QED BY <1>0, <3>1
  <2>3. /\ entity.counted = req[p].entity.counted
        /\ entity.who = req[p].entity.who /\ entity.withdrawn = req[p].entity.withdrawn
        /\ entity # NoRow
    <3>1. PickupAfter(p) \in Nat
      BY PlanType, LocalsOf DEF PickupAfter, ClosingRow
    <3>2. entity \in ClosingRow
      BY LocalsOf, <2>2, <3>1 DEF ClosingRow
    <3> QED BY <2>2, <3>2, LocalsOf, NoRowAssumption DEF ClosingRow
  <2>4. /\ pc'[p] = "commit" /\ req'[p].op = "update" /\ req'[p].c = c
        /\ wClosing'[p][c] = entity /\ \A d \in Closings \ {c} : wClosing'[p][d] = wClosing[p][d]
    BY <1>0, <2>1, <2>2 DEF LocalInv, TypeOK, Locals
  <2>5. wBook[p][c] # NoRow /\ Agrees(wBook[p][c], wClosing[p][c]) /\ NothingTaken(wClosing[p][c])
    BY <1>0, <1>2, <2>1 DEF LedgerOf
  <2>6. Agrees(wBook[p][c], entity) /\ NothingTaken(entity)
    BY <2>1, <2>3, <2>5, SamePlan
  <2>7. /\ \A d \in Closings : /\ wBook'[p][d] # NoRow => wClosing'[p][d] # NoRow
                               /\ wClosing'[p][d] # NoRow => NothingTaken(wClosing'[p][d])
        /\ wBook'[p][c] # NoRow /\ Agrees(wBook'[p][c], wClosing'[p][c])
    BY <1>1, <2>3, <2>4, <2>5, <2>6 DEF LedgerOf
  <2> QED BY <1>0, <2>4, <2>7 DEF LedgerOf, TakingOf, Picking, Saving
<1> QED BY <1>4, <1>5, <1>6

\* What a pickup is asked to take is something, from the moment it knows.
LEMMA BeforePickLedger ==
    ASSUME LedgerInv, NEW p \in Requests, Ordinary(p),
           ListPending(p) \/ Allocate(p) \/ LockPending(p) \/ CheckPending(p)
    PROVE  LedgerOf(p)' /\ TakingOf(p)'
<1> USE DEF LedgerInv, OfferInv, IInv, Ordinary
<1>0. /\ UNCHANGED <<wClosing, wPending, wBook>> \/ Rollback(p)
      /\ pc[p] \in Early /\ pc[p] # "done" /\ req[p].op = "pick" /\ req[p] \in Locals /\ req[p].who # NoOne
  BY DEF ListPending, Allocate, LockPending, CheckPending, buffers, LocalInv, TypeOK, OpOK, PickSteps,
         Early, Outside, LedgerOf
<1>1. CASE ListPending(p)
  <2>1. pc'[p] = "allocate" /\ req' = req /\ UNCHANGED <<wClosing, wPending, wBook>>
    BY <1>1 DEF ListPending, Goto, buffers, LocalInv, TypeOK
  <2> QED BY <1>0, <2>1, NothingYetLedger DEF Early, Outside, Picking
<1>2. CASE Allocate(p)
  <2>1. PICK take, charged, toPick :
          /\ \A x \in toPick : take[x] \in Nat \ {0}
          /\ \/ /\ pc' = [pc EXCEPT ![p] = "done"]
                /\ req' = [req EXCEPT ![p] = NoLocals]
             \/ /\ pc' = [pc EXCEPT ![p] = "lockPending"]
                /\ req' = [req EXCEPT ![p] = [req[p] EXCEPT !.ids = toPick, !.rows = toPick]]
                /\ view' = [view EXCEPT ![p] = [items |-> {}, take |-> take, charged |-> charged]]
    <3> DEFINE result == ViewOf(view[p].items)
               listed == {x.id : x \in view[p].items}
               toPick == {x \in req[p].ids \cap listed : result.remaining[x] \in Nat \ {0}}
    <3>1. \A x \in toPick : result.remaining[x] \in Nat \ {0}
      OBVIOUS
    <3>2. \/ /\ pc' = [pc EXCEPT ![p] = "done"]
             /\ req' = [req EXCEPT ![p] = NoLocals]
          \/ /\ pc' = [pc EXCEPT ![p] = "lockPending"]
             /\ req' = [req EXCEPT ![p] = [req[p] EXCEPT !.ids = toPick, !.rows = toPick]]
             /\ view' = [view EXCEPT ![p] = [items |-> {}, take |-> result.remaining,
                                              charged |-> result.charged]]
      BY <1>2 DEF Allocate, Goto
    <3> HIDE DEF toPick, result
    <3> QED BY <3>1, <3>2, Zenon
  <2>2. UNCHANGED <<wClosing, wPending, wBook>>
    BY <1>2 DEF Allocate, buffers
  <2>3. CASE pc' = [pc EXCEPT ![p] = "done"] /\ req' = [req EXCEPT ![p] = NoLocals]
    <3>1. pc'[p] = "done"
      BY <2>3 DEF LocalInv, TypeOK
    <3> QED BY <1>0, <2>2, <3>1, NothingYetLedger DEF Early, Outside, Picking
  <2>4. CASE /\ pc' = [pc EXCEPT ![p] = "lockPending"]
             /\ req' = [req EXCEPT ![p] = [req[p] EXCEPT !.ids = toPick, !.rows = toPick]]
             /\ view' = [view EXCEPT ![p] = [items |-> {}, take |-> take, charged |-> charged]]
    <3>1. pc'[p] = "lockPending" /\ view'[p].take = take
      BY <2>4 DEF LocalInv, TypeOK, ViewOK
    <3>2. req'[p] = [req[p] EXCEPT !.ids = toPick, !.rows = toPick]
      BY <2>4 DEF LocalInv, TypeOK
    <3>3. req'[p].ids = toPick /\ req'[p].who = req[p].who
      BY <1>0, <3>2 DEF Locals
    <3>4. \A x \in req'[p].ids : view'[p].take[x] > 0
      BY <2>1, <3>1, <3>3
    <3> QED BY <1>0, <2>2, <3>1, <3>3, <3>4, NothingYetLedger DEF Early, Outside
  <2> QED BY <2>1, <2>3, <2>4
<1>3. CASE LockPending(p)
  <2>1. /\ pc[p] = "lockPending" /\ UNCHANGED <<wClosing, wPending, wBook, view>>
        /\ pc'[p] \in {"checkPending", "lockPending"}
        /\ req' = [req EXCEPT ![p] = [req[p] EXCEPT !.rows = req[p].rows \ {NextToLock(p)}]]
    BY <1>3 DEF LockPending, Goto, buffers, LocalInv, TypeOK
  <2>2. req'[p].ids = req[p].ids /\ req'[p].who = req[p].who
    BY <1>0, <2>1 DEF LocalInv, TypeOK, Locals
  <2>3. \A x \in req'[p].ids : view'[p].take[x] > 0
    BY <2>1, <2>2 DEF TakingOf, Picking
  <2> QED BY <1>0, <2>1, <2>2, <2>3, NothingYetLedger DEF Early, Outside
<1>4. CASE CheckPending(p)
  <2>1. CASE Rollback(p)
    BY <2>1, EndLedger DEF Rollback
  <2>2. CASE ~Rollback(p)
    <3>1. /\ pc[p] = "checkPending" /\ UNCHANGED <<wClosing, wPending, wBook, view>>
          /\ pc'[p] = "readClosing"
          /\ req' = [req EXCEPT ![p] = [req[p] EXCEPT !.rows = req[p].ids]]
      BY <1>4, <2>2 DEF CheckPending, Goto, buffers, LocalInv, TypeOK
    <3>2. req'[p].ids = req[p].ids /\ req'[p].who = req[p].who
      BY <1>0, <3>1 DEF LocalInv, TypeOK, Locals
    <3>3. \A x \in req'[p].ids : view'[p].take[x] > 0
      BY <3>1, <3>2 DEF TakingOf, Picking
    <3> QED BY <1>0, <3>1, <3>2, <3>3, NothingYetLedger
  <2> QED BY <2>1, <2>2
<1> QED BY <1>1, <1>2, <1>3, <1>4

\* A row that a pickup has not marked yet: its closing is as it was counted, and nobody has it.
LEMMA Untouched ==
    ASSUME LedgerInv, NEW p \in Requests, Ordinary(p),
           pc[p] \in {"readClosing", "diffClosing", "updateClosing"},
           NEW x \in req[p].ids, wPending[p][x] = NoRow, NEW c \in Closings, c = pending[x].closing
    PROVE  /\ wClosing[p][c] = NoRow /\ Seen(wClosing[p], closing, c) = closing[c]
           /\ closing[c].state = "live" /\ closing[c].who = NoOne /\ closing[c].withdrawn = 0
           /\ closing[c].counted = pending[x].amount
<1> USE DEF LedgerInv, OfferInv, IInv, Ordinary
<1>1. /\ req[p].op = "pick" /\ x \in PendingIds /\ Checked(p)
  BY LocalsOf DEF LocalInv, OpOK, PickSteps, Checked, Marking
<1>2. \A y \in req[p].ids : pending[y].state = "PENDING"
  BY <1>1 DEF Knows, LocksOf
<1>3. wClosing[p][c] = NoRow
  <2> SUFFICES ASSUME wClosing[p][c] # NoRow PROVE FALSE
    OBVIOUS
  <2>1. PICK y \in PendingIds : wPending[p][y] # NoRow /\ pending[y].closing = c
    BY <1>1 DEF Follows, PickOf
  <2>2. y \in req[p].ids
    BY <1>1, <2>1 DEF Follows, PickOf, Knows, WriteOf, WriteOK
  <2>3. x \in RowsOf(c, Active) /\ y \in RowsOf(c, Active)
    BY <1>1, <1>2, <2>1, <2>2 DEF RowsOf, Active
  <2> QED BY <2>1, <2>3 DEF CashOfferedOnce
<1>4. x \in RowsOf(c, {"PENDING"})
  BY <1>1, <1>2 DEF RowsOf
<1>5. closing[c].state = "live" /\ closing[c].who = NoOne /\ pending[x].amount = Take(closing[c])
  BY <1>4 DEF OfferFollowsClosing
<1>6. closing[c].withdrawn = 0
  BY <1>5 DEF NothingTaken
<1> QED BY <1>3, <1>5, <1>6 DEF Seen, Take

\* ReadClosing finds the closing of the next row as it was counted.
LEMMA ReadClosingLedger ==
    ASSUME LedgerInv, NEW p \in Requests, Ordinary(p), ReadClosing(p)
    PROVE  LedgerOf(p)' /\ TakingOf(p)'
<1> USE DEF LedgerInv, OfferInv, IInv, Ordinary
<1>1. CASE Rollback(p)
  BY <1>1, EndLedger DEF Rollback
<1>2. CASE ~Rollback(p)
  <2>1. PICK x \in req[p].rows :
          LET d   == pending[x].closing
              row == Seen(wClosing[p], closing, d)
          IN  /\ req' = [req EXCEPT ![p] = [req[p] EXCEPT !.cur = x, !.c = d, !.entity = row,
                                                          !.rows = req[p].rows \ {x}]]
              /\ pc' = [pc EXCEPT ![p] = "diffClosing"]
              /\ UNCHANGED <<tables, expense, clock, locks, buffers, view>>
    BY <1>2 DEF ReadClosing, Goto
  <2>0. PICK d \in Closings : d = pending[x].closing
    BY LocalsOf
  <2> DEFINE row  == Seen(wClosing[p], closing, d)
             rest == req[p].rows \ {x}
  <2>2. /\ req' = [req EXCEPT ![p] = [req[p] EXCEPT !.cur = x, !.c = d, !.entity = row, !.rows = rest]]
        /\ pc' = [pc EXCEPT ![p] = "diffClosing"] /\ pc[p] = "readClosing"
        /\ UNCHANGED <<closing, pending, wClosing, wPending, wBook, view>>
    BY <2>0, <2>1 DEF ReadClosing, tables, locks, buffers
  <2>3. x \in req[p].ids /\ x \in PendingIds /\ req[p].op = "pick" /\ req[p] \in Locals
    BY <2>2, LocalsOf DEF LocalInv, ViewOK, Picking, OpOK, PickSteps
  <2>4. wPending[p][x] = NoRow
    BY <2>3 DEF Follows, PickOf
  <2>5. row = closing[d] /\ closing[d].withdrawn = 0 /\ closing[d].counted = pending[x].amount
    BY <2>0, <2>2, <2>3, <2>4, Untouched
  <2> HIDE DEF row, rest
  <2>6. req'[p] = [req[p] EXCEPT !.cur = x, !.c = d, !.entity = row, !.rows = rest]
    BY <2>2 DEF LocalInv, TypeOK
  <2>7. /\ req'[p].op = "pick" /\ req'[p].cur = x /\ req'[p].c = d /\ req'[p].entity = row
        /\ req'[p].who = req[p].who /\ req'[p].ids = req[p].ids /\ pc'[p] = "diffClosing"
    BY <2>2, <2>3, <2>6 DEF LocalInv, TypeOK, Locals
  <2>8. LedgerOf(p)'
    BY <2>2, <2>3, <2>7 DEF LedgerOf, Saving
  <2>9. TakingOf(p)'
    BY <2>2, <2>3, <2>5, <2>7 DEF TakingOf, Picking
  <2> QED BY <2>8, <2>9
<1> QED BY <1>1, <1>2

\* What Changed says of the columns of a pickup.
LEMMA ChangedColumns ==
    ASSUME NEW a, NEW b
    PROVE  /\ "withdrawn" \in Changed(a, b) <=> a.withdrawn # b.withdrawn
           /\ "who" \in Changed(a, b) <=> a.who # b.who
BY DEF Changed, Fields

\* DiffClosing takes what the pickup was told to take, and sees that both columns change.
LEMMA DiffClosingLedger ==
    ASSUME LedgerInv, NEW p \in Requests, Ordinary(p), DiffClosing(p)
    PROVE  LedgerOf(p)' /\ TakingOf(p)'
<1> USE DEF LedgerInv, OfferInv, IInv, Ordinary
<1>0. PICK c \in Closings : c = req[p].c
  BY LocalsOf
<1> DEFINE old  == req[p].entity
           take == view[p].take[req[p].cur]
           new  == [old EXCEPT !.who = req[p].who, !.pickup = 0,
                               !.withdrawn = IF old.withdrawn > 0 THEN old.withdrawn ELSE take]
           diff == Changed(new, Seen(wClosing[p], closing, req[p].c))
<1>1. /\ req' = [req EXCEPT ![p] = [req[p] EXCEPT !.entity = new, !.dirty = diff]]
      /\ pc[p] = "diffClosing" /\ pc' = [pc EXCEPT ![p] = "updateClosing"]
      /\ UNCHANGED <<closing, pending, wClosing, wPending, wBook, view>>
  BY DEF DiffClosing, Goto, tables, locks, buffers
<1>2. /\ req[p].op = "pick" /\ Marking(p) /\ Picking(p) /\ req[p] \in Locals /\ old \in ClosingRow
      /\ req[p].cur \in req[p].ids /\ req[p].cur \in PendingIds /\ Checked(p)
  BY <1>1, LocalsOf DEF LocalInv, OpOK, PickSteps, Marking, Picking, ViewOK, Checked
<1>3. take > 0 /\ old.withdrawn = 0 /\ old.counted = pending[req[p].cur].amount /\ req[p].who # NoOne
  BY <1>1, <1>2 DEF TakingOf, LedgerOf
<1>4. wPending[p][req[p].cur] = NoRow /\ c = pending[req[p].cur].closing
  BY <1>0, <1>2 DEF Follows, PickOf, Knows, LocksOf
<1>5. /\ Seen(wClosing[p], closing, c) = closing[c] /\ closing[c].withdrawn = 0 /\ closing[c].who = NoOne
  BY <1>1, <1>2, <1>4, Untouched
<1>6. new.withdrawn = take /\ new.who = req[p].who /\ new.counted = old.counted
  BY <1>2, <1>3 DEF ClosingRow
<1>7. "withdrawn" \in diff /\ "who" \in diff
  <2> HIDE DEF new
  <2>1. new.withdrawn # 0 /\ new.who # NoOne
    BY <1>3, <1>6
  <2> QED BY <1>0, <1>5, <2>1, ChangedColumns
<1> HIDE DEF new, diff
<1>8. req'[p] = [req[p] EXCEPT !.entity = new, !.dirty = diff] /\ pc'[p] = "updateClosing"
  BY <1>1 DEF LocalInv, TypeOK
<1>9. /\ req'[p].op = "pick" /\ req'[p].cur = req[p].cur /\ req'[p].c = req[p].c /\ req'[p].entity = new
      /\ req'[p].who = req[p].who /\ req'[p].ids = req[p].ids /\ req'[p].dirty = diff
  BY <1>2, <1>8 DEF Locals
<1>10. LedgerOf(p)'
  BY <1>1, <1>2, <1>8, <1>9 DEF LedgerOf, Saving
<1>11. TakingOf(p)'
  BY <1>1, <1>2, <1>3, <1>6, <1>7, <1>8, <1>9 DEF TakingOf, Picking
<1> QED BY <1>10, <1>11

\* UpdateClosing writes what was taken, by whom, of what was counted.
LEMMA UpdateClosingLedger ==
    ASSUME LedgerInv, NEW p \in Requests, Ordinary(p), UpdateClosing(p)
    PROVE  LedgerOf(p)' /\ TakingOf(p)'
<1> USE DEF LedgerInv, OfferInv, IInv, Ordinary
<1>0. PICK c \in Closings : c = req[p].c
  BY LocalsOf
<1> DEFINE new == req[p].entity
           D   == req[p].dirty
           now == Seen(wClosing[p], closing, c)
           written == [state     |-> IF "state" \in D THEN new.state ELSE now.state,
                       counted   |-> IF "counted" \in D THEN new.counted ELSE now.counted,
                       withdrawn |-> IF "withdrawn" \in D THEN new.withdrawn ELSE now.withdrawn,
                       own       |-> now.own,
                       who       |-> IF "who" \in D THEN new.who ELSE now.who,
                       pickup    |-> IF "pickup" \in D THEN new.pickup ELSE now.pickup]
           take == view[p].take[req[p].cur]
<1>1. wClosing' = [wClosing EXCEPT ![p] = [@ EXCEPT ![c] = written]]
  BY <1>0 DEF UpdateClosing, WithColumns
<1>2. /\ pc[p] = "updateClosing" /\ pc' = [pc EXCEPT ![p] = "lockBook"]
      /\ UNCHANGED <<closing, pending, wPending, wBook, req, view>>
  BY DEF UpdateClosing, Goto, tables
<1>3. /\ req[p].op = "pick" /\ Marking(p) /\ Picking(p) /\ new \in ClosingRow
      /\ req[p].cur \in req[p].ids /\ req[p].cur \in PendingIds
  BY <1>2, LocalsOf DEF LocalInv, OpOK, PickSteps, Marking, Picking, ViewOK
<1>4. /\ take > 0 /\ new.withdrawn = take /\ new.who = req[p].who /\ req[p].who # NoOne
      /\ "withdrawn" \in D /\ "who" \in D /\ new.counted = pending[req[p].cur].amount
  BY <1>2, <1>3 DEF TakingOf, LedgerOf
<1>5. wPending[p][req[p].cur] = NoRow /\ c = pending[req[p].cur].closing
  BY <1>0, <1>3 DEF Follows, PickOf, Knows, LocksOf, Checked
<1>6. wClosing[p][c] = NoRow /\ now = closing[c] /\ closing[c].counted = pending[req[p].cur].amount
  BY <1>2, <1>3, <1>5, Untouched
<1>7. written.counted = new.counted /\ written.withdrawn = take /\ written.who = req[p].who
  BY <1>4, <1>6
<1>8. written # NoRow
  <2>1. now \in ClosingRow
    BY SeenType
  <2>2. written \in ClosingRow
    BY <1>3, <2>1 DEF ClosingRow
  <2> QED BY <2>2, NoRowAssumption
<1> HIDE DEF written, now
<1>9. wClosing'[p][c] = written /\ \A d \in Closings \ {c} : wClosing'[p][d] = wClosing[p][d]
  BY <1>1 DEF LocalInv, TypeOK
<1>10. NothingTaken(written)
  BY <1>4, <1>7 DEF NothingTaken
<1>11. pc'[p] = "lockBook"
  BY <1>2 DEF LocalInv, TypeOK
<1>12. /\ \A d \in Closings : /\ wBook'[p][d] # NoRow => wClosing'[p][d] # NoRow
                              /\ wClosing'[p][d] # NoRow => NothingTaken(wClosing'[p][d])
       /\ \A d \in Closings \ {c} : wClosing'[p][d] # NoRow =>
             wBook'[p][d] # NoRow /\ Agrees(wBook'[p][d], wClosing'[p][d])
       /\ \A x \in PendingIds : wPending'[p][x] # NoRow =>
             /\ wBook'[p][pending[x].closing] # NoRow
             /\ wBook'[p][pending[x].closing].out = wPending'[p][x].amount
  <2>1. \A d \in Closings : /\ wBook[p][d] # NoRow => wClosing[p][d] # NoRow
                            /\ wClosing[p][d] # NoRow => NothingTaken(wClosing[p][d])
    BY DEF LedgerOf
  <2>2. \A d \in Closings : wClosing[p][d] # NoRow => wBook[p][d] # NoRow /\ Agrees(wBook[p][d], wClosing[p][d])
    BY <1>2, <1>3 DEF LedgerOf
  <2>3. \A x \in PendingIds : wPending[p][x] # NoRow =>
             /\ wBook[p][pending[x].closing] # NoRow
             /\ wBook[p][pending[x].closing].out = wPending[p][x].amount
    BY <1>3 DEF LedgerOf
  <2> QED BY <1>2, <1>8, <1>9, <1>10, <2>1, <2>2, <2>3
<1>13. LedgerOf(p)'
  BY <1>0, <1>2, <1>3, <1>4, <1>11, <1>12 DEF LedgerOf
<1>14. TakingOf(p)'
  BY <1>0, <1>2, <1>3, <1>4, <1>7, <1>8, <1>9, <1>11 DEF TakingOf, Picking
<1> QED BY <1>13, <1>14

\* MarkPicked writes in the ledger of the closing what it marks as picked up.
LEMMA MarkPickedLedger ==
    ASSUME LedgerInv, NEW p \in Requests, Ordinary(p), MarkPicked(p)
    PROVE  LedgerOf(p)' /\ TakingOf(p)'
<1> USE DEF LedgerInv, OfferInv, IInv, Ordinary
<1>0. PICK c \in Closings : c = req[p].c
  BY LocalsOf
<1> DEFINE x    == req[p].cur
           take == view[p].take[x]
           row  == [pending[x] EXCEPT !.state = "PICKED", !.amount = take]
           plan == PlanWithoutSources(req[p].entity)
           written == wClosing[p][c]
<1>1. /\ pc[p] = "lockBook" /\ req[p].op = "pick" /\ pc'[p] \in {"commit", "readClosing"}
      /\ wPending' = [wPending EXCEPT ![p] = [@ EXCEPT ![x] = row]]
      /\ wBook' = [wBook EXCEPT ![p] = [@ EXCEPT ![c] = plan]]
      /\ UNCHANGED <<closing, pending, wClosing, req, view>>
  BY <1>0 DEF MarkPicked, Goto, tables, LocalInv, TypeOK
<1>2. /\ Marking(p) /\ Picking(p) /\ Checked(p) /\ x \in req[p].ids /\ x \in PendingIds
      /\ req[p].entity \in ClosingRow
  BY <1>1, LocalsOf DEF LocalInv, Marking, Picking, Checked, ViewOK
<1>3. /\ take > 0 /\ req[p].entity.withdrawn = take /\ req[p].entity.who = req[p].who /\ written # NoRow
      /\ written.counted = req[p].entity.counted /\ written.withdrawn = req[p].entity.withdrawn
      /\ written.who = req[p].entity.who /\ req[p].who # NoOne
  BY <1>0, <1>1, <1>2 DEF TakingOf, LedgerOf
<1>4. c = pending[x].closing /\ \A y \in req[p].ids : pending[y].state = "PENDING"
  BY <1>0, <1>2 DEF Knows, LocksOf
<1>5. plan.income = req[p].entity.counted /\ plan.out = take /\ plan.to = req[p].who /\ plan # NoRow
  <2>1. Plan(req[p].entity) \in BookRow
    BY <1>2, PlanType
  <2>2. /\ Plan(req[p].entity).income = req[p].entity.counted /\ Plan(req[p].entity).out = take
        /\ Plan(req[p].entity).to = req[p].who
    BY <1>3 DEF Plan, Take
  <2>3. plan \in BookRow
    BY <2>1 DEF PlanWithoutSources, BookRow
  <2> QED BY <2>1, <2>2, <2>3, NoRowAssumption DEF PlanWithoutSources, BookRow
<1>6. Agrees(plan, written)
  <2>1. /\ Plan(written).income = req[p].entity.counted /\ Plan(written).out = take
        /\ Plan(written).to = req[p].who
    BY <1>3 DEF Plan, Take
  <2> HIDE DEF plan
  <2> QED BY <1>5, <2>1 DEF Agrees
<1>7. row.amount = take /\ row # NoRow
  <2>1. pending[x] \in PendingRow /\ take \in Nat
    BY <1>2 DEF LocalInv, TypeOK, ViewOK
  <2>2. row \in PendingRow /\ row.amount = take
    BY <2>1 DEF PendingRow
  <2> QED BY <2>2, NoRowAssumption
<1> HIDE DEF row, plan
<1>8. /\ wPending'[p][x] = row /\ \A y \in PendingIds \ {x} : wPending'[p][y] = wPending[p][y]
      /\ wBook'[p][c] = plan /\ \A d \in Closings \ {c} : wBook'[p][d] = wBook[p][d]
  BY <1>1, <1>2 DEF LocalInv, TypeOK
<1>9. \A y \in PendingIds : wPending[p][y] # NoRow => pending[y].closing # c
  <2> SUFFICES ASSUME NEW y \in PendingIds, wPending[p][y] # NoRow, pending[y].closing = c PROVE FALSE
    OBVIOUS
  <2>1. y \in req[p].ids /\ y # x
    BY <1>1, <1>2 DEF Follows, PickOf, Knows, WriteOf, WriteOK
  <2>2. x \in RowsOf(c, Active) /\ y \in RowsOf(c, Active)
    BY <1>2, <1>4, <2>1 DEF RowsOf, Active
  <2> QED BY <2>1, <2>2 DEF CashOfferedOnce
<1> HIDE DEF x, take, written
<1>10. \A d \in Closings : /\ wBook'[p][d] # NoRow => wClosing'[p][d] # NoRow
                           /\ wClosing'[p][d] # NoRow => NothingTaken(wClosing'[p][d])
  BY <1>1, <1>3, <1>8 DEF LedgerOf, written
<1>11. \A d \in Closings : wClosing'[p][d] # NoRow => wBook'[p][d] # NoRow /\ Agrees(wBook'[p][d], wClosing'[p][d])
  <2> TAKE d \in Closings
  <2>1. CASE d = c
    BY <1>1, <1>5, <1>6, <1>8, <2>1 DEF written
  <2>2. CASE d # c
    BY <1>0, <1>1, <1>8, <2>2 DEF LedgerOf
  <2> QED BY <2>1, <2>2
<1>12. \A y \in PendingIds : wPending'[p][y] # NoRow =>
             /\ wBook'[p][pending[y].closing] # NoRow
             /\ wBook'[p][pending[y].closing].out = wPending'[p][y].amount
  <2> SUFFICES ASSUME NEW y \in PendingIds, wPending'[p][y] # NoRow
               PROVE  /\ wBook'[p][pending[y].closing] # NoRow
                      /\ wBook'[p][pending[y].closing].out = wPending'[p][y].amount
    OBVIOUS
  <2>1. CASE y = x
    BY <1>4, <1>5, <1>7, <1>8, <2>1
  <2>2. CASE y # x
    <3>1. pending[y].closing \in Closings \ {c}
      BY <1>8, <1>9, <2>2, LocalsOf
    <3> QED BY <1>1, <1>8, <2>2, <3>1 DEF LedgerOf
  <2> QED BY <2>1, <2>2
<1>13. LedgerOf(p)'
  BY <1>1, <1>3, <1>10, <1>11, <1>12 DEF LedgerOf
<1>14. TakingOf(p)'
  BY <1>1, <1>2 DEF TakingOf, Picking
<1> QED BY <1>13, <1>14

\* Every step of a request keeps what it is going to write of the ledger right.
LEMMA StepLedger ==
    ASSUME TakesAll, LedgerInv, NEW p \in Requests, Ordinary(p), TransactionStep(p)
    PROVE  LedgerOf(p)' /\ TakingOf(p)'
<1> USE DEF LedgerInv, OfferInv, IInv
<1>2. CASE LockClosing(p) \/ LockBook(p)
  BY <1>2, LockClosingLedger, LockBookLedger
<1>3. CASE LoadClosing(p) \/ CompareClosing(p) \/ SaveClosing(p)
  BY <1>3 DEF LoadClosing, CompareClosing, SaveClosing, Ordinary, Follows, HoldsOf
<1>4. CASE ReadPending(p) \/ WriteOffer(p) \/ CancelPending(p)
  BY <1>4, OfferLedger
<1>5. CASE ListPending(p) \/ Allocate(p) \/ LockPending(p) \/ CheckPending(p)
  BY <1>5, BeforePickLedger
<1>6. CASE ReadClosing(p) \/ DiffClosing(p) \/ UpdateClosing(p) \/ MarkPicked(p)
  BY <1>6, ReadClosingLedger, DiffClosingLedger, UpdateClosingLedger, MarkPickedLedger
<1>7. CASE Commit(p)
  BY <1>7, EndLedger DEF Commit
<1> QED BY <1>2, <1>3, <1>4, <1>5, <1>6, <1>7 DEF TransactionStep

\* Who saves a closing that he loaded without a lock plans it as it still is.
LEMMA ResaveLedger ==
    ASSUME LedgerInv, NEW p \in Requests, ResaveOf(p), ResaveBook(p), TransactionStep(p),
           ~EndOfTransaction(p)
    PROVE  ResaveBook(p)'
<1> USE DEF LedgerInv, OfferInv, IInv
<1>0. PICK c \in Closings : c = req[p].c
  BY LocalsOf
<1>1. /\ AtWork(p) /\ (AtWork(p)' => req'[p].op = req[p].op)
      /\ closing' = closing
  <2>1. ~Commit(p)
    BY DEF Commit
  <2> QED BY <2>1, KeepsOp, NoOrphans, RequestUnchanged
<1>2. CASE LockBook(p)
  <2>1. /\ wBook' = [wBook EXCEPT ![p] = [wBook[p] EXCEPT ![c] = Plan(req[p].entity)]]
        /\ req' = req /\ pc[p] = "lockBook" /\ pc'[p] = "readPending"
    BY <1>0, <1>2 DEF LockBook, Goto, ResaveOf, StaleOps, LocalInv, TypeOK
  <2>2. Agrees(Plan(req[p].entity), closing[c])
    <3>1. Same(req[p].entity, closing[c])
      BY <1>0, <2>1 DEF ResaveOf
    <3>2. Agrees(Plan(req[p].entity), req[p].entity)
      BY DEF Agrees
    <3> QED BY <3>1, <3>2, SamePlan DEF Same
  <2>3. /\ wBook'[p][c] = Plan(req[p].entity)
        /\ \A d \in Closings \ {c} : wBook'[p][d] = wBook[p][d]
    BY <2>1 DEF LocalInv, TypeOK
  <2> QED BY <1>0, <1>1, <2>1, <2>2, <2>3 DEF ResaveBook
<1>3. CASE ~LockBook(p)
  <2>1. ~MarkPicked(p) /\ ~LockClosing(p) /\ ~CancelPending(p) /\ ~UpdateClosing(p)
    BY DEF MarkPicked, LockClosing, CancelPending, UpdateClosing, ResaveOf, ResaveSteps, StaleOps
  <2>2. ~ListPending(p) /\ ~Allocate(p) /\ ~LockPending(p) /\ ~CheckPending(p) /\ ~ReadClosing(p) /\ ~DiffClosing(p)
    BY DEF ListPending, Allocate, LockPending, CheckPending, ReadClosing, DiffClosing, ResaveOf, ResaveSteps
  <2>3. LoadClosing(p) \/ ReadPending(p) \/ WriteOffer(p) \/ CompareClosing(p) \/ SaveClosing(p)
    BY <1>3, <2>1, <2>2 DEF TransactionStep, Commit
  <2>4. wBook' = wBook /\ pc'[p] # "loadClosing"
    BY <2>3 DEF LoadClosing, ReadPending, WriteOffer, CompareClosing, SaveClosing, Rollback, Goto,
                buffers, LocalInv, TypeOK
  <2>5. req'[p].c = req[p].c
    <3>1. CASE LoadClosing(p) \/ CompareClosing(p) \/ SaveClosing(p)
      BY <3>1 DEF LoadClosing, CompareClosing, SaveClosing, Rollback, LocalInv, TypeOK, Locals
    <3>2. CASE ReadPending(p)
      <4> DEFINE taken == RowsOf(req[p].c, {"PICKED"})
      <4>1. PICK rows : req' = [req EXCEPT ![p].rows = rows, ![p].picked = (taken # {})]
        BY <3>2, ZenonT(60) DEF ReadPending
      <4> QED BY <4>1 DEF LocalInv, TypeOK, Locals
    <3>3. CASE WriteOffer(p)
      <4> DEFINE entity == [req[p].entity EXCEPT !.pickup = PickupAfter(p)]
      <4>1. req' = [req EXCEPT ![p].entity = entity]
        BY <3>3 DEF WriteOffer
      <4> HIDE DEF entity
      <4> QED BY <4>1 DEF LocalInv, TypeOK, Locals
    <3> QED BY <2>3, <3>1, <3>2, <3>3
  <2> QED BY <1>1, <2>4, <2>5 DEF ResaveBook
<1> QED BY <1>2, <1>3

\* The entries that such a save publishes are those of the closing.
LEMMA ResaveCommitLedger ==
    ASSUME LedgerInv, NEW p \in Requests, ResaveOf(p), ResaveBook(p), Commit(p)
    PROVE  /\ BookMatchesClosing'
           /\ \A c \in Closings : closing'[c].state # "absent" => NothingTaken(closing'[c])
<1> USE DEF LedgerInv, OfferInv
<1>1. \A c \in Closings : Same(closing'[c], closing[c])
  BY ResaveCommit
<1>2. \A c \in Closings : book'[c] = Seen(wBook[p], book, c)
  BY DEF Commit
<1>3. ASSUME NEW c \in Closings, closing'[c].state = "live" PROVE Agrees(book'[c], closing'[c])
  <2>1. closing[c].state = "live" /\ Same(closing'[c], closing[c])
    BY <1>1, <1>3 DEF Same
  <2>2. Agrees(book[c], closing[c])
    BY <2>1 DEF BookMatchesClosing, Agrees
  <2>3. Agrees(book'[c], closing[c])
    BY <1>2, <2>2 DEF Seen, ResaveBook
  <2> QED BY <2>1, <2>3, SamePlan DEF Same
<1>4. \A c \in Closings : closing'[c].state # "absent" => NothingTaken(closing'[c])
  BY <1>1 DEF Same, NothingTaken
<1> QED BY <1>3, <1>4 DEF BookMatchesClosing, Agrees

\* Others leave what it writes as it is.
LEMMA ResaveBookKept ==
    ASSUME NEW q \in Requests, ResaveOf(q), ResaveBook(q), Spares(q),
           \A c \in Closings : closing[c].state # "absent" => closing'[c] = closing[c]
    PROVE  ResaveBook(q)'
<1>1. pc'[q] = pc[q] /\ req'[q] = req[q] /\ wBook'[q] = wBook[q]
  BY DEF Spares, Leaves
<1>2. \A c \in Closings : wBook[q][c] # NoRow => closing[c].state = "live"
  BY DEF ResaveBook, ResaveOf
<1> QED BY <1>1, <1>2 DEF ResaveBook

\* The entries that a request publishes are those of the closing that it publishes.
LEMMA CommitLedger ==
    ASSUME LedgerInv, NEW p \in Requests, Ordinary(p), Commit(p)
    PROVE  /\ BookMatchesClosing'
           /\ \A c \in Closings : closing'[c].state # "absent" => NothingTaken(closing'[c])
<1> USE DEF LedgerInv, OfferInv, IInv, Ordinary
<1>1. pc[p] = "commit" /\ req[p].op \in {"update", "remove", "pick"}
  BY LocalsOf DEF Commit, Locals, AllOps, Follows, HoldsOf, StaleOps
<1>2. \A c \in Closings : /\ closing'[c] = Seen(wClosing[p], closing, c)
                          /\ book'[c] = Seen(wBook[p], book, c)
  BY DEF Commit
<1>3. ASSUME NEW c \in Closings PROVE closing'[c].state # "absent" => NothingTaken(closing'[c])
  BY <1>2 DEF Seen, LedgerOf
<1>4. ASSUME NEW c \in Closings, closing'[c].state = "live" PROVE Agrees(book'[c], closing'[c])
  <2>1. CASE wClosing[p][c] = NoRow
    <3>1. wBook[p][c] = NoRow
      BY <2>1 DEF LedgerOf
    <3>2. book'[c] = book[c] /\ closing'[c] = closing[c]
      BY <1>2, <2>1, <3>1 DEF Seen
    <3> QED BY <1>4, <3>2 DEF BookMatchesClosing, Agrees
  <2>2. CASE wClosing[p][c] # NoRow
    <3>1. wBook[p][c] # NoRow /\ Agrees(wBook[p][c], wClosing[p][c])
      <4>1. CASE req[p].op = "pick"
        BY <1>1, <2>2, <4>1 DEF LedgerOf
      <4>2. CASE req[p].op \in {"update", "remove"}
        <5>1. Saving(p)
          BY <1>1, <4>2 DEF Saving
        <5>2. c = req[p].c
          BY <2>2, <5>1 DEF Follows, SaveOf
        <5>3. req[p].op # "remove"
          BY <1>2, <1>4, <2>2, <5>1, <5>2 DEF Follows, RemoveOf, Seen
        <5> QED BY <1>1, <4>2, <5>1, <5>2, <5>3 DEF LedgerOf
      <4> QED BY <1>1, <4>1, <4>2
    <3> QED BY <1>2, <2>2, <3>1 DEF Seen
  <2> QED BY <2>1, <2>2
<1> QED BY <1>3, <1>4 DEF BookMatchesClosing, Agrees

\* A new closing comes with its ledger.
LEMMA CreateClosingLedger ==
    ASSUME LedgerInv, TakesAll, NEW c \in Closings, NEW fig \in Figures,
           NEW who \in People \cup {NoOne}, CreateClosing(c, fig, who)
    PROVE  /\ BookMatchesClosing'
           /\ \A d \in Closings : closing'[d].state # "absent" => NothingTaken(closing'[d])
<1> USE DEF LedgerInv, OfferInv, IInv, Ordinary
<1> DEFINE base == [state |-> "live", counted |-> fig[1], withdrawn |-> fig[2], own |-> fig[3],
                    who |-> who, pickup |-> 0]
           row  == IF who = NoOne THEN [base EXCEPT !.pickup = Take(base)] ELSE base
<1>1. closing' = [closing EXCEPT ![c] = row] /\ book' = [book EXCEPT ![c] = Plan(base)]
  BY DEF CreateClosing
<1>2. NothingTaken(row)
  BY DEF TakesAll, NothingTaken
<1>3. Agrees(Plan(base), row)
  <2>1. row.counted = base.counted /\ row.withdrawn = base.withdrawn /\ row.who = base.who
    OBVIOUS
  <2>2. Agrees(Plan(base), base)
    BY DEF Agrees
  <2> HIDE DEF row, base
  <2> QED BY <2>1, <2>2, SamePlan
<1> HIDE DEF row, base
<1>4. /\ closing'[c] = row /\ \A d \in Closings \ {c} : closing'[d] = closing[d]
      /\ book'[c] = Plan(base) /\ \A d \in Closings \ {c} : book'[d] = book[d]
  BY <1>1 DEF LocalInv, TypeOK
<1>5. ASSUME NEW d \in Closings, closing'[d].state = "live" PROVE Agrees(book'[d], closing'[d])
  <2>1. CASE d = c
    BY <1>3, <1>4, <2>1
  <2>2. CASE d # c
    BY <1>4, <1>5, <2>2 DEF BookMatchesClosing, Agrees
  <2> QED BY <2>1, <2>2
<1>6. \A d \in Closings : closing'[d].state # "absent" => NothingTaken(closing'[d])
  BY <1>2, <1>4
<1> QED BY <1>5, <1>6 DEF BookMatchesClosing, Agrees

\* A transaction that ends leaves to the others what they write and take.
LEMMA EndSpares ==
    ASSUME LocalInv, NEW p \in Requests, NEW q \in Requests \ {p}, EndOfTransaction(p) PROVE Spares(q)
<1>1. wBook'[q] = wBook[q] /\ view'[q] = view[q]
  BY DEF EndOfTransaction, LocalInv, TypeOK, ViewOK
<1> QED BY <1>1, EndLeaves DEF Spares

\* So does every step of a request, and but for its commit it leaves the ledger as it is.
LEMMA StepSpares ==
    ASSUME LocalInv, NEW p \in Requests, NEW q \in Requests \ {p}, Start(p) \/ TransactionStep(p)
    PROVE  Spares(q)
<1> USE DEF LocalInv, TypeOK, ViewOK
<1>0. Leaves(q)
  BY StepLeaves
<1>1. CASE Start(p)
  BY <1>0, <1>1 DEF Start, StartOnClosing, StartPick, Spares, buffers
<1>2. CASE LockClosing(p)
  BY <1>0, <1>2, EndSpares DEF LockClosing, Rollback, Spares
<1>3. CASE LoadClosing(p) \/ CheckPending(p) \/ ReadClosing(p)
  BY <1>0, <1>3, EndSpares DEF LoadClosing, CheckPending, ReadClosing, Rollback, Spares, buffers
<1>4. CASE LockBook(p) \/ ReadPending(p) \/ CancelPending(p) \/ CompareClosing(p) \/ SaveClosing(p)
  BY <1>0, <1>4 DEF LockBook, ReadPending, CancelPending, CompareClosing, SaveClosing, Spares, buffers
<1>5. CASE WriteOffer(p)
  BY <1>0, <1>5 DEF WriteOffer, Spares
<1>6. CASE ListPending(p) \/ Allocate(p)
  BY <1>0, <1>6 DEF ListPending, Allocate, Spares, buffers
<1>7. CASE LockPending(p) \/ DiffClosing(p) \/ UpdateClosing(p) \/ MarkPicked(p)
  BY <1>0, <1>7 DEF LockPending, DiffClosing, UpdateClosing, MarkPicked, Spares, buffers
<1>8. CASE Commit(p)
  BY <1>8, EndSpares DEF Commit
<1> QED BY <1>1, <1>2, <1>3, <1>4, <1>5, <1>6, <1>7, <1>8 DEF TransactionStep

\* Only a commit of a request changes the ledger.
LEMMA RequestKeepsBook ==
    ASSUME NEW p \in Requests, Start(p) \/ TransactionStep(p), ~Commit(p)
    PROVE  book' = book
<1> USE DEF Rollback, tables
<1>1. CASE Start(p)
  BY <1>1 DEF Start, StartOnClosing, StartPick
<1>2. CASE LockClosing(p) \/ LoadClosing(p) \/ LockBook(p) \/ ReadPending(p)
  BY <1>2 DEF LockClosing, LoadClosing, LockBook, ReadPending
<1>3. CASE WriteOffer(p)
  BY <1>3 DEF WriteOffer
<1>4. CASE CancelPending(p) \/ CompareClosing(p) \/ SaveClosing(p) \/ ListPending(p)
  BY <1>4 DEF CancelPending, CompareClosing, SaveClosing, ListPending
<1>7. CASE Allocate(p) \/ LockPending(p)
  BY <1>7 DEF Allocate, LockPending
<1>5. CASE CheckPending(p) \/ ReadClosing(p)
  BY <1>5 DEF CheckPending, ReadClosing
<1>6. CASE DiffClosing(p) \/ UpdateClosing(p) \/ MarkPicked(p)
  BY <1>6 DEF DiffClosing, UpdateClosing, MarkPicked
<1> QED BY <1>1, <1>2, <1>3, <1>4, <1>5, <1>6, <1>7 DEF TransactionStep

\* A ledger and closings that do not change go on agreeing.
LEMMA UnchangedLedger ==
    ASSUME BookMatchesClosing, UNCHANGED <<closing, book>>,
           \A c \in Closings : closing[c].state # "absent" => NothingTaken(closing[c])
    PROVE  /\ BookMatchesClosing'
           /\ \A c \in Closings : closing'[c].state # "absent" => NothingTaken(closing'[c])
BY DEF BookMatchesClosing

\* Every step keeps the ledger that of the closings.
LEMMA NextLedger ==
    ASSUME SavesAlone, TakesAll, LedgerInv, [Next]_vars PROVE LedgerInv'
<1>1. OfferInv' /\ OfferInv /\ IInv /\ LocalInv
  BY NextOffers DEF LedgerInv, OfferInv, IInv
<1> DEFINE Right == /\ BookMatchesClosing'
                    /\ \A c \in Closings : closing'[c].state # "absent" => NothingTaken(closing'[c])
           Kept(q) == IF req[q].op \in StaleOps THEN ResaveBook(q) ELSE Books(q)
<1>a. \A q \in Requests : IF req[q].op \in StaleOps THEN ResaveOf(q) ELSE Follows(q)
  BY <1>1 DEF OfferInv, ResaveOf, Follows, HoldsOf
<1>b. \A q \in Requests : IF req[q].op \in StaleOps THEN ResaveOf(q) /\ ResaveBook(q) ELSE Ordinary(q)
  BY <1>a DEF LedgerInv, Ordinary, Books
<1>2. ASSUME NEW q \in Requests, Spares(q),
             req[q].op \notin StaleOps => Frozen(q) /\ Harmless(q),
             req[q].op \in StaleOps =>
                \A c \in Closings : closing[c].state # "absent" => closing'[c] = closing[c]
      PROVE  Kept(q)'
  <2>1. req'[q] = req[q]
    BY <1>2 DEF Spares, Leaves
  <2>2. CASE req[q].op \in StaleOps
    BY <1>2, <1>b, <2>1, <2>2, ResaveBookKept
  <2>3. CASE req[q].op \notin StaleOps
    BY <1>1, <1>2, <1>b, <2>1, <2>3, LedgerKept DEF Books
  <2> QED BY <2>2, <2>3
<1>3. (\A q \in Requests : Kept(q)') /\ Right => LedgerInv'
  BY <1>1 DEF LedgerInv
<1> HIDE DEF Kept
<1>4. CASE Environment
  <2>1. UNCHANGED <<cLock, pLock, bLock, wClosing, wPending, wBook, wOffset, pc, req, view>>
    BY <1>4 DEF Environment, CreateClosing, RecordExpense, VoidExpense, locks, buffers
  <2>2. \A q \in Requests : Spares(q)
    BY <2>1 DEF Spares, Leaves
  <2>3. Right /\ (\A q \in Requests : Frozen(q) /\ Harmless(q))
        /\ \A c \in Closings : closing[c].state # "absent" => closing'[c] = closing[c]
    <3>1. CASE UNCHANGED <<closing, pending, book>>
      BY <2>1, <3>1, UnchangedLedger, UnchangedHarmless DEF Frozen, LedgerInv
    <3>2. ASSUME NEW c \in Closings, NEW fig \in Figures, NEW who \in People \cup {NoOne},
                 CreateClosing(c, fig, who)
          PROVE  Right /\ (\A q \in Requests : Frozen(q) /\ Harmless(q))
                 /\ \A d \in Closings : closing[d].state # "absent" => closing'[d] = closing[d]
      <4>1. Right /\ \A q \in Requests : Frozen(q) /\ Harmless(q)
        BY <1>1, <3>2, CreateClosingLedger, CreateClosingOffers, CreateClosingTables DEF OfferInv, IInv
      <4>2. \A d \in Closings : closing[d].state # "absent" => closing'[d] = closing[d]
        BY <1>1, <3>2 DEF CreateClosing, LocalInv, TypeOK
      <4> QED BY <4>1, <4>2
    <3> QED BY <1>4, <3>1, <3>2 DEF Environment, RecordExpense, VoidExpense, tables
  <2> QED BY <1>2, <1>3, <2>2, <2>3
<1>5. CASE UNCHANGED vars
  <2>1. (\A q \in Requests : Spares(q) /\ Frozen(q) /\ Harmless(q)) /\ closing' = closing
    BY <1>5, UnchangedHarmless DEF vars, tables, locks, buffers, Spares, Leaves, Frozen
  <2>2. Right
    BY <1>5, UnchangedLedger DEF vars, tables, LedgerInv
  <2> QED BY <1>2, <1>3, <2>1, <2>2
<1>6. ASSUME NEW p \in Requests, ResaveOf(p), TransactionStep(p) \/ DeadlockVictim(p) \/ Die(p)
      PROVE  LedgerInv'
  <2>0. ResaveBook(p) /\ req[p].op \in StaleOps
    BY <1>6, <1>b DEF ResaveOf
  <2>1. Kept(p)'
    <3>1. CASE EndOfTransaction(p)
      <4>1. req'[p].op \notin StaleOps
        BY <1>1, <3>1 DEF EndOfTransaction, NoLocals, StaleOps, LocalInv, TypeOK
      <4> QED BY <1>1, <3>1, <4>1, EndLedger DEF Kept, Books
    <3>2. CASE ~EndOfTransaction(p)
      <4>1. TransactionStep(p)
        BY <1>6, <3>2 DEF DeadlockVictim, Die, Rollback
      <4>2. ResaveBook(p)'
        BY <1>6, <2>0, <3>2, <4>1, ResaveLedger
      <4>3. req'[p].op = req[p].op \/ Books(p)'
        <5>1. CASE AtWork(p)'
          BY <1>1, <4>1, <5>1, KeepsOp
        <5>2. CASE ~AtWork(p)'
          <6>1. ~ResaveOf(p)'
            BY <5>2 DEF ResaveOf, ResaveSteps, AtWork
          <6>2. FALSE
            BY <1>1, <1>6, <3>2, <4>1, <6>1, ResaveStep DEF OfferInv
          <6> QED BY <6>2
        <5> QED BY <5>1, <5>2
      <4> QED BY <2>0, <4>2, <4>3 DEF Kept
    <3> QED BY <3>1, <3>2
  <2>2. ASSUME NEW q \in Requests \ {p} PROVE Kept(q)'
    <3>1. ~AtWork(q)
      BY <1>1, <1>6, NobodyElse DEF OfferInv
    <3>2. req[q].op \notin StaleOps /\ Ordinary(q) /\ pc[q] \in {"idle", "done"}
      BY <1>b, <3>1 DEF AtWork, ResaveOf, ResaveSteps
    <3>3. Spares(q)
      BY <1>1, <1>6, StepSpares, EndSpares DEF DeadlockVictim, Die, Rollback
    <3>4. /\ pc'[q] = pc[q] /\ req'[q] = req[q] /\ view'[q] = view[q] /\ wBook'[q] = wBook[q]
          /\ wPending'[q] = wPending[q] /\ wClosing'[q] = wClosing[q]
      BY <3>3 DEF Spares, Leaves
    <3>5. req[q].op = "pick" /\ pc[q] # "done" => req[q].who # NoOne
      BY <3>2 DEF Ordinary, LedgerOf
    <3>6. LedgerOf(q)' /\ TakingOf(q)'
      BY <3>2, <3>4, <3>5, NothingYetLedger DEF Early, Outside, Picking
    <3> QED BY <3>2, <3>4, <3>6 DEF Kept, Books
  <2>3. Right
    <3>1. CASE Commit(p)
      BY <1>6, <2>0, <3>1, ResaveCommitLedger
    <3>2. CASE ~Commit(p)
      <4>1. UNCHANGED <<closing, book>>
        BY <1>1, <1>6, <3>2, NoOrphans, RequestUnchanged, RequestKeepsBook
           DEF DeadlockVictim, Die, Rollback, tables
      <4> QED BY <4>1, UnchangedLedger DEF LedgerInv
    <3> QED BY <3>1, <3>2
  <2> QED BY <1>3, <2>1, <2>2, <2>3
<1>7. ASSUME NEW p \in Requests, Ordinary(p), \A q \in Requests \ {p} : req[q].op \notin StaleOps,
             Start(p) \/ TransactionStep(p)
      PROVE  LedgerInv'
  <2>1. \A q \in Requests \ {p} : Spares(q)
    BY <1>1, <1>7, StepSpares
  <2>2. Kept(p)'
    <3>1. CASE Start(p)
      BY <1>7, <3>1, StartLedger DEF Kept, Books
    <3>2. CASE TransactionStep(p)
      <4>1. LedgerOf(p)' /\ TakingOf(p)'
        BY <1>7, <3>2, StepLedger
      <4>2. Follows(p)'
        BY <1>1, <1>7, <3>2, StepFollows DEF OfferInv, Ordinary
      <4>3. req'[p].op \notin StaleOps
        BY <4>2 DEF Follows, HoldsOf
      <4> QED BY <4>1, <4>3 DEF Kept, Books
    <3> QED BY <1>7, <3>1, <3>2
  <2>3. CASE Commit(p)
    <3>1. \A q \in Requests \ {p} : Frozen(q) /\ Harmless(q)
      BY <1>1, <1>7, <2>3, CommitFrozen, CommitHarmless DEF OfferInv, IInv, Ordinary
    <3>2. Right
      BY <1>7, <2>3, CommitLedger
    <3> QED BY <1>2, <1>3, <1>7, <2>1, <2>2, <3>1, <3>2
  <2>4. CASE ~Commit(p)
    <3>1. UNCHANGED <<closing, pending, book>>
      BY <1>1, <1>7, <2>4, NoOrphans, RequestUnchanged, RequestKeepsBook
    <3>2. \A q \in Requests \ {p} : Frozen(q) /\ Harmless(q)
      BY <1>1, <1>7, <3>1, OthersKeepLocks, UnchangedHarmless DEF Frozen
    <3>3. Right
      BY <3>1, UnchangedLedger DEF LedgerInv
    <3> QED BY <1>2, <1>3, <1>7, <2>1, <2>2, <3>2, <3>3
  <2> QED BY <2>3, <2>4
<1>8. ASSUME NEW p \in Requests, Ordinary(p), \A q \in Requests \ {p} : req[q].op \notin StaleOps,
             DeadlockVictim(p) \/ Die(p)
      PROVE  LedgerInv'
  <2>1. EndOfTransaction(p) /\ UNCHANGED <<closing, pending, book>> /\ Rollback(p)
    BY <1>8 DEF DeadlockVictim, Die, Rollback, tables
  <2>2. \A q \in Requests \ {p} : Spares(q)
    BY <1>1, <2>1, EndSpares
  <2>3. \A q \in Requests \ {p} : Frozen(q) /\ Harmless(q)
    BY <1>1, <2>1, OthersKeepLocks, UnchangedHarmless DEF Frozen
  <2>4. Kept(p)'
    <3>1. req'[p].op \notin StaleOps
      BY <1>1, <2>1 DEF EndOfTransaction, NoLocals, StaleOps, LocalInv, TypeOK
    <3> QED BY <1>1, <2>1, <3>1, EndLedger DEF Kept, Books
  <2>5. Right
    BY <2>1, UnchangedLedger DEF LedgerInv
  <2> QED BY <1>2, <1>3, <1>8, <2>2, <2>3, <2>4, <2>5
<1>9. ASSUME NEW p \in Requests, Start(p) \/ TransactionStep(p) \/ DeadlockVictim(p) \/ Die(p)
      PROVE  LedgerInv'
  <2>1. CASE ResaveOf(p)
    <3>1. ~Start(p)
      BY <2>1 DEF ResaveOf, ResaveSteps, Start, StartOnClosing, StartPick
    <3> QED BY <1>6, <1>9, <2>1, <3>1
  <2>2. CASE ~ResaveOf(p)
    <3>1. Ordinary(p)
      BY <1>a, <1>b, <2>2
    <3>2. ASSUME NEW q \in Requests \ {p}, req[q].op \in StaleOps PROVE FALSE
      <4>1. ResaveOf(q) /\ SolitaryOf(q)
        BY <1>1, <1>a, <3>2 DEF OfferInv
      <4>2. ~AtWork(p) /\ ~Start(p)
        BY <1>1, <4>1, NobodyElse
      <4>3. TransactionStep(p) => AtWork(p)
        BY <1>1, KeepsOp
      <4>4. DeadlockVictim(p) \/ Die(p) => AtWork(p)
        BY VictimAtWork
      <4> QED BY <1>9, <4>2, <4>3, <4>4
    <3> QED BY <1>7, <1>8, <1>9, <3>1, <3>2
  <2> QED BY <2>1, <2>2
<1> QED BY <1>4, <1>5, <1>9 DEF Next

\* There is nothing in the ledger at the start.
LEMMA InitLedger == Init => LedgerInv
<1> SUFFICES ASSUME Init PROVE LedgerInv
  OBVIOUS
<1>1. OfferInv
  BY InitOffers
<1>2. BookMatchesClosing /\ \A c \in Closings : closing[c].state # "absent" => NothingTaken(closing[c])
  BY DEF Init, BookMatchesClosing, AbsentClosing
<1>3. \A p \in Requests : req[p].op \notin StaleOps /\ LedgerOf(p) /\ TakingOf(p)
  BY DEF Init, NoWrites, NoLocals, StaleOps, LedgerOf, TakingOf, Saving, Picking
<1> QED BY <1>1, <1>2, <1>3 DEF LedgerInv, Books

\* As long as whoever saves a closing he loaded without a lock overlaps with nobody, and
\* nobody says how much he takes, in every committed state the offer is what the closing says, and so are the cash entries of a live closing: the
\* income counted, and the withdrawal of who took it, towards his account.
THEOREM OfferAndBookAreRight ==
    ASSUME SavesAlone, TakesAll PROVE Spec => []OfferAndBookFollow
<1>1. LedgerInv /\ [Next]_vars => LedgerInv'
  BY NextLedger
<1>2. LedgerInv => OfferAndBookFollow
  BY DEF LedgerInv, OfferInv, OfferAndBookFollow
<1> QED BY <1>1, <1>2, InitLedger, PTL DEF Spec

\* A row becomes picked up by the commit of a pickup, whose entries say what it takes.
LEMMA NextDebits ==
    ASSUME SavesAlone, TakesAll, LedgerInv, [Next]_vars PROVE DebitsWhatItTakes
<1> USE DEF LedgerInv, OfferInv, IInv, Ordinary
<1> SUFFICES ASSUME NEW x \in PendingIds, pending[x].state = "PENDING", pending'[x].state = "PICKED"
             PROVE  book'[pending[x].closing].out = pending'[x].amount
  BY DEF DebitsWhatItTakes
<1>1. pending' # pending
  OBVIOUS
<1>2. CASE Environment
  <2>1. ASSUME NEW c \in Closings, NEW fig \in Figures, NEW who \in People \cup {NoOne},
               CreateClosing(c, fig, who)
        PROVE  FALSE
    <3>1. PICK y \in FreeIds : \E r : pending' = [pending EXCEPT ![y] = r]
      BY <1>1, <2>1 DEF CreateClosing
    <3>2. y # x
      BY DEF FreeIds
    <3> QED BY <3>1, <3>2 DEF LocalInv, TypeOK
  <2> QED BY <1>1, <1>2, <2>1 DEF Environment, RecordExpense, VoidExpense, tables
<1>3. CASE UNCHANGED vars
  BY <1>1, <1>3 DEF vars, tables
<1>4. ASSUME NEW p \in Requests, DeadlockVictim(p) \/ Die(p) PROVE FALSE
  BY <1>1, <1>4 DEF DeadlockVictim, Die, Rollback, tables
<1>5. ASSUME NEW p \in Requests, Start(p) \/ TransactionStep(p)
      PROVE  book'[pending[x].closing].out = pending'[x].amount
  <2>1. Commit(p)
    BY <1>1, <1>5, NoOrphans, RequestUnchanged
  <2>2. Follows(p) /\ wPending[p][x] # NoRow /\ pending'[x] = wPending[p][x] /\ WriteOK(p, x)
    <3>1. ~ResaveOf(p)
      BY <1>1, <2>1, ResaveCommit
    <3> QED BY <2>1, <3>1, CommitPublishes
  <2>3. req[p].op = "pick"
    BY <2>2 DEF WriteOK
  <2>4. /\ wBook[p][pending[x].closing] # NoRow /\ pending[x].closing \in Closings
        /\ wBook[p][pending[x].closing].out = wPending[p][x].amount
    BY <2>2, <2>3, LocalsOf DEF StaleOps, Books, LedgerOf
  <2>5. book'[pending[x].closing] = wBook[p][pending[x].closing]
    BY <2>1, <2>4 DEF Commit, Seen
  <2> QED BY <2>2, <2>4, <2>5
<1> QED BY <1>2, <1>3, <1>4, <1>5 DEF Next

\* A pickup debits the drawer by exactly what it marks as picked up.
THEOREM PickupDebits ==
    ASSUME SavesAlone, TakesAll PROVE Spec => PickupDebitsWhatItTakes
<1>1. LedgerInv /\ [Next]_vars => LedgerInv'
  BY NextLedger
<1>2. LedgerInv /\ [Next]_vars => [DebitsWhatItTakes]_vars
  BY NextDebits
<1> QED BY <1>1, <1>2, InitLedger, PTL DEF Spec, PickupDebitsWhatItTakes
=============================================================================
