------------------------------ MODULE Concepts ------------------------------
(***************************************************************************)
(* The concepts that movements, payments and the expenses of closings are filed    *)
(* under (concepts.service.ts, catalog-seed.service.ts), the concepts that a shop    *)
(* configures for what the system books by itself, and what the lists and reports of  *)
(* money make of them (movements.service.ts, reports.service.ts).                    *)
(*                                                                         *)
(* Unifying concepts is a job of many statements and no transaction: references      *)
(* are moved one table at a time, then the concepts they left are archived.            *)
(* The expenses are of one closing: of another closing nothing here would differ.       *)
(***************************************************************************)
EXTENDS Integers, FiniteSets, FiniteSetsExt

CONSTANTS
    Ids, Movements, Payments, Expenses,   \* rows that may be there
    Bases,      \* names of concepts, without the number of a repeated one
    Seed,       \* the catalogue of every shop: names with their kinds
    Otros, Traspaso,     \* the names that the code falls back to
    Known,      \* the concepts that are there at first
    Account,    \* accounts: [named, coded, party]
    Routes,     \* pairs of accounts between which something is recorded
    Labels,     \* of the expenses of a closing, label and amount
    Jobs,       \* unifications that may go on at once
    MaxChanges,
    None

VARIABLES
    concept,    \* None or [name, kind, on, marked, gone]
    movement,   \* None or [con, from, to, label]: label None if no closing made it
    payment,    \* its concept; 0 while it is not there
    expense,    \* None or [con, label]
    setting,    \* the concept configured for each use, or None
    job,        \* the unifications going on
    removed,    \* the concepts that somebody removed
    mixed,      \* whether a concept was used while it was being unified
    changes

vars == <<concept, movement, payment, expense, setting, job, removed, mixed, changes>>

Kinds    == {"INCOME", "EXPENSE", "TRANSFER"}
Settings == {"withdrawal", "dividend", "transfer"}   \* of closings too, which no unification moves either
Idle     == [step |-> "idle", to |-> None, rows |-> <<>>]

There   == {c \in Ids : concept[c] # None}
Alive   == {c \in There : ~concept[c].gone}
Usable  == {c \in Alive : concept[c].on}
Free    == Ids \ There
Unbooked == {m \in Movements : movement[m] = None}   \* which of them is taken matters not
Named(n)  == {c \in Alive : ~concept[c].marked /\ concept[c].name = n}
Fresh(n, k) == [name |-> n, kind |-> k, on |-> TRUE, marked |-> FALSE, gone |-> FALSE]
Archived(row) == [row EXCEPT !.marked = TRUE, !.on = FALSE, !.gone = TRUE]

\* A name that was removed is marked, so that the name is free again; who seeds the
\* catalogue looks for the mark, not to bring back what was removed.
Missing == {n \in DOMAIN Seed : \A c \in There : concept[c].name # n}
\* The first free number for the name of a concept that is brought back.
CleanName(n, c) == LET taken == {k \in 1 .. Cardinality(Ids) + 1 : Named(<<n[1], k>>) \ {c} # {}}
                   IN  <<n[1], Min((n[2] .. Cardinality(Ids) + 1) \ taken)>>

Touches(S) == mixed' = (mixed \/ \E j \in Jobs : S \cap (DOMAIN job[j].rows \cup {job[j].to}) # {})
Changes    == changes < MaxChanges /\ changes' = changes + 1

----------------------------------------------------------------------------
\* The catalogue

SeedConcepts ==
    /\ Missing # {} /\ Cardinality(Missing) <= Cardinality(Free)
    /\ \E new \in [Missing -> Free] :
         /\ \A m, n \in Missing : m # n => new[m] # new[n]
         /\ concept' = [c \in Ids |-> IF \E n \in Missing : new[n] = c
                                      THEN LET n == CHOOSE m \in Missing : new[m] = c IN Fresh(n, Seed[n])
                                      ELSE concept[c]]
    /\ UNCHANGED <<movement, payment, expense, setting, job, removed, mixed, changes>>

Create(c, n, k) ==
    /\ Changes /\ c \in Free /\ c = Min(Free) /\ Named(n) = {}
    /\ concept' = [concept EXCEPT ![c] = Fresh(n, k)]
    /\ UNCHANGED <<movement, payment, expense, setting, job, removed, mixed>>

Update(c, n, k, on) ==
    /\ Changes /\ c \in Alive /\ Named(n) \subseteq {c}
    /\ concept' = [concept EXCEPT ![c] = [@ EXCEPT !.name = n, !.kind = k, !.on = on]]
    /\ Touches({c})
    /\ UNCHANGED <<movement, payment, expense, setting, job, removed>>

\* The two statements of a removal are one step: who dies between them leaves a
\* concept that is renamed and inactive, which no list shows.
Remove(c) ==
    /\ Changes /\ c \in Alive
    /\ concept' = [concept EXCEPT ![c] = Archived(@)]
    /\ removed' = removed \cup {c} /\ Touches({c})
    /\ UNCHANGED <<movement, payment, expense, setting, job>>

Configure(s, c) ==
    /\ Changes /\ c \in Usable \cup {None}
    /\ setting' = [setting EXCEPT ![s] = c]
    /\ Touches({c})
    /\ UNCHANGED <<concept, movement, payment, expense, job, removed>>

----------------------------------------------------------------------------
\* What is filed under a concept

\* What a use is booked under: the concept configured if it is still in use, or one
\* of the first of these names that there is.
FirstNamed(names) == LET found == {i \in DOMAIN names : Named(<<names[i], 1>>) \cap Usable # {}}
                     IN  IF found = {} THEN None ELSE CHOOSE c \in Named(<<names[Min(found)], 1>>) : c \in Usable
Booked(s, names) == IF setting[s] \in Usable THEN setting[s] ELSE FirstNamed(names)
TransferConcept ==
    LET c == Booked("transfer", <<Traspaso>>)
        others == {d \in Usable : concept[d].kind = "TRANSFER"}
    IN  IF c # None THEN c ELSE IF others # {} THEN Min(others) ELSE None

\* A movement written by hand.  An expense and an income take a concept of their kind,
\* a transfer the configured one, and what is written from a payment says no kind.
Record(m, kind, from, to, c) ==
    /\ Changes /\ movement[m] = None /\ m = Min(Unbooked) /\ c \in Usable \cup {None}
    /\ CASE kind = "expense"  -> c # None /\ concept[c].kind = "EXPENSE" /\ to # None
         [] kind = "income"   -> c # None /\ concept[c].kind = "INCOME" /\ from # None /\ to # None
         [] kind = "transfer" -> c # None /\ c = TransferConcept /\ from # None /\ to # None /\ from # to
         [] OTHER -> TRUE
    /\ movement' = [movement EXCEPT ![m] = [con |-> c, from |-> from, to |-> to, label |-> None]]
    /\ Touches({c})
    /\ UNCHANGED <<concept, payment, expense, setting, job, removed>>

Promise(p, c) ==
    /\ Changes /\ payment[p] = 0 /\ c \in Usable
    /\ payment' = [payment EXCEPT ![p] = c] /\ Touches({c})
    /\ UNCHANGED <<concept, movement, expense, setting, job, removed>>

\* The movement that a closing makes of an expense.
ConceptOf(x) == IF x.con \in Alive THEN x.con ELSE FirstNamed(<<Otros>>)
Drawer == CHOOSE a \in DOMAIN Account : Account[a].named = None /\ ~Account[a].party
Egreso == CHOOSE a \in DOMAIN Account : Account[a].coded = "egreso"
Spend(e, m, c, label) ==
    /\ Changes /\ expense[e] = None /\ movement[m] = None /\ m = Min(Unbooked) /\ c \in Usable \cup {None}
    /\ LET x == [con |-> c, label |-> label]
       IN  /\ expense' = [expense EXCEPT ![e] = x]
           /\ movement' = [movement EXCEPT ![m] = [con |-> ConceptOf(x), from |-> Drawer, to |-> Egreso, label |-> label]]
    /\ Touches({c, ConceptOf([con |-> c, label |-> label])})
    /\ UNCHANGED <<concept, payment, setting, job, removed>>

\* The closings are regenerated: their movements take the concepts again.
Resync ==
    /\ Changes
    /\ movement' = [m \in Movements |->
          IF movement[m] = None \/ movement[m].label = None THEN movement[m]
          ELSE LET e == CHOOSE x \in Expenses : expense[x] # None /\ expense[x].label = movement[m].label
               IN  [movement[m] EXCEPT !.con = ConceptOf(expense[e])]]
    /\ Touches({ConceptOf(expense[e]) : e \in {x \in Expenses : expense[x] # None}})
    /\ UNCHANGED <<concept, payment, expense, setting, job, removed>>

\* Whoever reads the report of concepts first gives the movements of closings the
\* concepts of the expenses with their label and amount; two of those may differ.
RepairTo(m) ==
    IF movement[m] = None \/ movement[m].label = None THEN {}
    ELSE {expense[e].con : e \in {x \in Expenses : expense[x] # None /\ expense[x].label = movement[m].label
                                                   /\ expense[x].con \in Usable}} \ {movement[m].con}
Repaired(after) ==
    \A m \in Movements : IF RepairTo(m) = {} THEN after[m] = movement[m]
                         ELSE \E c \in RepairTo(m) : after[m] = [movement[m] EXCEPT !.con = c]
Repair ==
    /\ \E f \in [Movements -> Ids] :
         /\ movement' = [m \in Movements |-> IF RepairTo(m) # {} THEN [movement[m] EXCEPT !.con = f[m]] ELSE movement[m]]
         /\ Repaired(movement')
    /\ UNCHANGED <<concept, payment, expense, setting, removed, mixed, changes>>
ReadReport == Repair /\ UNCHANGED job

----------------------------------------------------------------------------
\* Unification

\* What is unified into, by its row or by its name, is made usable: an archived one
\* is brought back.
Start(j, from, to, row) ==
    /\ concept' = [concept EXCEPT ![to] = [row EXCEPT !.name = IF row.marked THEN CleanName(row.name, to) ELSE @,
                                                      !.marked = FALSE, !.on = TRUE, !.gone = FALSE]]
    /\ removed' = removed \ {to}
    /\ LET rows == [c \in from \ {to} |-> concept[c]]
       IN  job' = [job EXCEPT ![j] = IF DOMAIN rows = {} THEN Idle ELSE [step |-> "payments", to |-> to, rows |-> rows]]
    /\ mixed' = (mixed \/ \E i \in Jobs : job[i] # Idle)
    /\ UNCHANGED <<movement, payment, expense, setting>>

UnifyInto(j, from, to) ==
    /\ Changes /\ job[j] = Idle /\ from # {} /\ from \subseteq Alive /\ to \in There /\ from # {to}
    /\ Start(j, from, to, concept[to])
UnifyAs(j, from, n, c) ==
    /\ Changes /\ job[j] = Idle /\ from # {} /\ from \subseteq Alive /\ Named(n) \subseteq from
    /\ IF Named(n) # {} THEN c \in Named(n) /\ Start(j, from, c, concept[c])
       ELSE c \in Free /\ c = Min(Free) /\ Start(j, from, c, Fresh(n, concept[Min(from)].kind))

Moves(j, c) == IF c \in DOMAIN job[j].rows THEN job[j].to ELSE c
GoTo(j, step) == job' = [job EXCEPT ![j].step = step]
MovePayments(j) ==
    /\ job[j].step = "payments" /\ GoTo(j, "movements")
    /\ payment' = [p \in Payments |-> Moves(j, payment[p])]
    /\ UNCHANGED <<concept, movement, expense, setting, removed, mixed, changes>>
MoveMovements(j) ==
    /\ job[j].step = "movements" /\ GoTo(j, "expenses")
    /\ movement' = [m \in Movements |-> IF movement[m] = None THEN None ELSE [movement[m] EXCEPT !.con = Moves(j, @)]]
    /\ UNCHANGED <<concept, payment, expense, setting, removed, mixed, changes>>
MoveExpenses(j) ==
    /\ job[j].step = "expenses" /\ GoTo(j, "withdrawal")
    /\ expense' = [e \in Expenses |-> IF expense[e] = None THEN None ELSE [expense[e] EXCEPT !.con = Moves(j, @)]]
    /\ UNCHANGED <<concept, movement, payment, setting, removed, mixed, changes>>
\* Mutant: the concept of dividends is forgotten.
MoveWithdrawal(j) ==
    /\ job[j].step \in {"withdrawal", "dividend"}
    /\ GoTo(j, IF job[j].step = "withdrawal" THEN "dividend" ELSE "repair")
    /\ setting' = [setting EXCEPT !["withdrawal"] = Moves(j, @)]
    /\ UNCHANGED <<concept, movement, payment, expense, removed, mixed, changes>>
MoveSetting(j) ==
    /\ job[j].step \in {"withdrawal", "dividend"}
    /\ GoTo(j, IF job[j].step = "withdrawal" THEN "dividend" ELSE "repair")
    /\ setting' = [setting EXCEPT ![job[j].step] = Moves(j, @)]
    /\ UNCHANGED <<concept, movement, payment, expense, removed, mixed, changes>>
RepairAfter(j) == job[j].step = "repair" /\ Repair /\ GoTo(j, "archive")
\* What is written is the row as it was read at first.
Archive(j) ==
    /\ job[j].step = "archive"
    /\ \E c \in DOMAIN job[j].rows :
         /\ concept' = [concept EXCEPT ![c] = Archived(job[j].rows[c])]
         /\ LET rest == [d \in DOMAIN job[j].rows \ {c} |-> job[j].rows[d]]
            IN  job' = [job EXCEPT ![j] = IF DOMAIN rest = {} THEN Idle ELSE [@ EXCEPT !.rows = rest]]
    /\ UNCHANGED <<movement, payment, expense, setting, removed, mixed, changes>>
Die(j) == job[j] # Idle /\ job' = [job EXCEPT ![j] = Idle]
          /\ UNCHANGED <<concept, movement, payment, expense, setting, removed, mixed, changes>>

----------------------------------------------------------------------------
Init ==
    /\ concept = [c \in Ids |-> IF c \in DOMAIN Known THEN Known[c] ELSE None]
    /\ movement = [m \in Movements |-> None] /\ payment = [p \in Payments |-> 0] /\ expense = [e \in Expenses |-> None]
    /\ setting = [s \in Settings |-> None] /\ job = [j \in Jobs |-> Idle]
    /\ removed = {} /\ mixed = FALSE /\ changes = 0

Next ==
    \/ SeedConcepts
    \/ \E c \in Ids, n \in Bases \X {1}, k \in Kinds : Create(c, n, k) \/ \E on \in BOOLEAN : Update(c, n, k, on)
    \/ \E c \in Ids : Remove(c) \/ \E p \in Payments : Promise(p, c)
    \/ \E c \in Ids \cup {None} :
         \/ \E s \in Settings : Configure(s, c)
         \/ \E m \in Movements, kind \in {"expense", "income", "transfer", "payment"}, r \in Routes : Record(m, kind, r[1], r[2], c)
         \/ \E e \in Expenses, m \in Movements, label \in Labels : Spend(e, m, c, label)
    \/ Resync \/ ReadReport
    \/ \E j \in Jobs :
         \/ \E from \in SUBSET Ids, c \in Ids : UnifyInto(j, from, c) \/ \E n \in Bases \X {1} : UnifyAs(j, from, n, c)
         \/ MovePayments(j) \/ MoveMovements(j) \/ MoveExpenses(j) \/ MoveSetting(j) \/ RepairAfter(j) \/ Archive(j) \/ Die(j)

Spec == Init /\ [][Next]_vars

=============================================================================
