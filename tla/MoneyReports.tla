---------------------------- MODULE MoneyReports ----------------------------
(***************************************************************************)
(* What the lists and the reports make of the movements of money                    *)
(* (movements.service.ts, reports.service.ts).  Whether a movement is an expense, an   *)
(* income or a transfer is written nowhere: the query of each list, the row it         *)
(* returns and the report of concepts each infer it, from the concept and from both       *)
(* accounts, and not from the same things.                                             *)
(***************************************************************************)
EXTENDS Concepts

CONSTANTS
    Amount,     \* of each movement
    Day         \* of each movement

Rows == {m \in Movements : movement[m] # None}
SumOf(S) == MapThenSumSet(LAMBDA m : Amount[m], S)

----------------------------------------------------------------------------
\* How a movement is classified

\* A query joins the concept only while it is not removed; rows are given the removed
\* ones afterwards.
SqlKind(m) == LET c == movement[m].con IN IF c = None THEN None ELSE IF concept[c].gone THEN None ELSE concept[c].kind
RowKind(m) == LET c == movement[m].con IN IF c = None THEN None ELSE concept[c].kind

Says(a, word) == a # None /\ word \in {Account[a].named, Account[a].coded}
ToExpense(m)  == Says(movement[m].to, "egreso") \/ (movement[m].to # None /\ Account[movement[m].to].party)
FromIncome(m) == Says(movement[m].from, "ingreso")

\* The three lists of the screen of transactions.
ExpenseList  == {m \in Rows : SqlKind(m) = "EXPENSE" \/ ToExpense(m)}
IncomeList   == {m \in Rows : (SqlKind(m) = "INCOME" \/ FromIncome(m)) /\ SqlKind(m) # "EXPENSE" /\ ~ToExpense(m)}
TransferList == {m \in Rows : SqlKind(m) \notin {"EXPENSE", "INCOME"} /\ ~ToExpense(m) /\ ~FromIncome(m)}
List(kind) == CASE kind = "EXPENSE" -> ExpenseList [] kind = "INCOME" -> IncomeList [] OTHER -> TransferList
\* The order of the unfiltered list, when it is by kind.
KindRank(m) == IF SqlKind(m) = "EXPENSE" \/ ToExpense(m) THEN 0
               ELSE IF SqlKind(m) = "INCOME" \/ FromIncome(m) THEN 1 ELSE 2
\* What each row says it is.
RowSays(m) == IF RowKind(m) = "EXPENSE" \/ ToExpense(m) THEN "EXPENSE"
              ELSE IF RowKind(m) = "INCOME" \/ FromIncome(m) THEN "INCOME" ELSE "TRANSFER"

----------------------------------------------------------------------------
\* The report of concepts

\* The report takes the kind of the concept, removed or not; only a movement without
\* concept is inferred from the names of its accounts, the expense first.
SaysIt(m, word) == \E a \in {movement[m].from, movement[m].to} \ {None} : Account[a].named = word
Tag(m) == IF RowKind(m) # None THEN RowKind(m)
          ELSE IF SaysIt(m, "egreso") THEN "EXPENSE" ELSE IF SaysIt(m, "ingreso") THEN "INCOME" ELSE "TRANSFER"
Tagged == {m \in Rows : Tag(m) # "TRANSFER"}

\* A row of the table by concept keeps the kind of its first movement by date; what has
\* no concept makes one row.
ConceptRows == {movement[m].con : m \in Tagged}
OfRow(c)      == {m \in Tagged : movement[m].con = c}
FirstOf(c)    == {m \in OfRow(c) : \A o \in OfRow(c) : Day[m] <= Day[o]}
KindsOfRow(c) == {Tag(m) : m \in FirstOf(c)}

Total(kind)       == SumOf({m \in Tagged : Tag(m) = kind})
DayTotal(kind, d) == SumOf({m \in Tagged : Tag(m) = kind /\ Day[m] = d})
\* The tabs of the file have the rows of one kind each, `kind' tells which row is whose.
Tab(kind, KindOf) == MapThenSumSet(LAMBDA c : SumOf(OfRow(c)), {c \in ConceptRows : KindOf[c] = kind})

\* The expenses by concept of the summary of closings come from the list of expenses.
ExpensesByConcept == [c \in {movement[m].con : m \in ExpenseList} |-> SumOf({m \in ExpenseList : movement[m].con = c})]
ExpensesTotal     == MapThenSumSet(LAMBDA c : ExpensesByConcept[c], DOMAIN ExpensesByConcept)

----------------------------------------------------------------------------
\* Every movement is in one of the three lists and in no other, it has that list's place
\* when all are sorted by kind, and its row says the kind of the list it is in unless its
\* concept was removed.
ListsPartition ==
    \A m \in Rows :
       LET kinds == {k \in Kinds : m \in List(k)}
           kind  == CHOOSE k \in kinds : TRUE
       IN  /\ Cardinality(kinds) = 1
           /\ KindRank(m) = (CASE kind = "EXPENSE" -> 0 [] kind = "INCOME" -> 1 [] OTHER -> 2)
           /\ SqlKind(m) = RowKind(m) => RowSays(m) = kind

\* The tabs of the file of concepts add up to the totals on its cover, unless what has no
\* concept is of both kinds, and so do the days.
PivotsAddUp ==
    /\ (\A m, o \in OfRow(None) : Tag(m) = Tag(o)) =>
          \A KindOf \in [ConceptRows -> Kinds] :
             (\A c \in ConceptRows : KindOf[c] \in KindsOfRow(c)) =>
                \A k \in {"INCOME", "EXPENSE"} : Tab(k, KindOf) = Total(k)
    /\ \A k \in {"INCOME", "EXPENSE"} : MapThenSumSet(LAMBDA d : DayTotal(k, d), {Day[m] : m \in Movements}) = Total(k)

\* The summary of closings gives as expenses what the report of concepts does, if every
\* movement is filed under a concept of the kind that its accounts say.
SummariesAgree ==
    (\A m \in Rows : RowKind(m) # None /\ SqlKind(m) = RowKind(m) /\ (ToExpense(m) => RowKind(m) = "EXPENSE"))
       => ExpensesTotal = Total("EXPENSE")

\* No two concepts in use have one name, and what is in use is not marked as removed.
NamesTell ==
    /\ \A c, d \in Alive : c # d => concept[c].name # concept[d].name
    /\ \A c \in Alive : ~concept[c].marked

\* When unifications did not overlap with each other nor with the use of their concepts,
\* whatever is filed or configured for them is under a concept that is there, or under one
\* that somebody removed; also when one died midway.
Referred == {movement[m].con : m \in Rows} \cup {payment[p] : p \in Payments}
            \cup {expense[e].con : e \in {x \in Expenses : expense[x] # None}}
            \cup {setting["withdrawal"], setting["dividend"]}
UnifyLeavesNoReference == ~mixed => Referred \subseteq Alive \cup removed \cup {None, 0}

\* A step of a unification of concepts of one kind, or its death, moves no money from one
\* list to another.
OneKind(j) == \A c \in DOMAIN job[j].rows : concept[c].kind = concept[job[j].to].kind
TotalsStand ==
    \A j \in Jobs : (job[j].step \notin {"idle", "repair"} /\ job'[j] # job[j] /\ ~mixed /\ OneKind(j))
       => \A k \in Kinds : SumOf(List(k))' = SumOf(List(k))

=============================================================================
