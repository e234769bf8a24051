------------------------------ MODULE MCOffice ------------------------------
(***************************************************************************)
(* The components of the back office, each in a scene of its own: settlements,*)
(* partner splits, accounts, tips, shifts, expenses charged to cash, backups.   *)
(* The settlements are those of the configuration: batches of rows of two        *)
(* closings that are picked up and removed meanwhile; what saves rows as they    *)
(* were loaded (editing, unlocking, resynchronising) while nothing else runs.    *)
(***************************************************************************)
EXTENDS Settlement, Tips, Accounts, CashAllocation, FiniteSetsExt, TLC

CONSTANTS
    Scenes        \* the scenes to play

VARIABLES
    scene,
    balance, promised, ownership, holder, dividing, earned, lowest, settled,
    shifts, now,
    items, expenses,
    db, file, steps

\* Three accounts: two partners who own a third and two thirds, and a channel.
Split == INSTANCE PartnerSplit WITH
    Partners <- <<"ana", "beto">>, Channels <- <<"pos">>, Earnings <- {1, 4}, MaxEarned <- 2,
    Leaves <- {0, 1}, Amounts <- {3}, Modes <- {"skip", "movement"}, MaxPayments <- 2,
    Shares <- {[x \in {"ana", "beto"} |-> IF x = "ana" THEN 33 ELSE 67]}
\* One division at a time among partners with a half each, written as payments too.
Promises == INSTANCE PartnerSplit WITH
    Requests <- {CHOOSE p \in Requests : TRUE},
    Partners <- <<"ana", "beto">>, Channels <- <<"pos">>, Earnings <- {4}, MaxEarned <- 1,
    Leaves <- {0}, Amounts <- {3}, Modes <- {"skip", "movement", "payment"}, MaxPayments <- 2,
    Shares <- {[x \in {"ana", "beto"} |-> 50]}

\* The sources, while their accounts are removed; the accounts themselves are those of the cfg.
Origins == INSTANCE Accounts WITH
    OneAtATime <- {"create", "remove", "list", "source"}, AccountKinds <- {"partner"}, Users <- {}, Methods <- {1}, MaxMoney <- 0

Clock == INSTANCE Shifts WITH DayLength <- 4, Week <- 2

\* A dump, a reset or a removal, and the restore of what was dumped.
Safe == INSTANCE ShopBackup WITH
    Selections <- {{m} : m \in {"catalog", "staff", "closings", "stock", "tips", "movements"}} \cup
                  {{"paymentsSuppliers", "paymentsServices", "paymentsEmployees"}},
    MaxSteps <- 2

splitVars    == <<balance, promised, ownership, holder, dividing, earned, lowest, settled>>
shiftVars    == <<shifts, now>>
fifoVars     == <<items, expenses>>
backupVars   == <<db, file, steps>>
officeVars   == <<scene, vars, splitVars, accountVars, tipVars, shiftVars, fifoVars, backupVars>>

-----------------------------------------------------------------------------
\* Every history of up to three withdrawals and two expenses of two days, in any order
\* of registration, and what Allocation makes of it.
FifoDays     == {1, 2}
FifoAmounts  == {1, 2}
MaxItems     == 3
MaxExpenses  == 2

Registered == Cardinality(items) + Cardinality(expenses)

RegisterItem(d, amount) ==
    /\ Cardinality(items) < MaxItems
    /\ items' = items \cup {[id |-> Cardinality(items) + 1, day |-> d, at |-> Registered, amount |-> amount]}
    /\ UNCHANGED expenses

RegisterExpense(amount) ==
    /\ Cardinality(expenses) < MaxExpenses
    /\ expenses' = expenses \cup {[id |-> Cardinality(expenses) + 1, at |-> Registered, amount |-> amount]}
    /\ UNCHANGED items

FifoNext ==
    \/ \E d \in FifoDays, amount \in FifoAmounts : RegisterItem(d, amount)
    \/ \E amount \in FifoAmounts : RegisterExpense(amount)

Result           == Allocation(items, expenses)
ChargedTo(x, es) == MapThenSumSet(LAMBDA e : Result.charged[x.id][e.id], es)
PaidOf(e)        == MapThenSumSet(LAMBDA x : Result.charged[x.id][e.id], items)
-----------------------------------------------------------------------------
MCInit ==
    /\ scene \in Scenes
    /\ Init
    /\ Split!Init /\ AccountsInit /\ DayInit /\ Clock!Init /\ items = {} /\ expenses = {}
    /\ IF scene = "backup" THEN Safe!Init ELSE db = {} /\ file = None /\ steps = 0

MCNext ==
    /\ UNCHANGED scene
    /\ \/ scene = "batches" /\ Next /\ UNCHANGED <<splitVars, accountVars, tipVars, shiftVars, fifoVars, backupVars>>
       \/ scene = "split" /\ Split!Next /\ UNCHANGED <<vars, accountVars, tipVars, shiftVars, fifoVars, backupVars>>
       \/ scene = "promises" /\ Promises!Next /\ UNCHANGED <<vars, accountVars, tipVars, shiftVars, fifoVars, backupVars>>
       \/ scene = "accounts" /\ AccountsNext /\ UNCHANGED <<vars, splitVars, tipVars, shiftVars, fifoVars, backupVars>>
       \/ scene = "sources" /\ Origins!AccountsNext /\ UNCHANGED <<vars, splitVars, tipVars, shiftVars, fifoVars, backupVars>>
       \/ scene = "tips" /\ DayNext /\ UNCHANGED <<vars, splitVars, accountVars, shiftVars, fifoVars, backupVars>>
       \/ scene = "shifts" /\ Clock!Next /\ UNCHANGED <<vars, splitVars, accountVars, tipVars, fifoVars, backupVars>>
       \/ scene = "allocation" /\ FifoNext /\ UNCHANGED <<vars, splitVars, accountVars, tipVars, shiftVars, backupVars>>
       \/ scene = "backup" /\ Safe!Next /\ UNCHANGED <<vars, splitVars, accountVars, tipVars, shiftVars, fifoVars>>

MCSpec == MCInit /\ [][MCNext]_officeVars

Symmetry == Permutations(Requests) \cup Permutations(Employees)

\* Two divisions do not take the same money, and what was divided whole is settled.
DivisionSettles ==
    /\ scene = "split" => Split!NothingTakenTwice
    /\ scene \in {"split", "promises"} => Split!DividedIsSettled
\* Money is moved, not made: an item loses exactly what is charged to it and never
\* more than it has, an expense charges no more than its amount.
AllocationConserves ==
    /\ \A x \in items : /\ Result.remaining[x.id] = x.amount - ChargedTo(x, expenses)
                        /\ Result.remaining[x.id] >= 0
    /\ \A e \in expenses : PaidOf(e) <= e.amount

\* "el gasto se imputa al retiro mas viejo que ya existia cuando se registro"
\* (computePendingView): cash is not charged with what was spent before it was there,
\* and while an older eligible withdrawal has cash left after e, e is fully paid and
\* charges nothing to a younger one.
AllocationIsFifo ==
    \A e \in expenses, x \in items :
        /\ x.at > e.at => Result.charged[x.id][e.id] = 0
        /\ LET soFar == {d \in expenses : d.at <= e.at}
           IN  x.at <= e.at /\ ChargedTo(x, soFar) < x.amount =>
                 /\ PaidOf(e) = e.amount
                 /\ \A y \in items : y # x /\ ByDayThenAge(x, y) => Result.charged[y.id][e.id] = 0

\* An instant belongs to one shift and the end of each is seen; expenses of the drawer are
\* charged whole, to the oldest cash first.
AlgorithmsRight ==
    /\ scene = "shifts" => Clock!OneOwner /\ Clock!CurrentOwns /\ Clock!PreviousUndoesNext /\ Clock!EndIsSeen
    /\ scene = "allocation" => AllocationConserves /\ AllocationIsFifo
\* A complete dump restores the rows and references of a shop that has nothing half removed,
\* and a reset is refused only for a row that it would leave.
RestoreAndReset == scene = "backup" => Safe!CompleteRestore /\ Safe!ResetInOrder
=============================================================================
