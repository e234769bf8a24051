SPECIFICATION Spec
CONSTANTS
    Requests = {r1, r2}
    Together = {"validate", "pay", "removeExpense"}
    Alone = {"create", "revert", "reject", "cancel", "remove", "update", "read", "spend", "editExpense", "absorb"}
    Debts = {d1}
    MaxPayments = 2
    MaxExpenses = 2
    Amounts = {0, 2}
    None = None
INVARIANTS
    PaidAndSpentMatch
PROPERTIES
    PaymentsKeepBooks
SYMMETRY RequestSymmetry
CHECK_DEADLOCK FALSE
