SPECIFICATION Spec
CONSTANTS
    Closings = {1}
    PendingIds = {1}
    Expenses = {}
    People = {ana}
    ana = ana
    Requests = {r1}
    Ops = {"pick"}
    Alone = {}
    Figures <- Counted
    Edits <- NoEdits
    Spent = {1}
    Voidable = {}
    NoOne = NoOne
    NoRow = NoRow
INVARIANTS
    SourcesStayCredited
CHECK_DEADLOCK FALSE
