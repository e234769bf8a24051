SPECIFICATION FairSpec
CONSTANTS
    Closings = {1, 2}
    PendingIds = {1, 2, 3}
    Expenses = {}
    People = {ana}
    ana = ana
    Requests = {r1, r2}
    Ops = {"update", "remove", "resync", "unlock", "pick"}
    Alone = {}
    Figures <- Counted
    Edits <- EditAll
    Spent = {1}
    Voidable = {}
    NoOne = NoOne
    NoRow = NoRow
INVARIANTS
    TypeOK
    CashOfferedOnce
    PickupNotRepeated
PROPERTIES
    PickedIsFinal
    RequestsEnd
CHECK_DEADLOCK FALSE
