SPECIFICATION MCSpec
CONSTANTS
    Closings = {1, 2}
    PendingIds = {1, 2, 3}
    Expenses = {}
    People = {ana}
    ana = ana
    Requests = {r1, r2}
    Ops = {"update", "remove", "resync", "unlock", "pick"}
    Alone = {"resync", "unlock"}
    Figures <- Counted
    Edits <- EditAll
    Spent = {1}
    Voidable = {}
    NoOne = NoOne
    NoRow = NoRow
    Receipts = {e1, e2}
    Voided = {e1}
    Clients = {r1, r2}
    Agents = {a1, a2}
    Orders = {1}
    Sectors = {cocina}
    ClaimBatch = 1
    MaxAttempts = 2
    MaxJobs = 2
    MaxCrashes = 0
    MaxResends = 1
    MaxOverruns = 1
CONSTRAINT OneByOne
INVARIANTS
    OfferAndBookFollow
    MCExpenseChargedOnce
    QueueMatchesPaper
PROPERTIES
    PickupDebitsWhatItTakes
SYMMETRY Symmetry
CHECK_DEADLOCK FALSE
