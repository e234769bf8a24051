SPECIFICATION MCSpec
CONSTANTS
    Scenes = {"batches", "split", "promises", "accounts", "sources", "tips", "shifts", "allocation", "backup"}
    Requests = {r1, r2}
    Keepers = {k1}
    Overlapped = {}
    OneAtATime = {"create", "update", "deposits", "remove", "resolve"}
    AccountIds = {1, 2}
    AccountKinds = {"partner", "system"}
    Users = {"ana"}
    Methods = {1, 2}
    MaxMoney = 1
    SourceIds = {1, 2, 3}
    Nil = Nil
    Closings = {1, 2}
    Sources = {"rappi"}
    Versions = 2
    Amounts = {1}
    Ops = {"update", "resync", "unlock", "pick", "remove"}
    Exclusive = {"update", "resync", "unlock"}
    Settlers = {b1, b2}
    Savers = {u1, u2}
    Employees = {e1, e2}
    Together = {"upsert", "closing"}
    Alone = {"deliver"}
    Totals = {1, 2}
    Tolerance = 0
    Unset = Unset
    None = None
INVARIANTS
    SettledOnce
    DivisionSettles
    AccountsInOrder
    SharesMakeTotal
    AlgorithmsRight
    RestoreAndReset
SYMMETRY Symmetry
CHECK_DEADLOCK FALSE
