SPECIFICATION MCSpec
CONSTANTS
    Scenes = {"orders", "stock", "reservations", "reimbursements", "attendance", "payroll", "promos", "concepts", "sales"}
    Requests = {r1, r2}
    Clients = {r1, r2}
    Keys = {k1}
    Orders = {1, 2}
    Quantities = {1}
    InitialStock = 1
    MaxLost = 0
    MaxAdjusted = 0
    MaxRemovers = 1
    Together = {"create", "status"}
    Alone = {"credit", "remove"}
    Parallel = {"public", "accept", "reject", "removePetition"}
    Serial = {"day", "staff", "seat", "removeReservation", "dismiss"}
    Areas = {"INSIDE"}
    Sizes = {1, 2}
    Capacities = {0, 2}
    InsideMax = 2
    MaxBookings = 2
    MaxPetitions = 1
    Unset = Unset
    Callers = {r1, r2}
    AtOnce = {"pay", "cancel", "remove"}
    OneByOne = {"update", "create"}
    MaxClaims = 2
    None = None
INVARIANTS
    StockAccounted
    OrdersOnceAndPaid
    SeatsWithinOffer
    PaidOnce
    TableBillRight
    ReportsTell
PROPERTIES
    StepsStand
SYMMETRY Symmetry
CHECK_DEADLOCK FALSE
