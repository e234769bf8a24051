SPECIFICATION MCSpec
CONSTANTS
    Requests = {r1, r2}
    Together = {"open", "order", "discard", "close"}
    Alone = {"openWithPromo", "guestDiscard", "closeEmpty"}
    BillTogether = {"order", "line", "ticket", "close", "promo"}
    BillAlone = {"open", "patch", "removeReceipt"}
    MainsTogether = {"order", "line", "fire", "close"}
    MainsAlone = {"open", "patch", "ticket"}
    SalonTables = {t1}
    MaxSessions = 2
    MaxSent = 1
    MaxTorn = 1
    Prices = {1}
    TicketFirst = FALSE
    Connections = 3
    None = None
    Agents = {a1, a2}
    Clients = {c1}
    Orders = {1}
    ClaimBatch = 1
    MaxAttempts = 2
    MaxJobs = 2
    MaxCrashes = 1
    MaxResends = 0
    MaxOverruns = 0
    Sectors = {cocina, barra}
INVARIANTS
    OneOpenSessionPerTable
    BillIsPaid
    MainsFiredOnce
    TicketsOnce
PROPERTIES
    RequestsEnd
    OutcomeIsFinal
    EveryJobSettles
CHECK_DEADLOCK FALSE
