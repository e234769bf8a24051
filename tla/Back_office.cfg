SPECIFICATION MCSpec
CONSTANTS
    Scenes = {"ordering", "boot", "levels", "members", "ledger", "days", "sales", "catalog", "salon", "street", "inbox", "register", "resync", "rows"}
    Settlers = {b1, b2}
    Savers = {u1, u2}
    Requests = {r1, r2}
    Together = {"create", "update", "switch", "look", "lock", "remove"}
    Alone = {"open", "change", "unlock"}
    Slots = {s1, s2}
    MaxClosings = 2
    MaxEnded = 1
    None = None
    Shops = {"s1", "s2"}
    Managed = {"s1"}
    MaxEdits = 2
    Unset = Unset
INVARIANTS
    OrderingAgrees
    MembersInOrder
    TakingsTell
    RightsAndInbox
    MCBootHeals
    AnnouncedOnce
    MCLedgerConverges
PROPERTIES
    StepsTell
SYMMETRY Symmetry
CHECK_DEADLOCK FALSE
