SPECIFICATION MCSpec
CONSTANTS
    Scenes = {"resync"}
    Settlers = {b1}
    Savers = {u1}
    Requests = {r1}
    Together = {"create", "update", "switch", "look", "lock", "remove"}
    Alone = {"open", "change", "unlock"}
    Slots = {s1, s2}
    MaxClosings = 2
    MaxEnded = 1
    None = None
    Shops = {"s1", "s2"}
    Managed = {"s1"}
    MaxEdits = 2
    Unset = Unset
INVARIANT ResyncIdempotent
CHECK_DEADLOCK FALSE
