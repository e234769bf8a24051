SPECIFICATION Spec
CONSTANTS
    Closings = {1}
    Sources = {rappi}
    Versions = 1
    Amounts = {1}
    Settlers = {s1, s2}
    Savers = {u1}
    Ops = {"unlock"}
    Exclusive = {}
    None = None
INVARIANTS
    SettledOnce
CHECK_DEADLOCK FALSE
