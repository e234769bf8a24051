SPECIFICATION Spec
CONSTANTS
    Services = {"wages"}
    MaxSlips = 0
    MaxEdits = 0
    None = None
INVARIANTS
    ConvertedOnce
CHECK_DEADLOCK FALSE
