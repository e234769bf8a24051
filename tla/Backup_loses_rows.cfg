SPECIFICATION Spec
CONSTANTS
    Selections = {{"catalog"}, {"staff"}, {"closings"}, {"stock"}, {"tips"}, {"movements"}, {"paymentsSuppliers", "paymentsServices", "paymentsEmployees"}}
    MaxSteps = 1
    None = None
INVARIANT BackupIdentical
CHECK_DEADLOCK FALSE
