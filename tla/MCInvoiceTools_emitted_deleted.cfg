CONSTANTS
    Calls = {c1, c2}
    Given <- FirstNumbers
    Limit <- Limits
    MaxRows = 1
    MaxAmount = 1
    MaxPaid = 1
    Sums <- SumsDef
    Corrections = {None}
    Issuers = {nif}
    None = None
SPECIFICATION Spec
PROPERTY EmittedNotDeleted
CHECK_DEADLOCK FALSE
