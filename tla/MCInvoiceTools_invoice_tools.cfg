CONSTANTS
    Calls = {c1, c2}
    Given <- FirstNumbers
    Limit <- Limits
    MaxRows = 2
    MaxAmount = 1
    MaxPaid = 1
    Sums <- SumsDef
    Corrections = {None}
    Issuers = {nif}
    None = None
SPECIFICATION Spec
SYMMETRY CallsAlike
INVARIANTS
    TypeOK
    IssuedIsRegistered
    RegisteredOnce
    PostedOnce
    CollectedIsPaid
    IssuedIsBooked
CHECK_DEADLOCK FALSE
