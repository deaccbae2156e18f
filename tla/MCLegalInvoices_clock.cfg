CONSTANTS
    Tenants = {t1}
    Series = {f, r}
    Base = 2
    Width = 2
    MaxRows = 6
    MaxClock = 3
    NewYear = 2
    MaxBack = 1
SPECIFICATION Spec
INVARIANTS
    Correlative
    NextIsFree
    OneYearVerified
PROPERTIES
    ImplementsLog
CHECK_DEADLOCK FALSE
