CONSTANTS
    expense = expense
    wrong = wrong
    sale = sale
    Threads = {t1, t2}
    Proposals = {expense, wrong}
    Movements = {sale}
    Document <- DocumentDef
    LastYear = 2
    Quota = 1
    Rates <- RatesDef
    MaxApprovals = 2
    MaxTorn = 1
    None = None
SPECIFICATION Spec
INVARIANTS
    TypeOK
    Correlative
    DoubleEntry
    ApprovedIsBooked
    BookedIsInvoiced
    BookedOnceButFailures
PROPERTY
    ClosingCarriesOver
CHECK_DEADLOCK FALSE
