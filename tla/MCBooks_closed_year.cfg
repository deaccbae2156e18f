CONSTANTS
    expense = expense
    wrong = wrong
    sale = sale
    Threads = {t1}
    Proposals = {expense}
    Movements = {sale}
    Document <- DocumentDef
    LastYear = 1
    Quota = 0
    Rates <- RatesDef
    MaxApprovals = 1
    MaxTorn = 0
    None = None
SPECIFICATION Spec
PROPERTY ClosedIsFrozen
CHECK_DEADLOCK FALSE
