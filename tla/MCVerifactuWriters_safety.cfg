CONSTANTS
    Callers = {c1}
    Workers = {w1}
    Tenants = {t1}
    DefaultTenant = t1
    Invoices <- MCInvoices
    Answers = {"ACEPTADO", "INCIDENCIA_RED"}
    MaxRetries = 1
    MaxAttempts = 1
    MaxFaults = 0
    None = None
    Emitters = {e1}
    Retriers = {r1}
    Series = {1}
    DefaultSeries = 1
    InOrder = FALSE
    Limit = 1
SPECIFICATION WritersSpec
INVARIANTS
    NumbersUnique
PROPERTIES
    RowsKept
