CONSTANTS
    Callers = {c1, c2}
    Workers = {w1}
    Tenants = {default}
    DefaultTenant = default
    Invoices = {f1, f2}
    Answers = {"ACEPTADO", "INCIDENCIA_RED"}
    MaxRetries = 1
    MaxAttempts = 2
    MaxFaults = 1
    None = None
SYMMETRY Symmetry
SPECIFICATION Spec
INVARIANTS
    TypeOK
    ChainInv
    SentIsRegistered
    CancelPaired
PROPERTY
    ImplementsLog
