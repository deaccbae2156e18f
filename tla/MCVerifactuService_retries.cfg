CONSTANTS
    Callers = {c1, c2}
    Workers = {w1, w2}
    Tenants = {default}
    DefaultTenant = default
    Invoices = {f1}
    Answers = {"ACEPTADO", "RECHAZADO", "INCIDENCIA_RED"}
    MaxRetries = 2
    MaxAttempts = 2
    MaxFaults = 1
    None = None
SPECIFICATION FairSpec
INVARIANTS
    InFlightIsOpen
    StandingAcceptedIsHeld
PROPERTY
    SettledIsFinal
    WaitingDrains
    RequestsEnd
