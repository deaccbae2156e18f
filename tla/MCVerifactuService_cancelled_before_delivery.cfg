CONSTANTS
    Callers = {c1}
    Workers = {w1}
    Tenants = {default}
    DefaultTenant = default
    Invoices = {f1}
    Answers = {"ACEPTADO", "INCIDENCIA_RED"}
    MaxRetries = 1
    MaxAttempts = 1
    MaxFaults = 0
    None = None
SPECIFICATION Spec
INVARIANT AcceptedIsHeld
