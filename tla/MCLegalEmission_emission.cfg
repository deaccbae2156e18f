CONSTANTS
    Emitters = {e1, e2}
    Retriers = {r1, r2}
    Tenants = {t1}
    Series = {1, 2}
    DefaultTenant = t1
    DefaultSeries = 1
    Invs <- ThreeInvoices
    InOrder = TRUE
    Limit = 1
    MaxFaults = 1
    None = None
SPECIFICATION AnsweredSpec
INVARIANTS
    TypeOK
    SeriesAudited
    DeliveredIsHeld
    HeldIsRegistered
PROPERTIES
    ImplementsLog
    OnlyIncidentsChange
    EmissionEnds
    IncidentsDrain
