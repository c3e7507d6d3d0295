CONSTANTS
    a1 = a1
    a2 = a2
    a3 = a3
    k1 = k1
    k2 = k2
    h1 = h1
    None = None
    Alerts = {a1, a2}
    Incidents = {i1, i2}
    Keys = {k1}
    Hosts = {h1}
    KeyOf <- MCKeyOf
    HostOf <- MCHostOf
    RuleKeys = {k1}
    SyntheticKeys = {}
    DeletableHosts = {h1}
    DeletableRules = {k1}
    AlertQueueSize = 2
    IncidentQueueSize = 2
    AckableAlerts = {a1}
    AckThreads = FALSE
    WebhooksOverflow = TRUE
    MaxRestarts = 1
SPECIFICATION Spec
INVARIANTS TypeOK QueuesConverge TablesAreConsistent RowsNeverAhead
PROPERTIES RefinesLedger IncidentRowsStayFinal ShutdownKeepsAll
SYMMETRY IncidentSymmetry
CHECK_DEADLOCK FALSE
