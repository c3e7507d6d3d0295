CONSTANTS
    a1 = a1
    a2 = a2
    a3 = a3
    k1 = k1
    k2 = k2
    h1 = h1
    None = None
    Alerts = {a1}
    Incidents = {i1, i2}
    Keys = {k1}
    Hosts = {h1}
    KeyOf <- MCKeyOf
    HostOf <- MCHostOf
    RuleKeys = {k1}
    SyntheticKeys = {}
    DeletableHosts = {}
    DeletableRules = {}
    AlertQueueSize = 2
    IncidentQueueSize = 2
    AckableAlerts = {a1}
    AckThreads = TRUE
    WebhooksOverflow = FALSE
    MaxRestarts = 0
SPECIFICATION Spec
INVARIANTS IncidentsConverge
SYMMETRY IncidentSymmetry
CHECK_DEADLOCK FALSE
