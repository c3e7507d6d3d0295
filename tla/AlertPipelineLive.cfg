CONSTANTS
    a1 = a1
    a2 = a2
    a3 = a3
    k1 = k1
    k2 = k2
    h1 = h1
    None = None
    Alerts = {a1, a3}
    Incidents = {i1}
    Keys = {k1, k2}
    Hosts = {h1}
    KeyOf <- MCKeyOf
    HostOf <- MCHostOf
    RuleKeys = {k1}
    SyntheticKeys = {}
    DeletableHosts = {}
    DeletableRules = {}
    AlertQueueSize = 4
    IncidentQueueSize = 3
    AckableAlerts = {}
    AckThreads = TRUE
    WebhooksOverflow = FALSE
    MaxRestarts = 0
SPECIFICATION FairSpec
INVARIANTS ResolvedIffQuiet
PROPERTIES TransitionsBecomeDurable
CHECK_DEADLOCK FALSE
