CONSTANTS
    d1 = d1
    d2 = d2
    d4 = d4
    c1 = c1
    c2 = c2
    e1 = e1
    t1 = t1
    None = None
    Deliveries = {d1, d2, d4}
    Events = {e1, t1}
    TestEvents = {t1}
    ChannelOrder <- MCChannelOrder
    ChannelOf <- MCChannelOf
    EventOf <- MCEventOf
    Wanted <- MCWanted
    FirstChannels = {c1}
    MayBecome <- MCMayBecome
    Retries = {r1}
    QueueSize = 2
    MaxAttempts = 2
    RestoreLimit = 1
    DatabaseFails = TRUE
    MaxRestarts = 1
SPECIFICATION MCFairSpec
INVARIANTS DispatcherInv UnsettledIsOwned
PROPERTIES DeliveredIsKept DeliveriesSettle
CHECK_DEADLOCK FALSE
