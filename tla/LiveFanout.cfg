CONSTANTS
    p1 = p1
    p2 = p2
    c1 = c1
    c2 = c2
    Procs = {p1, p2}
    Talkers = {p1}
    QueueSize = 2
    MaxStarts = 2
    MaxFailures = 1
    Alerts = {a1}
    Owner <- OneOwner
    Clients = {c1, c2}
    Home <- TwoHomes
    NoToken = NoToken
SPECIFICATION Spec
INVARIANTS TypeOK LocalInOrder SeesResolution PeersInOrder NeverDeaf
CHECK_DEADLOCK FALSE
