CONSTANTS
    Ids = {n1, n2, n3}
    FirstAdmin = n1
    Updates = {q1, q2}
    Keep = Keep
    Services = {n1, n2, n3}
    FirstLive = {}
    Requests = {q1, q2}
    MaxDeletions = 2
    NoService = NoService
SPECIFICATION RegistriesSpec
INVARIANTS SearchIsRight AcyclicUnlessRaced AdminUnlessRaced
SYMMETRY NameSymmetry
CHECK_DEADLOCK FALSE
