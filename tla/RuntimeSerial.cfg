CONSTANTS
    Callers = {c1}
    MaxStarts = 3
    Checks = {k1}
    Requests = {q1, q2}
    Threshold = 2
    Unknown = Unknown
    MaxRuns = 4
SPECIFICATION BackendSpec
INVARIANTS RuntimeInv RunningIsPersisted StreakMatchesHistory AlertFollowsStreak
PROPERTIES StopIsComplete StopsReturn ResultsArePersisted
