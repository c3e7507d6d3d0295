CONSTANTS
    NumRules = 2
    Configs <- SomeConfigs
    FirstRows <- SecondNew
    New = New
    Gone = Gone
    Values = {0, 1}
    MaxSamples = 5
    SamplesEdited = 3
    MaxEdits = 2
    Alerts = {a1, a2, a3}
    Ids = {i1, i2, i3}
    Scopes = {s1, s2}
    MaxTime = 3
    Window = 1
SPECIFICATION EnginesSpec
INVARIANTS EngineAgrees RulesAreCurrent IncidentsAreSound
PROPERTIES FiresOnlyWhenDue GroupedUnlessSetBack
SYMMETRY AlertSymmetry
CHECK_DEADLOCK FALSE
