SPECIFICATION Spec
CONSTANTS
    Absent = Absent
    c1 = c1
    c2 = c2
    Calls <- TwoCalls
    Scenarios <- AllScenarios
    Events <- SomeEvents
    Failures <- AllFailures
    MaxEvents = 2
CHECK_DEADLOCK FALSE
INVARIANTS TypeOK CallsArrive ErrorsKeepTheirClass StreamIsFaithful
PROPERTY PreferenceKept
