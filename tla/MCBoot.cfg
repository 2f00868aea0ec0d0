SPECIFICATION Spec
CONSTANTS
    Layouts <- MCLayouts
    Program <- MCProgram
    Users = {"shell", "editor"}
    BusRates = {100}
    MaxLate = 0
    CountTop = 10000000
    Faults = {0, 6, 8, 13, 14}
    FaultPlans <- MCFaultPlans
CHECK_DEADLOCK FALSE
INVARIANTS
    NeverLost
    EachToItsHandler
    TickIsMillisecond
PROPERTIES
    ContextKept
    TimerGoesOn
