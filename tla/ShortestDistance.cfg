SPECIFICATION Spec
CONSTANTS
    Machines <- SearchedMachines
    Disciplines = {"FIFO", "LIFO", "SHORTEST_FIRST", "STATE_ORDER", "TOP_ORDER", "AUTO", "A_STAR"}
    MaxCalls = 2
INVARIANTS
    DistancesRight
    QueueMatchesFlags
    ShortestPathFound
    VisitsRight
PROPERTIES
    ImplementsRelaxation
    CallsEnd
CHECK_DEADLOCK FALSE
