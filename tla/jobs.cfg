\* A workflow of two ticks and two client requests, one failure or time-out.
CONSTANTS
    e1 = e1
    e2 = e2
    a1 = a1
    a2 = a2
    NoRequest = NoRequest
    Experiments <- MCExperiments
    Agents <- MCAgents
    Targets <- MCTargets
    Started = {e2}
    WithModel = {e1}
    Calls = {1, 2, 3}
    Clients = {5, 6}
    Scheduled = e1
    Ticks = 2
    MaxRunning = 2
    MaxTroubles = 1
SPECIFICATION FairSpec
INVARIANTS
    JobsTellTheTruth
    LastTickAgrees
    TicksCounted
    LevelIsHistory
    StateIsHistory
    ResultsAreTicks
PROPERTIES
    WorkflowFinishes
CHECK_DEADLOCK FALSE
