\* Two requests at once, as when a timed out activity is retried.
SPECIFICATION Spec
CONSTANTS
    Agents = {a1, a2}
    Cohorts = {c1}
    NoCohort = NoCohort
    a1 = a1
    a2 = a2
    c1 = c1
    Requests = {r1, r2}
    r1 = r1
    r2 = r2
    Passes <- MCPasses
    AgentCap <- MCAgentCap
    CohortCap = 6
    TextCosts = {3}
    FlatCost = 2
    FallbackCost = 1
    MaxRunning = 2
    MaxDay = 2
    MaxMoves = 0
INVARIANT DailyCapHeld
SYMMETRY RequestSymmetry
CHECK_DEADLOCK FALSE
