\* One request at a time, with failures and midnight.
SPECIFICATION Spec
CONSTANTS
    Agents = {a1, a2}
    Cohorts = {c1}
    NoCohort = NoCohort
    a1 = a1
    a2 = a2
    c1 = c1
    Requests = {r1, r2, r3}
    r1 = r1
    r2 = r2
    r3 = r3
    Passes <- MCSerialPasses
    AgentCap <- MCAgentCap
    CohortCap = 6
    TextCosts = {3}
    FlatCost = 2
    FallbackCost = 1
    MaxRunning = 1
    MaxDay = 2
    MaxMoves = 0
INVARIANTS TypeOK BudgetIsLedger DailyCapHeld CohortCapHeld
SYMMETRY RequestSymmetry
CHECK_DEADLOCK FALSE
