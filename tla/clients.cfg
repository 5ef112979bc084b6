\* Four prompts stored at once; four registry requests, three of them overlapping; four
\* calls of a tab that two members use, a text that cannot be published, one trouble.
SPECIFICATION Spec
CONSTANTS
    Edits = {e1, e2, e3, e4}
    Calls = {c1, c2, c3, c4}
    Seed = Seed
    NoVersion = NoVersion
    States = {"active", "shadow", "deprecated"}
    DefaultState = "active"
    MaxCalls = 3
    MaxClicks = 4
    Members = {m, n}
    Texts = {x, y}
    Keyable = {x}
    Nobody = Nobody
    MaxTroubles = 1
INVARIANTS PromptsInOrder ServiceWellDefined PublishedOnce StoreFollowsSession
CHECK_DEADLOCK FALSE
