\* Four requests, two at a time: new and old accounts, races for a handle and an invite,
\* a session that is used while it is ended.
SPECIFICATION Spec
CONSTANTS
    i1 = i1
    i2 = i2
    Requests = {r1, r2, r3, r4}
    Handles = {h1, h2, h3, h4}
    Seeded = {h3, h4}
    Disabled = {h4}
    DevHandle = h1
    Invites = {i1, i2}
    MaxUses <- MCMaxUses
    NoInvite = NoInvite
    NoRequest = NoRequest
    NoHandle = NoHandle
    MaxRunning = 2
    MaxExpiries = 1
INVARIANTS InviteUsesBounded OneInviteForLife NoUseAfterEnd
SYMMETRY RequestSymmetry
CHECK_DEADLOCK FALSE
