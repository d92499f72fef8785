\* Two users, one of them the demo user; the access token lives for two steps of
\* the clock, the demo token for three.  One address, its bucket of two tokens.
CONSTANTS
    Users = {a, b}
    Tags = {t1, t2}
    Requests = {q1, q2}
    Demo = b
    AccessLife = 2
    DemoLife = 3
    RefreshLife = 4
    Keys = {k}
    Capacity = 2
    RefillPer = 3
    IdleLimit = 6
    CleanupEvery = 5
    Horizon = 13

SPECIFICATION MCSpec

SYMMETRY Symmetry

INVARIANTS
    AdminClaimExpires
    DeletedUserExpires
    WindowBound
    RefusedOnlyWhenBusy

PROPERTIES
    PanelInRecentHands
