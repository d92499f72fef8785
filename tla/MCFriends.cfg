\* Three users, two calls of GetOrCreateDM at a time, two rooms; two pods that
\* start, crash and start again.
CONSTANTS
    Users = {a, b, c}
    RowIds = {1, 2, 3, 4}
    DmIds = {r1, r2}
    Calls = {q1, q2}
    Pods = {p1, p2}
    MaxRooms = 3

SPECIFICATION MCSpec

SYMMETRY Symmetry

\* All users may be deleted.
CHECK_DEADLOCK FALSE

INVARIANTS
    FriendsByConsent
    DmIsPrivate
    SecondDmOnlyByRace
    SeedsComplete
    RoomTwiceOnlyByOverlap

PROPERTIES
    AcceptedStays
