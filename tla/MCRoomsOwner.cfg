SPECIFICATION Spec
CONSTANTS
    owner = owner
    RoomIds = {r1}
    Users = {owner, a, b}
    Requests = {q1, q2}
    Types = {"public"}
    OwnerOf <- OwnedByOwner
    Ops = {"create", "ws_join"}
    Invitees = {a, b}
    MaxDeletions = 0
    Failures = FALSE
INVARIANT OwnerHasOwnerRole
CHECK_DEADLOCK FALSE
