SPECIFICATION Spec
CONSTANTS
    owner = owner
    RoomIds = {r1}
    Users = {owner, a, b}
    Requests = {q1, q2}
    Types = {"private", "public"}
    OwnerOf <- OwnedByOwner
    Ops = {"create", "delete", "invite", "accept", "decline", "set_role", "kick", "ws_join"}
    Invitees = {a, b}
    MaxDeletions = 1
    Failures = TRUE
SYMMETRY Symmetry
INVARIANTS
    PrivateByInvite
    KickIsFinal
    OwnerRoleIsOwners
    AcceptedIsMember
PROPERTIES
    DecidedOnce
    AdminsByOwner
CHECK_DEADLOCK FALSE
