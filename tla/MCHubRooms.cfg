SPECIFICATION Spec
CONSTANTS
    u0 = u0
    u1 = u1
    r1 = r1
    Rooms = {r1}
    Subs = {s1}
    Clients = {c1, c2}
    Messages = {m1}
    NoSub = NoSub
    NoRoom = NoRoom
    NoUser = NoUser
    RoomType <- PublicRooms
    OwnerOf <- NobodysRooms
    Users <- TabUsers
    UserOf <- TabUserOf
    Kinds = {"join_room", "leave_room", "typing", "voice_join"}
    Env = {"drop", "expire", "pods"}
    RegisterCap = 1
    UnregisterCap = 1
    IncomingCap = 1
    BroadcastCap = 1
    SendCap = 1
    FeedCap = 1
SYMMETRY Symmetry
INVARIANTS
    TypeOK
    MembershipAgrees
    ClosedIsForgotten
PROPERTIES
    OnlyStaleReplyPanics
    LeaksByOvertaking
    OfflineByOtherTab
CHECK_DEADLOCK FALSE
