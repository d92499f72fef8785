SPECIFICATION Spec
CONSTANTS
    u0 = u0
    u1 = u1
    r1 = r1
    Rooms = {r1}
    Subs = {s1}
    Clients = {c1, c2}
    Messages = {m1}
    NoSub = NoSub
    NoRoom = NoRoom
    NoUser = NoUser
    RoomType <- PublicRooms
    OwnerOf <- NobodysRooms
    Users <- OwnUsers
    UserOf <- OwnUserOf
    Kinds = {"join_room"}
    Env = {}
    RegisterCap = 2
    UnregisterCap = 2
    IncomingCap = 2
    BroadcastCap = 1
    SendCap = 1
    FeedCap = 1
INVARIANT NoPanic
CHECK_DEADLOCK FALSE
