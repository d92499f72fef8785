SPECIFICATION MCSpec
CONSTANTS
    u0 = u0
    u1 = u1
    r1 = r1
    c1 = c1
    c2 = c2
    s1 = s1
    Rooms = {r1}
    Subs = {s1, s2}
    Clients = {c1, c2}
    Messages = {m1}
    NoSub = NoSub
    NoRoom = NoRoom
    NoUser = NoUser
    RoomType <- PublicRooms
    OwnerOf <- NobodysRooms
    Users <- OwnUsers
    UserOf <- OwnUserOf
    Kinds = {"join_room", "leave_room", "chat_message", "voice_join"}
    Env = {"http", "fault", "kill", "drop"}
    RegisterCap = 1
    UnregisterCap = 1
    IncomingCap = 1
    BroadcastCap = 1
    SendCap = 1
    FeedCap = 1
INVARIANTS
    PersistBeforePublish
PROPERTIES
    ImplementsRoomFeed
    DisconnectIsProcessed
    JoinedIsFed
    FeedReachesMembers
CHECK_DEADLOCK FALSE
