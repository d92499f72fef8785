SPECIFICATION ViewSpec
CONSTANTS
    u0 = u0
    u1 = u1
    r1 = r1
    Rooms = {r1}
    Subs = {s1}
    Clients = {c1, c2}
    Messages = {m1}
    NoSub = NoSub
    NoRoom = NoRoom
    NoUser = NoUser
    RoomType <- VoiceRoomTypes
    OwnerOf <- NobodysRooms
    Users <- OwnUsers
    UserOf <- OwnUserOf
    Kinds = {"voice_join", "voice_leave", "voice_signal", "unknown"}
    Env = {}
    RegisterCap = 1
    UnregisterCap = 1
    IncomingCap = 1
    BroadcastCap = 1
    SendCap = 2
    FeedCap = 1
SYMMETRY Symmetry
INVARIANTS
    VoiceViewConverges
CONSTRAINT NobodyLagged
CHECK_DEADLOCK FALSE
