SPECIFICATION Spec
CONSTANTS
    u0 = u0
    u1 = u1
    r1 = r1
    Rooms = {r1, r2}
    Subs = {s1}
    Clients = {c1}
    Messages = {m1}
    NoSub = NoSub
    NoRoom = NoRoom
    NoUser = NoUser
    RoomType <- MixedRooms
    OwnerOf <- NobodysRooms
    Users <- OwnUsers
    UserOf <- OwnUserOf
    Kinds = {"join_room", "leave_room", "chat_message", "invalid"}
    Env = {"fault", "members", "delete", "deaf", "http", "kill"}
    RegisterCap = 1
    UnregisterCap = 1
    IncomingCap = 1
    BroadcastCap = 1
    SendCap = 1
    FeedCap = 1
PROPERTIES
    AnswersMatchRegistry
    EntryIsAllowed
CHECK_DEADLOCK FALSE
