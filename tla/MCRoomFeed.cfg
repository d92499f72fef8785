SPECIFICATION FairSpec
CONSTANTS
    Rooms = {r1, r2}
    Subs = {s1, s2, s3}
    Messages = {m1}
    NoSub = NoSub
    NoRoom = NoRoom
    FeedCap = 1
INVARIANTS
    TableLive
    FeedOrPending
PROPERTIES
    EventuallyFed
    ClosedFeedsEnd
