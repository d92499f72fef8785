\* Two requests at a time on a message and the name of its room, by its author,
\* the owner of the room and a site admin; a reader of up to three messages.
CONSTANTS
    a = a
    b = b
    c = c
    m1 = m1
    q1 = q1
    q2 = q2
    Msgs = {m1}
    Users = {a, b, c}
    Requests = {q1, q2}
    Texts = {t1, t2}
    Name = name
    AuthorOf <- MCAuthorOf
    Owner = b
    RoomAdmins = {b}
    SiteAdmins = {c}
    Ids = {1, 2, 3}
    Mine = {2}
    MaxLimit = 2
    DefaultLimit = 1
    Limits = {2, 3}
    Skew = 1
    MaxClock = 6

SPECIFICATION MCSpec

SYMMETRY Symmetry

\* Every message has been sent and deleted, every reading of the clock taken:
\* the history part may end.
CHECK_DEADLOCK FALSE

INVARIANTS
    AnnouncedWasWritten
    ViewSettles
    PagesOnce
    PagesComplete
    UnreadIsUnseen
