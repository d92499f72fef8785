------------------------------ MODULE Messages ------------------------------
(***************************************************************************)
(* The messages and the name of one room: internal/app/message_service.go, *)
(* RoomService.Rename and the handlers that call them.                     *)
(*                                                                         *)
(* A request reads the row, decides, writes it with a statement of its own *)
(* and then publishes an event for the clients of the room.  Any number of *)
(* requests, on any pod, interleave between these steps; what a pod        *)
(* publishes reaches all the clients in the order of publication (RoomFeed *)
(* says when), so one `view` stands for every client that stays connected. *)
(***************************************************************************)
EXTENDS Naturals, FiniteSets

CONSTANTS
    Msgs, Users, Requests, Texts,
    Name,           \* the name of the room, renamed as a message is edited
    AuthorOf,       \* Msgs -> Users: messages.user_id
    Owner,          \* rooms.owner_id
    RoomAdmins,     \* users with the role owner or admin in the room
    SiteAdmins      \* users whose token says is_admin

Things == Msgs \cup {Name}
Operations == {"send", "edit", "delete", "rename", "admin_rename"}
None == "none"
Gone == "gone"

ASSUME MessagesAssumption ==
    /\ Name \notin Msgs /\ {None, Gone} \cap Texts = {}
    /\ AuthorOf \in [Msgs -> Users]
    /\ Owner \in Users /\ RoomAdmins \subseteq Users /\ SiteAdmins \subseteq Users

VARIABLES
    users,      \* the rows of users
    row,        \* messages.content and rooms.name; None before, Gone after
    view,       \* what the clients show, None when they show nothing
    req,        \* what each request is doing
    written,    \* the texts each row has had (a history variable)
    unsettled   \* rows with two changes in flight at once, or with a change that is
                \* announced to nobody (a history variable)

messagesVars == <<users, row, view, req, written, unsettled>>

Idle == [op |-> "idle"]
Request == [op : Operations, thing : Things, by : Users, text : Texts,
            next : {"read", "role", "write", "publish"}]

MessagesTypeOK ==
    /\ users \subseteq Users
    /\ row \in [Things -> Texts \cup {None, Gone}]
    /\ view \in [Things -> Texts \cup {None}]
    /\ req \in [Requests -> Request \cup {Idle}]
    /\ written \in [Things -> SUBSET Texts]
    /\ unsettled \subseteq Things

MessagesInit ==
    /\ users = Users
    /\ \E t \in Texts :
        /\ row = [x \in Things |-> IF x = Name THEN t ELSE None]
        /\ view = row
        /\ written = [x \in Things |-> {row[x]} \ {None}]
    /\ req = [q \in Requests |-> Idle]
    /\ unsettled = {}

-----------------------------------------------------------------------------
(* Statements and events. *)

Exists(x) == row[x] \in Texts
At(q, op, next) == req[q] # Idle /\ req[q].op = op /\ req[q].next = next
Continue(q, next) == req' = [req EXCEPT ![q].next = next]
Finish(q) == req' = [req EXCEPT ![q] = Idle]

\* Another request has changed row x and not announced it yet.
InFlight(x, q) == \E p \in Requests \ {q} :
    req[p] # Idle /\ req[p].thing = x /\ req[p].next = "publish"

\* A request's statement changes row x.
Write(q, x, new) ==
    /\ row' = [row EXCEPT ![x] = new]
    /\ written' = [written EXCEPT ![x] = @ \cup ({new} \cap Texts)]
    /\ unsettled' = IF InFlight(x, q) THEN unsettled \cup {x} ELSE unsettled

\* A handler has parsed a request.  Ids of messages are known from the history
\* as soon as the row is there; a message is sent under a fresh id.
Begin(q, op, x, by, text) ==
    /\ req[q] = Idle
    /\ (x = Name) = (op \in {"rename", "admin_rename"})
    /\ op = "send" => /\ row[x] = None /\ by = AuthorOf[x]
                      /\ \A p \in Requests : req[p] # Idle => req[p].thing # x
    /\ op # "send" => row[x] # None
    /\ op = "admin_rename" => by \in SiteAdmins
    /\ req' = [req EXCEPT ![q] = [op |-> op, thing |-> x, by |-> by, text |-> text,
                                  next |-> IF op \in {"send", "admin_rename"}
                                           THEN "write" ELSE "read"]]
    /\ UNCHANGED <<users, row, view, written, unsettled>>

\* The request is refused, a statement fails or the client goes away.  What has
\* been written and not published stays unannounced: errors of the publication
\* are ignored.
Aborted(q) ==
    /\ req[q] # Idle
    /\ unsettled' = IF req[q].next = "publish" THEN unsettled \cup {req[q].thing} ELSE unsettled
    /\ Finish(q)
    /\ UNCHANGED <<users, row, view, written>>

\* INSERT INTO messages; the foreign keys refuse it when the room or the author
\* is gone.
Send(q) ==
    /\ At(q, "send", "write")
    /\ Exists(Name) /\ req[q].by \in users
    /\ Write(q, req[q].thing, req[q].text)
    /\ Continue(q, "publish")
    /\ UNCHANGED <<users, view>>

\* Edit: only the author.
EditRead(q) ==
    /\ At(q, "edit", "read")
    /\ Exists(req[q].thing) /\ req[q].by = AuthorOf[req[q].thing]
    /\ Continue(q, "write")
    /\ UNCHANGED <<users, row, view, written, unsettled>>

\* Rename: the owner of the room or a site admin.
RenameRead(q) ==
    /\ At(q, "rename", "read")
    /\ Exists(Name) /\ req[q].by \in SiteAdmins \cup {Owner}
    /\ Continue(q, "write")
    /\ UNCHANGED <<users, row, view, written, unsettled>>

\* Mutant: an UPDATE that finds no row is a success.
UpdateAnyway(q) ==
    /\ At(q, "edit", "write") \/ At(q, "rename", "write")
    /\ IF Exists(req[q].thing) THEN Write(q, req[q].thing, req[q].text)
                               ELSE UNCHANGED <<row, written, unsettled>>
    /\ Continue(q, "publish")
    /\ UNCHANGED <<users, view>>

\* UPDATE messages SET content, UPDATE rooms SET name: no row is an error.
Update(q) ==
    /\ At(q, "edit", "write") \/ At(q, "rename", "write")
    /\ Exists(req[q].thing)
    /\ Write(q, req[q].thing, req[q].text)
    /\ Continue(q, "publish")
    /\ UNCHANGED <<users, view>>

\* The author and site admins delete; others have their role looked up.
DeleteRead(q) ==
    /\ At(q, "delete", "read")
    /\ Exists(req[q].thing)
    /\ Continue(q, IF req[q].by \in SiteAdmins \cup {AuthorOf[req[q].thing]} THEN "write" ELSE "role")
    /\ UNCHANGED <<users, row, view, written, unsettled>>

DeleteRole(q) ==
    /\ At(q, "delete", "role")
    /\ req[q].by \in RoomAdmins \cap users
    /\ Continue(q, "write")
    /\ UNCHANGED <<users, row, view, written, unsettled>>

\* DELETE FROM messages: a success when the row is already gone.
Delete(q) ==
    /\ At(q, "delete", "write")
    /\ Write(q, req[q].thing, Gone)
    /\ Continue(q, "publish")
    /\ UNCHANGED <<users, view>>

\* The admin panel renames a room with a bare UPDATE and tells nobody.
AdminRename(q) ==
    /\ At(q, "admin_rename", "write")
    /\ IF Exists(Name)
       THEN /\ Write(q, Name, req[q].text)
            /\ unsettled' = unsettled \cup {Name}
       ELSE UNCHANGED <<row, written, unsettled>>
    /\ Finish(q)
    /\ UNCHANGED <<users, view>>

\* Rows go that nobody has asked for by their id, and nothing is published.
Cascade(S) ==
    LET there == {x \in S : Exists(x)}
    IN  /\ row' = [x \in Things |-> IF x \in there THEN Gone ELSE row[x]]
        /\ unsettled' = unsettled \cup there
        /\ UNCHANGED <<view, req, written>>

\* DELETE FROM rooms: the messages go with the room.
DeleteRoom ==
    /\ Exists(Name)
    /\ Cascade(Things)
    /\ UNCHANGED users

\* DELETE FROM users: the messages of the user go along, and the room with all
\* its messages when the user owns it.
DeleteUser(u) ==
    /\ users' = users \ {u}
    /\ Cascade(IF u = Owner THEN Things ELSE {x \in Msgs : AuthorOf[x] = u})

\* Mutant: an edit is announced with the content that was read.
PublishedStale(q) ==
    LET x == req[q].thing
    IN CASE req[q].op = "delete" -> None
         [] req[q].op = "edit" -> view[x]
         [] OTHER -> req[q].text

\* What clients show once the event of request q has come: a new text, nothing
\* after message_deleted, and an edit only of a message they show.
Published(q) ==
    LET x == req[q].thing
    IN CASE req[q].op = "delete" -> None
         [] req[q].op = "edit" -> IF view[x] = None THEN None ELSE req[q].text
         [] OTHER -> req[q].text

\* PublishToRoom, with the content of the request.
Publish(q) ==
    /\ req[q] # Idle /\ req[q].next = "publish"
    /\ view' = [view EXCEPT ![req[q].thing] = Published(q)]
    /\ Finish(q)
    /\ UNCHANGED <<users, row, written, unsettled>>

MessagesNext ==
    \/ \E q \in Requests :
        \/ \E op \in Operations, x \in Things, by \in Users, text \in Texts : Begin(q, op, x, by, text)
        \/ Send(q) \/ EditRead(q) \/ RenameRead(q) \/ Update(q)
        \/ DeleteRead(q) \/ DeleteRole(q) \/ Delete(q) \/ AdminRename(q)
        \/ Publish(q) \/ Aborted(q)
    \/ DeleteRoom
    \/ \E u \in users : DeleteUser(u)

MessagesSpec == MessagesInit /\ [][MessagesNext]_messagesVars

-----------------------------------------------------------------------------

\* Clients never show a text that was not saved: an edit or a rename that comes
\* too late, the row being gone by then, is not announced (message_repo.go:99,
\* room_repo.go:168).
AnnouncedWasWritten == \A x \in Things : view[x] # None => view[x] \in written[x]

\* Clients and database agree on every row whose changes did not overlap, were
\* all published and are done (message_handler.go:107, :155, room_handler.go:344).
\* The events carry what each request wrote, in the order of publication; two
\* requests at once may be written in one order and published in the other, and
\* nothing orders them.
ViewSettles ==
    \A x \in Things :
        /\ x \notin unsettled
        /\ \A q \in Requests : req[q] # Idle /\ req[q].thing = x => req[q].next # "publish"
        => view[x] = IF Exists(x) THEN row[x] ELSE None

=============================================================================
