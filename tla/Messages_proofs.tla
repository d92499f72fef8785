--------------------------- MODULE Messages_proofs ---------------------------
(***************************************************************************)
(* What clients show of a room agrees with its rows, for any messages,     *)
(* users and requests at a time; then what a reader is shown of its        *)
(* history, for any messages, page sizes and readings of the clock.        *)
(*                                                                         *)
(* ViewSettles speaks of rows that nobody is changing.  The invariant adds *)
(* what holds between a write and its publication: a row whose changes did *)
(* not overlap is announced by one request at most (OneInFlight), and that *)
(* request carries what the row holds (InFlightAgrees).                    *)
(*                                                                         *)
(* PagesComplete speaks of a listing that has ended.  Progress adds how    *)
(* far one has come: what it has still to bring is below its cursor.       *)
(* Dated says the same of every message, sent or on its way, that          *)
(* UnreadIsUnseen says of the stored ones, by the clock that dates them.   *)
(***************************************************************************)
EXTENDS Messages, History, FiniteSetTheorems, SequenceTheorems, WellFoundedInduction, TLAPS

\* Request q has changed row x and is about to publish it.
Announces(q, x) == req[q] # Idle /\ req[q].thing = x /\ req[q].next = "publish"

RowsWritten == \A x \in Things : Exists(x) => row[x] \in written[x]

TextsWritten ==
    \A q \in Requests, x \in Things :
        Announces(q, x) /\ req[q].op # "delete" => req[q].text \in written[x]

OneInFlight ==
    \A x \in Things \ unsettled : \A p, q \in Requests :
        Announces(p, x) /\ Announces(q, x) => p = q

InFlightAgrees ==
    \A x \in Things \ unsettled : \A q \in Requests : Announces(q, x) =>
        /\ req[q].op = "delete" => row[x] = Gone
        /\ req[q].op # "delete" => row[x] = req[q].text
        /\ req[q].op = "edit" => view[x] # None

MessagesInv ==
    /\ MessagesTypeOK
    /\ RowsWritten /\ TextsWritten /\ AnnouncedWasWritten
    /\ OneInFlight /\ InFlightAgrees /\ ViewSettles

LEMMA NotIdle == ASSUME NEW x \in Request PROVE x # Idle
BY DEF Request, Idle, Operations

LEMMA FinishReq == ASSUME NEW q \in Requests, MessagesTypeOK, Finish(q)
                   PROVE /\ req' \in [Requests -> Request \cup {Idle}]
                         /\ req'[q] = Idle
                         /\ \A p \in Requests \ {q} : req'[p] = req[p]
BY DEF Finish, MessagesTypeOK

LEMMA AtReq == ASSUME NEW q \in Requests, NEW op \in Operations, NEW next,
                      MessagesTypeOK, At(q, op, next)
               PROVE req[q] \in Request /\ req[q].op = op /\ req[q].next = next
BY DEF At, MessagesTypeOK

LEMMA ContinueReq ==
    ASSUME NEW q \in Requests, MessagesTypeOK, req[q] \in Request,
           NEW next \in {"read", "role", "write", "publish"}, Continue(q, next)
    PROVE /\ req' \in [Requests -> Request \cup {Idle}]
          /\ req'[q] \in Request
          /\ req'[q].op = req[q].op /\ req'[q].thing = req[q].thing
          /\ req'[q].text = req[q].text /\ req'[q].next = next
          /\ \A p \in Requests \ {q} : req'[p] = req[p]
BY DEF Continue, MessagesTypeOK, Request

LEMMA BeginReq ==
    ASSUME NEW q \in Requests, NEW op \in Operations, NEW x \in Things, NEW by \in Users,
           NEW text \in Texts, MessagesTypeOK, Begin(q, op, x, by, text)
    PROVE /\ req' \in [Requests -> Request \cup {Idle}]
          /\ req'[q] \in Request
          /\ req'[q].next \in {"read", "write"}
          /\ \A p \in Requests \ {q} : req'[p] = req[p]
BY DEF Begin, MessagesTypeOK, Request

LEMMA TypeFacts == Gone \notin Texts /\ None \notin Texts
BY MessagesAssumption

-----------------------------------------------------------------------------
(* Steps that change no row and announce nothing. *)

LEMMA QuietStep ==
    ASSUME MessagesInv, NEW q \in Requests, ~\E x \in Things : Announces(q, x),
           req' \in [Requests -> Request \cup {Idle}],
           req'[q] = Idle \/ req'[q].next # "publish",
           \A p \in Requests \ {q} : req'[p] = req[p],
           UNCHANGED <<users, row, view, written, unsettled>>
    PROVE MessagesInv'
<1> USE DEF MessagesInv
<1>1. \A p \in Requests, x \in Things :
          /\ Announces(p, x)' <=> Announces(p, x)
          /\ Announces(p, x) => req'[p] = req[p]
    BY DEF Announces
<1>2. MessagesTypeOK'
    BY DEF MessagesTypeOK
<1>3. RowsWritten' /\ AnnouncedWasWritten'
    BY DEF RowsWritten, AnnouncedWasWritten, Exists
<1>4. TextsWritten'
    BY <1>1 DEF TextsWritten
<1>5. OneInFlight'
    BY <1>1 DEF OneInFlight
<1>6. InFlightAgrees'
    BY <1>1 DEF InFlightAgrees
<1>7. ViewSettles'
    BY <1>1 DEF ViewSettles, Exists, Announces
<1> QED BY <1>2, <1>3, <1>4, <1>5, <1>6, <1>7

LEMMA AbortedStep == ASSUME MessagesInv, NEW q \in Requests, Aborted(q) PROVE MessagesInv'
<1> USE DEF MessagesInv
<1>1. /\ req' \in [Requests -> Request \cup {Idle}]
      /\ req'[q] = Idle
      /\ \A p \in Requests \ {q} : req'[p] = req[p]
    BY FinishReq DEF Aborted
<1>2. req[q] \in Request
    BY DEF Aborted, MessagesTypeOK
<1>3. UNCHANGED <<users, row, view, written>> /\ unsettled \subseteq unsettled' /\ unsettled' \subseteq Things
    BY <1>2 DEF Aborted, MessagesTypeOK, Request
<1>4. \A x \in Things \ unsettled' : ~Announces(q, x)
    BY <1>2 DEF Aborted, Announces
<1>5. \A p \in Requests, x \in Things :
          /\ Announces(p, x)' => Announces(p, x) /\ req'[p] = req[p]
          /\ x \notin unsettled' => (Announces(p, x)' <=> Announces(p, x))
    BY <1>1, <1>4 DEF Announces
<1>6. MessagesTypeOK'
    BY <1>1, <1>3 DEF MessagesTypeOK
<1>7. RowsWritten' /\ AnnouncedWasWritten'
    BY <1>3 DEF RowsWritten, AnnouncedWasWritten, Exists
<1>8. TextsWritten'
    BY <1>3, <1>5 DEF TextsWritten
<1>9. OneInFlight'
    BY <1>3, <1>5 DEF OneInFlight
<1>10. InFlightAgrees'
    BY <1>3, <1>5 DEF InFlightAgrees
<1>11. ViewSettles'
    BY <1>3, <1>5 DEF ViewSettles, Exists, Announces
<1> QED BY <1>6, <1>7, <1>8, <1>9, <1>10, <1>11

-----------------------------------------------------------------------------
(* A statement changes a row, and its request is about to publish. *)

LEMMA WriteStep ==
    ASSUME MessagesInv, NEW q \in Requests, req[q] \in Request, req[q].next = "write",
           NEW new \in Texts \cup {Gone}, Write(q, req[q].thing, new), UNCHANGED <<users, view>>,
           Continue(q, "publish"),
           req[q].op = "delete" => new = Gone,
           req[q].op # "delete" => new = req[q].text,
           req[q].op = "edit" => Exists(req[q].thing)
    PROVE MessagesInv'
<1> USE DEF MessagesInv
<1> DEFINE y == req[q].thing
<1>1. /\ req' \in [Requests -> Request \cup {Idle}]
      /\ req'[q] \in Request /\ req'[q] # Idle
      /\ req'[q].op = req[q].op /\ req'[q].thing = y
      /\ req'[q].text = req[q].text /\ req'[q].next = "publish"
      /\ \A p \in Requests \ {q} : req'[p] = req[p]
    BY ContinueReq, NotIdle
<1>2. y \in Things /\ req[q].text \in Texts
    BY DEF Request
<1>3. /\ row' \in [Things -> Texts \cup {None, Gone}]
      /\ row'[y] = new /\ \A x \in Things \ {y} : row'[x] = row[x]
    BY <1>2 DEF Write, MessagesTypeOK
<1>4. /\ written' \in [Things -> SUBSET Texts]
      /\ written'[y] = written[y] \cup ({new} \cap Texts)
      /\ \A x \in Things \ {y} : written'[x] = written[x]
    BY <1>2 DEF Write, MessagesTypeOK
<1>5. /\ unsettled \subseteq unsettled' /\ unsettled' \subseteq Things
      /\ y \notin unsettled' => ~InFlight(y, q)
    BY <1>2 DEF Write, MessagesTypeOK
<1>6. /\ \A p \in Requests \ {q}, x \in Things :
            /\ Announces(p, x)' <=> Announces(p, x)
            /\ req'[p] = req[p]
      /\ \A x \in Things : Announces(q, x)' <=> x = y
      /\ \A x \in Things : ~Announces(q, x)
    BY <1>1, <1>2 DEF Announces
<1>7. y \notin unsettled' => \A p \in Requests \ {q} : ~Announces(p, y)
    BY <1>5 DEF InFlight, Announces
<1>8. MessagesTypeOK'
    BY <1>1, <1>3, <1>4, <1>5 DEF MessagesTypeOK
<1>9. RowsWritten'
    BY <1>2, <1>3, <1>4 DEF RowsWritten, Exists
<1>10. AnnouncedWasWritten'
    BY <1>2, <1>4 DEF AnnouncedWasWritten
<1>11. TextsWritten'
    BY <1>1, <1>2, <1>4, <1>6 DEF TextsWritten
<1>12. OneInFlight'
    BY <1>5, <1>6, <1>7 DEF OneInFlight
<1>13. InFlightAgrees'
    <2> SUFFICES ASSUME NEW x \in Things, x \notin unsettled', NEW p \in Requests, Announces(p, x)'
                 PROVE /\ req'[p].op = "delete" => row'[x] = Gone
                       /\ req'[p].op # "delete" => row'[x] = req'[p].text
                       /\ req'[p].op = "edit" => view[x] # None
        BY DEF InFlightAgrees
    <2>1. CASE p = q
        <3>1. x = y
            BY <2>1, <1>6
        <3>2. ASSUME req[q].op = "edit" PROVE view[y] # None
            <4>1. y \notin unsettled
                BY <3>1, <1>5
            <4>2. \A p1 \in Requests : ~Announces(p1, y)
                BY <3>1, <1>7, <1>6, <1>2
            <4>3. view[y] = row[y]
                BY <4>1, <4>2, <3>2, <1>2 DEF ViewSettles, Announces
            <4> QED BY <4>3, <3>2, TypeFacts DEF Exists
        <3> QED BY <2>1, <3>1, <3>2, <1>1, <1>3
    <2>2. CASE p # q
        <3>1. x # y /\ Announces(p, x) /\ req'[p] = req[p]
            BY <2>2, <1>6, <1>7
        <3> QED BY <3>1, <1>3, <1>5 DEF InFlightAgrees
    <2> QED BY <2>1, <2>2
<1>14. ViewSettles'
    <2> SUFFICES ASSUME NEW x \in Things, x \notin unsettled', \A p \in Requests : ~Announces(p, x)'
                 PROVE view[x] = IF Exists(x)' THEN row'[x] ELSE None
        BY DEF ViewSettles, Announces
    <2>1. x # y /\ \A p \in Requests : ~Announces(p, x)
        BY <1>6
    <2>2. view[x] = IF Exists(x) THEN row[x] ELSE None
        BY <2>1, <1>5 DEF ViewSettles, Announces
    <2> QED BY <2>1, <2>2, <1>3 DEF Exists
<1> QED BY <1>8, <1>9, <1>10, <1>11, <1>12, <1>13, <1>14

\* The admin panel: the name is left unsettled.
LEMMA AdminRenameStep == ASSUME MessagesInv, NEW q \in Requests, AdminRename(q) PROVE MessagesInv'
<1> USE DEF MessagesInv
<1>1. req[q] \in Request /\ req[q].text \in Texts /\ req[q].next = "write"
    BY AtReq DEF AdminRename, Request, Operations
<1>2. /\ req' \in [Requests -> Request \cup {Idle}]
      /\ req'[q] = Idle
      /\ \A p \in Requests \ {q} : req'[p] = req[p]
    BY FinishReq DEF AdminRename
<1>3. \A p \in Requests, x \in Things :
          /\ Announces(p, x)' <=> Announces(p, x)
          /\ Announces(p, x) => req'[p] = req[p]
    BY <1>1, <1>2 DEF Announces
<1>4. CASE ~Exists(Name)
    <2>1. UNCHANGED <<users, row, view, written, unsettled>>
        BY <1>4 DEF AdminRename
    <2> QED BY <2>1, <1>1, <1>2, QuietStep DEF Announces
<1>5. CASE Exists(Name)
    <2>1. /\ row' = [row EXCEPT ![Name] = req[q].text]
          /\ written' = [written EXCEPT ![Name] = @ \cup ({req[q].text} \cap Texts)]
          /\ unsettled' = unsettled \cup {Name} /\ UNCHANGED <<users, view>>
        BY <1>5 DEF AdminRename, Write
    <2>2. Name \in Things
        BY DEF Things
    <2>3. MessagesTypeOK'
        BY <2>1, <2>2, <1>1, <1>2 DEF MessagesTypeOK
    <2>4. RowsWritten' /\ AnnouncedWasWritten'
        BY <2>1, <2>2, <1>1 DEF RowsWritten, AnnouncedWasWritten, Exists, MessagesTypeOK
    <2>5. TextsWritten'
        BY <2>1, <2>2, <1>3 DEF TextsWritten, MessagesTypeOK
    <2>6. OneInFlight'
        BY <2>1, <1>3 DEF OneInFlight
    <2>7. InFlightAgrees'
        BY <2>1, <2>2, <1>3 DEF InFlightAgrees, MessagesTypeOK
    <2>8. ViewSettles'
        BY <2>1, <2>2, <1>3 DEF ViewSettles, Exists, Announces, MessagesTypeOK
    <2> QED BY <2>3, <2>4, <2>5, <2>6, <2>7, <2>8
<1> QED BY <1>4, <1>5

\* Rows that go unasked are left unsettled.
LEMMA CascadeStep ==
    ASSUME MessagesInv, NEW S \in SUBSET Things, Cascade(S), users' \subseteq Users
    PROVE MessagesInv'
<1> USE DEF MessagesInv
<1> DEFINE there == {x \in S : Exists(x)}
<1>1. /\ row' = [x \in Things |-> IF x \in there THEN Gone ELSE row[x]]
      /\ unsettled' = unsettled \cup there
      /\ UNCHANGED <<view, req, written>>
    BY DEF Cascade
<1>2. there \subseteq Things /\ \A x \in Things \ there : row'[x] = row[x]
    BY <1>1
<1>3. \A x \in there : row'[x] = Gone /\ x \in unsettled'
    BY <1>1
<1>4. \A p \in Requests, x \in Things : Announces(p, x)' <=> Announces(p, x)
    BY <1>1 DEF Announces
<1>5. MessagesTypeOK'
    BY <1>1, <1>2 DEF MessagesTypeOK
<1> HIDE DEF there
<1>6. unsettled \subseteq unsettled' /\ UNCHANGED <<view, req, written>>
    BY <1>1
<1>7. RowsWritten' /\ AnnouncedWasWritten' /\ TextsWritten'
    BY <1>2, <1>3, <1>4, <1>6, TypeFacts DEF RowsWritten, AnnouncedWasWritten, TextsWritten, Exists
<1>8. OneInFlight'
    BY <1>4, <1>6 DEF OneInFlight
<1>9. InFlightAgrees'
    BY <1>2, <1>3, <1>4, <1>6 DEF InFlightAgrees
<1>10. ViewSettles'
    BY <1>2, <1>3, <1>4, <1>6 DEF ViewSettles, Exists, Announces
<1> QED BY <1>5, <1>7, <1>8, <1>9, <1>10

LEMMA DeleteRoomStep == ASSUME MessagesInv, DeleteRoom PROVE MessagesInv'
<1>1. Cascade(Things) /\ users' \subseteq Users
    BY DEF DeleteRoom, MessagesInv, MessagesTypeOK
<1> QED BY <1>1, CascadeStep

LEMMA DeleteUserStep == ASSUME MessagesInv, NEW u \in users, DeleteUser(u) PROVE MessagesInv'
<1>1. PICK S \in SUBSET Things : Cascade(S)
    BY DEF DeleteUser, Things
<1>2. users' \subseteq Users
    BY DEF DeleteUser, MessagesInv, MessagesTypeOK
<1> QED BY <1>1, <1>2, CascadeStep

-----------------------------------------------------------------------------

LEMMA PublishStep == ASSUME MessagesInv, NEW q \in Requests, Publish(q) PROVE MessagesInv'
<1> USE DEF MessagesInv
<1> DEFINE y == req[q].thing
<1>1. req[q] \in Request /\ y \in Things /\ req[q].text \in Texts /\ Announces(q, y)
    BY DEF Publish, MessagesTypeOK, Request, Announces
<1>2. /\ req' \in [Requests -> Request \cup {Idle}]
      /\ req'[q] = Idle
      /\ \A p \in Requests \ {q} : req'[p] = req[p]
    BY FinishReq DEF Publish
<1>3. UNCHANGED <<users, row, written, unsettled>>
    BY DEF Publish
<1>4. Published(q) \in {None, req[q].text}
    BY DEF Published
<1>5. /\ view' \in [Things -> Texts \cup {None}]
      /\ view'[y] = Published(q) /\ \A x \in Things \ {y} : view'[x] = view[x]
    BY <1>1, <1>4 DEF Publish, MessagesTypeOK
<1>6. \A p \in Requests, x \in Things :
          Announces(p, x)' <=> p # q /\ Announces(p, x)
    BY <1>2 DEF Announces
<1>7. MessagesTypeOK'
    BY <1>2, <1>3, <1>5 DEF MessagesTypeOK
<1>8. RowsWritten'
    BY <1>3 DEF RowsWritten, Exists
<1>9. TextsWritten'
    BY <1>2, <1>3, <1>6 DEF TextsWritten
<1>10. AnnouncedWasWritten'
    <2>1. Published(q) # None => req[q].op # "delete"
        BY DEF Published
    <2>2. Published(q) # None => req[q].text \in written[y]
        BY <2>1, <1>1 DEF TextsWritten
    <2> QED BY <2>2, <1>3, <1>4, <1>5 DEF AnnouncedWasWritten
<1>11. OneInFlight'
    BY <1>3, <1>6 DEF OneInFlight
<1>12. InFlightAgrees'
    <2> SUFFICES ASSUME NEW x \in Things, x \notin unsettled, NEW p \in Requests, p # q, Announces(p, x)
                 PROVE x # y
        BY <1>2, <1>3, <1>5, <1>6 DEF InFlightAgrees
    <2> QED BY <1>1 DEF OneInFlight
<1>13. ViewSettles'
    <2>1. ASSUME y \notin unsettled PROVE view'[y] = IF Exists(y) THEN row[y] ELSE None
        <3>1. CASE req[q].op = "delete"
            BY <3>1, <2>1, <1>1, <1>5, TypeFacts DEF InFlightAgrees, Published, Exists
        <3>2. CASE req[q].op # "delete"
            <4>1. row[y] = req[q].text
                BY <3>2, <2>1, <1>1 DEF InFlightAgrees
            <4>2. req[q].op = "edit" => view[y] # None
                BY <2>1, <1>1 DEF InFlightAgrees
            <4>3. Published(q) = req[q].text
                BY <3>2, <4>2 DEF Published
            <4> QED BY <4>1, <4>3, <1>1, <1>5 DEF Exists
        <3> QED BY <3>1, <3>2
    <2>2. ASSUME NEW x \in Things, x # y, x \notin unsettled, \A p \in Requests : ~Announces(p, x)'
          PROVE view'[x] = IF Exists(x) THEN row[x] ELSE None
        <3>1. \A p \in Requests : ~Announces(p, x)
            BY <2>2, <1>6 DEF Announces
        <3> QED BY <2>2, <3>1, <1>5 DEF ViewSettles, Announces
    <2> QED BY <2>1, <2>2, <1>3 DEF ViewSettles, Exists, Announces
<1> QED BY <1>7, <1>8, <1>9, <1>10, <1>11, <1>12, <1>13

LEMMA MessagesInvInit == MessagesInit => MessagesInv
<1> SUFFICES ASSUME MessagesInit PROVE MessagesInv
    OBVIOUS
<1>1. \A q \in Requests : req[q] = Idle
    BY DEF MessagesInit
<1>2. PICK t \in Texts :
        /\ row = [x \in Things |-> IF x = Name THEN t ELSE None]
        /\ view = row
        /\ written = [x \in Things |-> {row[x]} \ {None}]
    BY DEF MessagesInit
<1>3. t # None
    BY TypeFacts
<1>4. MessagesTypeOK
    BY <1>2, <1>3 DEF MessagesInit, MessagesTypeOK
<1>5. RowsWritten /\ AnnouncedWasWritten
    BY <1>2, <1>3, TypeFacts DEF RowsWritten, AnnouncedWasWritten, Exists
<1>6. TextsWritten /\ OneInFlight /\ InFlightAgrees
    BY <1>1 DEF TextsWritten, OneInFlight, InFlightAgrees, Announces
<1>7. ViewSettles
    BY <1>2, TypeFacts DEF ViewSettles, Exists
<1> QED BY <1>4, <1>5, <1>6, <1>7 DEF MessagesInv

LEMMA MessagesInvStep == MessagesInv /\ [MessagesNext]_messagesVars => MessagesInv'
<1> SUFFICES ASSUME MessagesInv, [MessagesNext]_messagesVars PROVE MessagesInv'
    OBVIOUS
<1> MessagesTypeOK
    BY DEF MessagesInv
<1>1. ASSUME NEW q \in Requests, NEW op \in Operations, NEW x \in Things, NEW by \in Users,
             NEW text \in Texts, Begin(q, op, x, by, text)
      PROVE MessagesInv'
    <2>1. ~\E z \in Things : Announces(q, z)
        BY <1>1 DEF Begin, Announces
    <2>2. UNCHANGED <<users, row, view, written, unsettled>>
        BY <1>1 DEF Begin
    <2> QED BY <1>1, <2>1, <2>2, BeginReq, QuietStep
<1>2. ASSUME NEW q \in Requests, EditRead(q) \/ RenameRead(q) \/ DeleteRole(q) \/ DeleteRead(q)
      PROVE MessagesInv'
    <2>1. req[q] \in Request /\ req[q].next \in {"read", "role"}
        BY <1>2, AtReq DEF EditRead, RenameRead, DeleteRole, DeleteRead, Operations
    <2>2. Continue(q, "write") \/ Continue(q, "role")
        BY <1>2 DEF EditRead, RenameRead, DeleteRole, DeleteRead
    <2>3. /\ req' \in [Requests -> Request \cup {Idle}]
          /\ req'[q].next # "publish"
          /\ \A p \in Requests \ {q} : req'[p] = req[p]
        BY <2>1, <2>2, ContinueReq
    <2>4. UNCHANGED <<users, row, view, written, unsettled>>
        BY <1>2 DEF EditRead, RenameRead, DeleteRole, DeleteRead
    <2> QED BY <2>1, <2>3, <2>4, QuietStep DEF Announces
<1>3. ASSUME NEW q \in Requests, Send(q) PROVE MessagesInv'
    <2>1. req[q] \in Request /\ req[q].op = "send" /\ req[q].next = "write"
        BY <1>3, AtReq DEF Send, Operations
    <2> QED BY <1>3, <2>1, WriteStep DEF Send, Request
<1>4. ASSUME NEW q \in Requests, Update(q) PROVE MessagesInv'
    <2>1. req[q] \in Request /\ req[q].op \in {"edit", "rename"} /\ req[q].next = "write"
        BY <1>4, AtReq DEF Update, Operations
    <2> QED BY <1>4, <2>1, WriteStep DEF Update, Request
<1>5. ASSUME NEW q \in Requests, Delete(q) PROVE MessagesInv'
    <2>1. req[q] \in Request /\ req[q].op = "delete" /\ req[q].next = "write"
        BY <1>5, AtReq DEF Delete, Operations
    <2> QED BY <1>5, <2>1, WriteStep DEF Delete
<1>6. CASE UNCHANGED messagesVars
    <2>1. UNCHANGED <<users, row, view, req, written, unsettled>>
        BY <1>6 DEF messagesVars
    <2> QED BY <2>1 DEF MessagesInv, MessagesTypeOK, RowsWritten, TextsWritten, OneInFlight,
            InFlightAgrees, Announces, AnnouncedWasWritten, ViewSettles, Exists
<1> QED BY <1>1, <1>2, <1>3, <1>4, <1>5, <1>6,
        AdminRenameStep, PublishStep, AbortedStep, DeleteRoomStep, DeleteUserStep DEF MessagesNext

LEMMA MessagesInvAlways == MessagesSpec => []MessagesInv
<1> QED BY MessagesInvInit, MessagesInvStep, PTL DEF MessagesSpec

\* A row, what clients show and a request are always of their types, whatever
\* the requests that change messages and names do (message_handler.go:69-161).
THEOREM MessagesTypeCorrect == MessagesSpec => []MessagesTypeOK
<1>1. MessagesInv => MessagesTypeOK
    BY DEF MessagesInv
<1> QED BY <1>1, MessagesInvAlways, PTL

\* Clients never show a text that was not saved: UpdateContent and Rename fail
\* when the row is gone (message_repo.go:95, room_repo.go:168).
THEOREM AnnouncedIsAlwaysWritten == MessagesSpec => []AnnouncedWasWritten
<1>1. MessagesInv => AnnouncedWasWritten
    BY DEF MessagesInv
<1> QED BY <1>1, MessagesInvAlways, PTL

\* Clients agree with every row whose changes did not overlap and were all
\* published, for any number of requests at a time (message_handler.go:107).
THEOREM ViewAlwaysSettles == MessagesSpec => []ViewSettles
<1>1. MessagesInv => ViewSettles
    BY DEF MessagesInv
<1> QED BY <1>1, MessagesInvAlways, PTL

-----------------------------------------------------------------------------
(* History. *)

\* A listing is at the last message it has brought, and what it has to bring
\* of the rows that stay is below.
Progress ==
    reader # NoListing =>
        /\ reader.cursor = IF reader.got = <<>> THEN 0 ELSE reader.got[Len(reader.got)]
        /\ reader.kept \subseteq Stored
        /\ \A m \in reader.kept : m \in ToSet(reader.got) \/ reader.cursor = 0 \/ m < reader.cursor

\* A message was sent after the mark unless the mark was made when it was there
\* or on its way, and its date is out by the skew at most.
Dated ==
    \A m \in Ids :
        /\ state[m] = "none" => m \notin shown \cup overtaken
        /\ state[m] \in {"composed", "stored"} =>
            /\ sent[m] > 0
            /\ sent[m] > lastRead <=> m \notin shown \cup overtaken
            /\ created[m] \in sent[m] - Skew..sent[m] + Skew

\* The inductive invariant.
HistoryInv ==
    /\ HistoryTypeOK
    /\ PagesOnce /\ Progress /\ PagesComplete
    /\ Dated


\* Every nonempty set of numbers has a least one.
LEMMA LeastNumber == ASSUME NEW T \in SUBSET Nat, T # {} PROVE \E n \in T : \A k \in T : n <= k
<1> DEFINE R == {p \in Nat \X Nat : p[1] < p[2]}
<1>1. \A i, j \in Nat : <<i, j>> \in R <=> i < j
    OBVIOUS
<1>2. IsWellFoundedOn(R, Nat)
    BY NatLessThanWellFounded DEF OpToRel
<1> HIDE DEF R
<1>3. PICK n \in T : \A k \in T : ~(<<k, n>> \in R)
    BY <1>2, WFMin
<1>4. ASSUME NEW k \in T PROVE n <= k
    <2>1. n \in Nat /\ k \in Nat /\ ~(<<k, n>> \in R)
        BY <1>3, <1>4
    <2>2. ~(k < n)
        BY <1>1, <2>1
    <2> QED BY <2>1, <2>2
<1> QED BY <1>3, <1>4

\* How many numbers of S are above m.
Rank(S, m) == Cardinality({n \in S : n > m})

LEMMA RankType ==
    ASSUME NEW S \in SUBSET Nat, IsFiniteSet(S), NEW m \in S
    PROVE Rank(S, m) \in Nat /\ Rank(S, m) <= Cardinality(S) /\ IsFiniteSet({n \in S : n > m})
<1>1. {n \in S : n > m} \subseteq S
    OBVIOUS
<1>2. IsFiniteSet({n \in S : n > m}) /\ Cardinality({n \in S : n > m}) <= Cardinality(S)
    BY <1>1, FS_Subset
<1> QED BY <1>2, FS_CardinalityType DEF Rank

\* The larger number has fewer above it.
LEMMA RankOrders ==
    ASSUME NEW S \in SUBSET Nat, IsFiniteSet(S), NEW m \in S, NEW n \in S, m < n
    PROVE Rank(S, n) < Rank(S, m)
<1> DEFINE A == {x \in S : x > m}
           B == {x \in S : x > n}
<1>1. IsFiniteSet(A) /\ n \in A /\ Cardinality(A) \in Nat
    BY RankType, FS_CardinalityType
<1>2. IsFiniteSet(A \ {n}) /\ Cardinality(A \ {n}) = Cardinality(A) - 1
    BY <1>1, FS_RemoveElement
<1>3. B \subseteq A \ {n}
    <2>1. ASSUME NEW x \in S, x > n PROVE x > m /\ x # n
        <3>1. x \in Nat /\ m \in Nat /\ n \in Nat
            OBVIOUS
        <3> QED BY <2>1, <3>1
    <2> QED BY <2>1
<1>4. Cardinality(B) <= Cardinality(A \ {n}) /\ Cardinality(B) \in Nat
    BY <1>2, <1>3, FS_Subset, FS_CardinalityType
<1> QED BY <1>1, <1>2, <1>4 DEF Rank

\* There is a number with exactly k above it.
LEMMA RankExists ==
    ASSUME NEW S \in SUBSET Nat, IsFiniteSet(S), NEW k \in Nat, k < Cardinality(S)
    PROVE \E m \in S : Rank(S, m) = k
<1> DEFINE C == {Rank(S, m) : m \in {x \in S : Rank(S, x) >= k}}
<1>1. Cardinality(S) \in Nat
    BY FS_CardinalityType
<1>2. C \in SUBSET Nat
    BY RankType
\* The least number of S has all the others above it.
<1>3. C # {}
    <2>1. S # {}
        BY <1>1, FS_EmptySet
    <2>2. PICK m \in S : \A x \in S : m <= x
        BY <2>1, LeastNumber
    <2>3. {x \in S : x > m} = S \ {m}
        <3>1. ASSUME NEW x \in S PROVE x > m <=> x # m
            <4>1. x \in Nat /\ m \in Nat /\ m <= x
                BY <2>2
            <4> QED BY <4>1
        <3> QED BY <3>1
    <2>4. Cardinality(S \ {m}) = Cardinality(S) - 1
        BY FS_RemoveElement
    <2>5. Rank(S, m) >= k
        BY <1>1, <2>3, <2>4 DEF Rank
    <2> QED BY <2>5
<1>4. PICK c \in C : \A d \in C : c <= d
    <2> HIDE DEF C
    <2> QED BY <1>2, <1>3, LeastNumber
<1>5. PICK m \in S : Rank(S, m) = c /\ Rank(S, m) >= k
    BY <1>4
<1>6. SUFFICES ASSUME Rank(S, m) # k PROVE FALSE
    BY <1>5
\* Otherwise the least number above m has one fewer above it.
<1> DEFINE A == {x \in S : x > m}
<1>7. IsFiniteSet(A) /\ Cardinality(A) \in Nat /\ Cardinality(A) > k
    BY <1>5, <1>6, RankType DEF Rank
<1>8. A # {} /\ A \in SUBSET Nat
    <2>1. A # {}
        <3>1. ASSUME A = {} PROVE FALSE
            <4>1. Cardinality(A) = 0
                BY <3>1, FS_EmptySet
            <4> QED BY <1>7, <4>1
        <3> QED BY <3>1
    <2>2. A \subseteq S
        OBVIOUS
    <2> QED BY <2>1, <2>2
<1>9. PICK n \in A : \A x \in A : n <= x
    <2> HIDE DEF A
    <2> QED BY <1>8, LeastNumber
<1>10. {x \in S : x > n} = A \ {n}
    <2>1. ASSUME NEW x \in S PROVE x > n <=> x > m /\ x # n
        <3>1. x \in Nat /\ m \in Nat /\ n \in Nat /\ n > m /\ (x > m => n <= x)
            BY <1>9
        <3> QED BY <3>1
    <2> QED BY <2>1
<1>11. Cardinality(A \ {n}) = Cardinality(A) - 1
    BY <1>7, FS_RemoveElement
<1>12. Rank(S, n) = Cardinality(A) - 1 /\ n \in S /\ Rank(S, m) = Cardinality(A)
    BY <1>10, <1>11 DEF Rank
<1>13. Rank(S, n) \in C
    BY <1>7, <1>12
<1> HIDE DEF C
<1> QED BY <1>4, <1>5, <1>7, <1>12, <1>13


\* The first k in descending order: nothing is left out above the last of them.
LEMMA FirstInOrder ==
    ASSUME NEW S \in SUBSET Nat, IsFiniteSet(S), NEW k \in Nat \ {0}, NEW q, q = FirstDescending(S, k)
    PROVE /\ q \in Seq(S)
          /\ \A i, j \in 1..Len(q) : i < j => q[i] > q[j]
          /\ q = <<>> => S = {}
          /\ q # <<>> => \A m \in S : m \in ToSet(q) \/ m < q[Len(q)]
<1>1. Cardinality(S) \in Nat
    BY FS_CardinalityType
<1>2. PICK n \in Nat : n = Min({k, Cardinality(S)})
    BY <1>1 DEF Min
<1>3. n <= k /\ n <= Cardinality(S) /\ (n = k \/ n = Cardinality(S))
    BY <1>1, <1>2 DEF Min
<1>4. q = [i \in 1..n |-> CHOOSE m \in S : Rank(S, m) = i - 1]
    BY <1>2 DEF FirstDescending, Rank
<1>5. ASSUME NEW i \in 1..n PROVE q[i] \in S /\ Rank(S, q[i]) = i - 1
    <2>1. \E m \in S : Rank(S, m) = i - 1
        <3>1. i - 1 \in Nat /\ i - 1 < Cardinality(S)
            BY <1>1, <1>3
        <3> QED BY <3>1, RankExists
    <2> QED BY <1>4, <2>1
<1>6. q \in [1..n -> S]
    BY <1>4, <1>5
<1>7. q \in Seq(S) /\ Len(q) = n
    BY <1>6
<1>8. ASSUME NEW i \in 1..n, NEW j \in 1..n, i < j PROVE q[i] > q[j]
    <2>1. q[i] \in Nat /\ q[j] \in Nat
        BY <1>5
    <2>2. ~(q[i] < q[j])
        <3>1. ASSUME q[i] < q[j] PROVE FALSE
            <4>1. Rank(S, q[j]) < Rank(S, q[i])
                BY <1>5, <3>1, RankOrders
            <4>2. Rank(S, q[i]) = i - 1 /\ Rank(S, q[j]) = j - 1
                BY <1>5
            <4> QED BY <1>8, <4>1, <4>2
        <3> QED BY <3>1
    <2>3. q[i] # q[j]
        <3>1. Rank(S, q[i]) = i - 1 /\ Rank(S, q[j]) = j - 1
            BY <1>5
        <3>2. i - 1 # j - 1
            BY <1>8
        <3> QED BY <3>1, <3>2
    <2> QED BY <2>1, <2>2, <2>3
<1>9. ASSUME q = <<>> PROVE S = {}
    <2>1. n = 0
        BY <1>7, <1>9
    <2>2. Cardinality(S) = 0
        BY <1>3, <2>1
    <2> QED BY <2>2, FS_EmptySet
<1>10. ASSUME q # <<>>, NEW m \in S PROVE m \in ToSet(q) \/ m < q[Len(q)]
    <2>1. n \in 1..n
        BY <1>7, <1>10
    <2>2. Rank(S, m) \in Nat
        BY RankType
    <2>3. CASE Rank(S, m) < n
        <3>1. PICK i \in 1..n : i - 1 = Rank(S, m)
            BY <2>2, <2>3
        <3>2. q[i] \in S /\ Rank(S, q[i]) = Rank(S, m)
            BY <1>5, <3>1
        <3>3. q[i] = m
            <4>1. q[i] \in Nat /\ m \in Nat
                BY <3>2
            <4>2. ASSUME q[i] < m PROVE FALSE
                <5>1. Rank(S, m) < Rank(S, q[i])
                    BY <3>2, <4>2, RankOrders
                <5> QED BY <2>2, <3>2, <5>1
            <4>3. ASSUME m < q[i] PROVE FALSE
                <5>1. Rank(S, q[i]) < Rank(S, m)
                    BY <3>2, <4>3, RankOrders
                <5> QED BY <2>2, <3>2, <5>1
            <4> QED BY <4>1, <4>2, <4>3
        <3> QED BY <1>7, <3>3 DEF ToSet
    <2>4. CASE Rank(S, m) >= n
        <3>1. q[n] \in S /\ Rank(S, q[n]) = n - 1
            BY <1>5, <2>1
        <3>2. Rank(S, q[n]) < Rank(S, m)
            BY <2>2, <2>4, <3>1
        <3>3. m # q[n]
            BY <3>2, <2>2
        <3>4. ~(m > q[n])
            <4>1. ASSUME q[n] < m PROVE FALSE
                <5>1. Rank(S, m) < Rank(S, q[n])
                    BY <3>1, <4>1, RankOrders
                <5>2. Rank(S, q[n]) \in Nat
                    BY <3>1, <2>1
                <5> QED BY <2>2, <3>2, <5>1, <5>2
            <4>2. m \in Nat /\ q[n] \in Nat
                BY <3>1
            <4> QED BY <4>1, <4>2
        <3>5. m \in Nat /\ q[n] \in Nat
            BY <3>1
        <3> QED BY <1>7, <3>3, <3>4, <3>5
    <2> QED BY <2>2, <2>3, <2>4
<1> QED BY <1>7, <1>8, <1>9, <1>10


\* What is true of the listing alone.
ReaderInv ==
    /\ reader \in Listing \cup {NoListing}
    /\ PagesOnce /\ Progress /\ PagesComplete

\* The listing the reader has next.
ReaderIs(s, l, c, g, k) ==
    /\ reader' \in Listing /\ reader' # NoListing
    /\ reader'.state = s /\ reader'.limit = l /\ reader'.cursor = c /\ reader'.got = g /\ reader'.kept = k

LEMMA ListingFields ==
    ASSUME NEW r \in Listing
    PROVE /\ r # NoListing
          /\ r.state \in {"reading", "allowed", "done"} /\ r.limit \in Limits /\ r.cursor \in Ids \cup {0}
          /\ r.got \in Seq(Ids) /\ r.kept \in SUBSET Ids
          /\ r = [state |-> r.state, limit |-> r.limit, cursor |-> r.cursor, got |-> r.got, kept |-> r.kept]
<1>1. r.state \in {"reading", "allowed", "done"} /\ r.limit \in Limits /\ r.cursor \in Ids \cup {0}
      /\ r.got \in Seq(Ids) /\ r.kept \in SUBSET Ids
      /\ r = [state |-> r.state, limit |-> r.limit, cursor |-> r.cursor, got |-> r.got, kept |-> r.kept]
    BY DEF Listing
<1>2. NoListing.state = "idle"
    BY DEF NoListing
<1> QED BY <1>1, <1>2

LEMMA ReaderBecomes ==
    ASSUME NEW s \in {"reading", "allowed", "done"}, NEW l \in Limits, NEW c \in Ids \cup {0},
           NEW g \in Seq(Ids), NEW k \in SUBSET Ids,
           reader' = [state |-> s, limit |-> l, cursor |-> c, got |-> g, kept |-> k]
    PROVE ReaderIs(s, l, c, g, k)
<1>1. reader' \in Listing
    BY DEF Listing
<1>2. reader' # NoListing
    BY <1>1, ListingFields
<1> QED BY <1>1, <1>2 DEF ReaderIs

\* Messages are positive numbers, and finitely many.
LEMMA StoredNumbers == Stored \in SUBSET Nat /\ IsFiniteSet(Stored) /\ Stored \subseteq Ids /\ 0 \notin Ids /\ Ids \subseteq Nat
<1>1. Stored \subseteq Ids
    BY DEF Stored
<1>2. IsFiniteSet(Stored)
    BY <1>1, HistoryAssumption, FS_Subset
<1> QED BY <1>1, <1>2, HistoryAssumption

\* The listing stays, and so do the rows it has to bring.
LEMMA ListingKept ==
    ASSUME ReaderInv, reader' = reader, \A m \in Ids : state[m] = "stored" => state'[m] = "stored"
    PROVE ReaderInv'
<1>1. Stored \subseteq Stored'
    BY DEF Stored
<1> QED BY <1>1 DEF ReaderInv, PagesOnce, Progress, PagesComplete

LEMMA NoListingOK == ASSUME reader' = NoListing PROVE ReaderInv'
BY DEF ReaderInv, PagesOnce, Progress, PagesComplete

\* The same pages in another state of the request, and fewer rows to bring.
LEMMA SamePages ==
    ASSUME ReaderInv, reader # NoListing, NEW s, NEW k,
           ReaderIs(s, reader.limit, reader.cursor, reader.got, k),
           k \subseteq reader.kept, k \subseteq Stored',
           s = "done" => k \subseteq ToSet(reader.got)
    PROVE ReaderInv'
<1>1. PagesOnce'
    BY DEF ReaderInv, PagesOnce, ReaderIs
<1>2. Progress'
    BY DEF ReaderInv, Progress, ReaderIs
<1>3. PagesComplete'
    BY DEF PagesComplete, ReaderIs
<1> QED BY <1>1, <1>2, <1>3 DEF ReaderInv, ReaderIs

LEMMA DeleteListing ==
    ASSUME ReaderInv, NEW d \in Ids, DeleteMessage(d), state \in [Ids -> {"none", "composed", "stored", "deleted"}]
    PROVE ReaderInv'
<1>1. CASE reader = NoListing
    BY <1>1, NoListingOK DEF DeleteMessage
<1>2. CASE reader # NoListing
    <2>1. reader \in Listing
        BY <1>2 DEF ReaderInv
    <2>k. PICK k : k = reader.kept \ {d}
        OBVIOUS
    <2>2. [reader EXCEPT !.kept = k] =
            [state |-> reader.state, limit |-> reader.limit, cursor |-> reader.cursor, got |-> reader.got, kept |-> k]
        BY <2>1 DEF Listing
    <2>3. reader' = [reader EXCEPT !.kept = k]
        BY <1>2, <2>k DEF DeleteMessage
    <2>4. k \in SUBSET Ids /\ k \subseteq reader.kept
        BY <2>1, <2>k, ListingFields
    <2>5. k \subseteq Stored'
        <3>1. reader.kept \subseteq Stored
            BY <1>2 DEF ReaderInv, Progress
        <3>2. \A m \in Ids \ {d} : state'[m] = state[m]
            BY DEF DeleteMessage
        <3> QED BY <2>k, <3>1, <3>2 DEF Stored
    <2>6. reader.state = "done" => k \subseteq ToSet(reader.got)
        BY <1>2, <2>4 DEF ReaderInv, PagesComplete
    <2>7. ReaderIs(reader.state, reader.limit, reader.cursor, reader.got, k)
        BY <2>1, <2>2, <2>3, <2>4, ListingFields, ReaderBecomes
    <2> QED BY <1>2, <2>4, <2>5, <2>6, <2>7, SamePages
<1> QED BY <1>1, <1>2

LEMMA OpenListing ==
    ASSUME ReaderInv, OpenRoom
    PROVE ReaderInv'
<1>1. PICK limit \in Limits :
        reader' = [state |-> "reading", limit |-> limit, cursor |-> 0, got |-> <<>>, kept |-> Stored]
    BY DEF OpenRoom
<1>2. <<>> \in Seq(Ids) /\ Stored \in SUBSET Ids
    BY StoredNumbers
<1>3. ReaderIs("reading", limit, 0, <<>>, Stored)
    BY <1>1, <1>2, ReaderBecomes
<1>4. Stored' = Stored
    BY DEF OpenRoom, Stored
<1>5. reader'.got = <<>> /\ reader'.cursor = 0 /\ reader'.kept = Stored /\ reader'.state = "reading" /\ reader' \in Listing
    BY <1>3 DEF ReaderIs
<1>6. PagesOnce' /\ Progress' /\ PagesComplete'
    BY <1>4, <1>5 DEF PagesOnce, Progress, PagesComplete
<1> QED BY <1>5, <1>6 DEF ReaderInv

LEMMA CheckListing ==
    ASSUME ReaderInv, CheckMember
    PROVE ReaderInv'
<1>1. CASE ~member
    BY <1>1, NoListingOK DEF CheckMember
<1>2. CASE member
    <2>1. reader \in Listing /\ reader # NoListing
        BY DEF ReaderInv, CheckMember
    <2>2. [reader EXCEPT !.state = "allowed"] =
            [state |-> "allowed", limit |-> reader.limit, cursor |-> reader.cursor, got |-> reader.got, kept |-> reader.kept]
        BY <2>1 DEF Listing
    <2>3. reader' = [reader EXCEPT !.state = "allowed"]
        BY <1>2 DEF CheckMember
    <2>4. ReaderIs("allowed", reader.limit, reader.cursor, reader.got, reader.kept)
        BY <2>1, <2>2, <2>3, ListingFields, ReaderBecomes
    <2>5. reader.kept \subseteq Stored'
        BY <2>1 DEF ReaderInv, Progress, CheckMember, Stored
    <2> QED BY <2>1, <2>4, <2>5, SamePages
<1> QED BY <1>1, <1>2


\* A page goes on below what the listing has brought.
LEMMA NextPage ==
    ASSUME ReaderInv, reader # NoListing, reader.state = "allowed", NEW q, q # <<>>,
           q = ListBefore(reader.cursor, PageSize(reader.limit)),
           reader' = [reader EXCEPT !.state = "reading", !.cursor = Last(q), !.got = @ \o q],
           state' = state
    PROVE ReaderInv'
<1> DEFINE S == {m \in Stored : reader.cursor = 0 \/ m < reader.cursor}
<1>1. reader \in Listing
    BY DEF ReaderInv
<1>2. PICK g \in Seq(Ids) : g = reader.got
    BY <1>1, ListingFields
<1>3. S \in SUBSET Nat /\ IsFiniteSet(S) /\ S \subseteq Ids
    <2>1. S \subseteq Stored
        OBVIOUS
    <2>2. IsFiniteSet(S)
        BY <2>1, StoredNumbers, FS_Subset
    <2> QED BY <2>1, <2>2, StoredNumbers
<1>4. PICK k \in Nat \ {0} : k = PageSize(reader.limit)
    BY <1>1, ListingFields, HistoryAssumption DEF PageSize
<1>5. q = FirstDescending(S, k)
    BY <1>4 DEF ListBefore
<1>6. /\ q \in Seq(S)
      /\ \A i, j \in 1..Len(q) : i < j => q[i] > q[j]
      /\ \A m \in S : m \in ToSet(q) \/ m < q[Len(q)]
    <2> HIDE DEF S
    <2> QED BY <1>3, <1>5, FirstInOrder
<1>7. Len(g) \in Nat /\ Len(q) \in Nat /\ Len(q) > 0 /\ \A i \in 1..Len(q) : q[i] \in S
    <2> HIDE DEF S
    <2> QED BY <1>6
<1>8. PICK c \in Ids : c = q[Len(q)] /\ c = Last(q)
    BY <1>3, <1>7 DEF Last
<1>9. q \in Seq(Ids)
    <2> HIDE DEF S
    <2> QED BY <1>3, <1>6, <1>7
<1>h. PICK h \in Seq(Ids) : h = g \o q
    <2>1. g \o q \in Seq(Ids)
        BY ONLY <1>2, <1>9, ConcatProperties
    <2> QED BY <2>1
<1>10. /\ Len(h) = Len(g) + Len(q)
       /\ \A i \in 1..Len(g) : h[i] = g[i]
       /\ \A i \in Len(g) + 1..Len(h) : h[i] = q[i - Len(g)] /\ i - Len(g) \in 1..Len(q)
       /\ h[Len(h)] = c
    <2>1. /\ Len(h) = Len(g) + Len(q)
          /\ \A i \in 1..Len(g) + Len(q) : h[i] = IF i <= Len(g) THEN g[i] ELSE q[i - Len(g)]
        BY ONLY <1>2, <1>9, <1>h, ConcatProperties
    <2>2. \A i \in 1..Len(g) : h[i] = g[i]
        BY ONLY <1>7, <2>1
    <2>3. \A i \in Len(g) + 1..Len(h) : h[i] = q[i - Len(g)] /\ i - Len(g) \in 1..Len(q)
        BY ONLY <1>7, <2>1
    <2>4. h[Len(h)] = c
        <3>1. Len(h) \in Len(g) + 1..Len(h) /\ Len(h) - Len(g) = Len(q)
            BY ONLY <1>7, <2>1
        <3> QED BY <1>8, <2>3, <3>1
    <2> QED BY <2>1, <2>2, <2>3, <2>4
<1>11. ReaderIs("reading", reader.limit, c, h, reader.kept)
    <2> DEFINE r == reader
               r1 == [state |-> "reading", limit |-> r.limit, cursor |-> r.cursor, got |-> r.got, kept |-> r.kept]
               r2 == [state |-> "reading", limit |-> r.limit, cursor |-> c, got |-> r.got, kept |-> r.kept]
               r3 == [state |-> "reading", limit |-> r.limit, cursor |-> c, got |-> h, kept |-> r.kept]
    <2>1. [r EXCEPT !.state = "reading"] = r1
        BY <1>1 DEF Listing
    <2>2. [r1 EXCEPT !.cursor = c] = r2
        OBVIOUS
    <2>3. [r2 EXCEPT !.got = h] = r3
        OBVIOUS
    <2>4. reader' = [[[r EXCEPT !.state = "reading"] EXCEPT !.cursor = c] EXCEPT !.got = r1.got \o q]
        BY <1>1, <1>8 DEF Listing
    <2>5. r1.got \o q = h
        BY <1>2, <1>h
    <2>6. reader' = r3
        BY <2>1, <2>2, <2>3, <2>4, <2>5
    <2> HIDE DEF r1, r2
    <2> QED BY <1>1, <2>6, ListingFields, ReaderBecomes
\* Whatever came before is above the page.
<1>12. ASSUME NEW i \in 1..Len(g), NEW m \in S PROVE g[i] > m
    <2>1. g # <<>> /\ Len(g) > 0
        BY <1>7
    <2>2. reader.cursor = g[Len(g)] /\ g[Len(g)] \in Ids
        BY <1>2, <2>1 DEF ReaderInv, Progress
    <2>3. g[Len(g)] > m /\ m \in Nat /\ g[i] \in Nat /\ g[Len(g)] \in Nat
        BY <2>2, <1>2, <1>3, StoredNumbers
    <2>4. i = Len(g) \/ g[i] > g[Len(g)]
        BY <1>2, <1>7 DEF ReaderInv, PagesOnce
    <2> QED BY <2>3, <2>4
<1>13. ASSUME NEW i \in 1..Len(h), NEW j \in 1..Len(h), i < j PROVE h[i] > h[j]
    <2>1. CASE j <= Len(g)
        <3>1. i \in 1..Len(g) /\ j \in 1..Len(g)
            BY <1>7, <1>13, <2>1
        <3>2. g[i] > g[j]
            BY <1>2, <1>13, <3>1 DEF ReaderInv, PagesOnce
        <3> QED BY <1>10, <3>1, <3>2
    <2>2. CASE i <= Len(g) /\ j > Len(g)
        <3>1. i \in 1..Len(g) /\ j \in Len(g) + 1..Len(h)
            BY <1>7, <1>10, <2>2
        <3> HIDE DEF S
        <3>2. h[j] \in S /\ h[i] = g[i]
            BY <1>7, <1>10, <3>1
        <3> QED BY <1>12, <3>1, <3>2
    <2>3. CASE i > Len(g)
        <3>1. i \in Len(g) + 1..Len(h) /\ j \in Len(g) + 1..Len(h)
            BY <1>7, <1>10, <1>13, <2>3
        <3>2. i - Len(g) < j - Len(g)
            BY <1>7, <1>13
        <3> QED BY <1>6, <1>10, <3>1, <3>2
    <2> QED BY <1>7, <2>1, <2>2, <2>3
<1>14. PagesOnce'
    BY <1>11, <1>13 DEF PagesOnce, ReaderIs
<1>15. ToSet(g) \subseteq ToSet(h) /\ ToSet(q) \subseteq ToSet(h)
    <2>1. ASSUME NEW i \in 1..Len(g) PROVE g[i] \in ToSet(h)
        BY <1>7, <1>10 DEF ToSet
    <2>2. ASSUME NEW i \in 1..Len(q) PROVE q[i] \in ToSet(h)
        <3>1. i + Len(g) \in Len(g) + 1..Len(h) /\ i + Len(g) \in 1..Len(h) /\ i + Len(g) - Len(g) = i
            BY <1>7, <1>10
        <3>2. h[i + Len(g)] = q[i]
            BY <1>10, <3>1
        <3> QED BY <3>1, <3>2 DEF ToSet
    <2>3. DOMAIN g = 1..Len(g) /\ DOMAIN q = 1..Len(q)
        <3> HIDE DEF S
        <3> QED BY <1>6
    <2> QED BY <2>1, <2>2, <2>3 DEF ToSet
<1>16. Progress'
    <2>1. reader.kept \subseteq Stored
        BY DEF ReaderInv, Progress
    <2>2. Stored' = Stored
        BY DEF Stored
    <2>3. ASSUME NEW m \in reader.kept PROVE m \in ToSet(h) \/ m < c
        <3>1. m \in ToSet(g) \/ m \in S
            BY <1>2, <2>1 DEF ReaderInv, Progress
        <3> QED BY <1>6, <1>8, <1>15, <3>1
    <2>4. h # <<>> /\ c = h[Len(h)]
        BY <1>7, <1>10
    <2> QED BY <1>11, <2>1, <2>2, <2>3, <2>4 DEF Progress, ReaderIs
<1>17. PagesComplete'
    BY <1>11 DEF PagesComplete, ReaderIs
<1> QED BY <1>11, <1>14, <1>16, <1>17 DEF ReaderInv, ReaderIs

\* A page without messages: nothing is left to bring.
LEMMA NoMorePages ==
    ASSUME ReaderInv, reader # NoListing, ListBefore(reader.cursor, PageSize(reader.limit)) = <<>>,
           reader' = [reader EXCEPT !.state = "done"], state' = state
    PROVE ReaderInv'
<1> DEFINE S == {m \in Stored : reader.cursor = 0 \/ m < reader.cursor}
<1>1. reader \in Listing
    BY DEF ReaderInv
<1>2. S \in SUBSET Nat /\ IsFiniteSet(S)
    <2>1. S \subseteq Stored
        OBVIOUS
    <2>2. IsFiniteSet(S)
        BY <2>1, StoredNumbers, FS_Subset
    <2> QED BY <2>1, <2>2, StoredNumbers
<1>3. PICK k \in Nat \ {0} : k = PageSize(reader.limit)
    BY <1>1, ListingFields, HistoryAssumption DEF PageSize
<1>4. FirstDescending(S, k) = <<>>
    BY <1>3 DEF ListBefore
<1>5. S = {}
    <2> HIDE DEF S
    <2>1. PICK q : q = FirstDescending(S, k)
        OBVIOUS
    <2> QED BY <1>2, <1>4, <2>1, FirstInOrder
<1>6. reader.kept \subseteq ToSet(reader.got) /\ reader.kept \subseteq Stored'
    BY <1>5 DEF ReaderInv, Progress, Stored
<1>7. [reader EXCEPT !.state = "done"] =
        [state |-> "done", limit |-> reader.limit, cursor |-> reader.cursor, got |-> reader.got, kept |-> reader.kept]
    BY <1>1 DEF Listing
<1>8. ReaderIs("done", reader.limit, reader.cursor, reader.got, reader.kept)
    BY <1>1, <1>7, ListingFields, ReaderBecomes
<1> QED BY <1>6, <1>8, SamePages

LEMMA ReadListing ==
    ASSUME ReaderInv, ReadPage
    PROVE ReaderInv'
<1>1. PICK q : q = ListBefore(reader.cursor, PageSize(reader.limit))
    OBVIOUS
<1>2. reader # NoListing /\ reader.state = "allowed" /\ state' = state
    BY DEF ReadPage
<1>3. CASE q = <<>>
    <2>1. reader' = [reader EXCEPT !.state = "done"]
        BY <1>1, <1>3 DEF ReadPage
    <2> QED BY <1>1, <1>2, <1>3, <2>1, NoMorePages
<1>4. CASE q # <<>>
    <2>1. reader' = [reader EXCEPT !.state = "reading", !.cursor = Last(q), !.got = @ \o q]
        BY <1>1, <1>4 DEF ReadPage
    <2> QED BY <1>1, <1>2, <1>4, <2>1, NextPage
<1> QED BY <1>3, <1>4


\* What is true of the rows, the clock and the mark.
ClockInv ==
    /\ clock \in Skew + 1..MaxClock
    /\ state \in [Ids -> {"none", "composed", "stored", "deleted"}]
    /\ sent \in [Ids -> 0..clock - 1]
    /\ created \in [Ids -> 0..clock - 1 + Skew]
    /\ member \in BOOLEAN
    /\ lastRead \in 0..clock - 1
    /\ shown \subseteq Ids /\ overtaken \subseteq Ids
    /\ Dated

LEMMA HistoryParts == HistoryInv <=> ReaderInv /\ ClockInv
BY DEF HistoryInv, HistoryTypeOK, ReaderInv, ClockInv

LEMMA ComposeStep ==
    ASSUME ClockInv, ReaderInv, NEW m \in Ids, Compose(m)
    PROVE ClockInv' /\ ReaderInv'
<1>1. ReaderInv'
    BY ListingKept DEF Compose, ClockInv
<1>2. /\ clock \in Nat /\ Skew \in Nat /\ clock > Skew
      /\ clock' = clock + 1 /\ clock' \in Skew + 1..MaxClock
    BY HistoryAssumption DEF ClockInv, Compose
<1>3. /\ state' \in [Ids -> {"none", "composed", "stored", "deleted"}]
      /\ state'[m] = "composed" /\ \A n \in Ids \ {m} : state'[n] = state[n]
    BY DEF ClockInv, Compose
<1>s. /\ sent' \in [Ids -> 0..clock' - 1]
      /\ sent'[m] = clock /\ \A n \in Ids \ {m} : sent'[n] = sent[n]
    <2>1. 0..clock - 1 \subseteq 0..clock' - 1 /\ clock \in 0..clock' - 1
        BY <1>2
    <2> QED BY <2>1 DEF ClockInv, Compose
<1>4. /\ created' \in [Ids -> 0..clock' - 1 + Skew]
      /\ created'[m] \in clock - Skew..clock + Skew /\ \A n \in Ids \ {m} : created'[n] = created[n]
    <2>1. PICK time \in clock - Skew..clock + Skew : created' = [created EXCEPT ![m] = time]
        BY DEF Compose
    <2>2. 0..clock - 1 + Skew \subseteq 0..clock' - 1 + Skew /\ time \in 0..clock' - 1 + Skew
        BY <1>2
    <2> QED BY <2>1, <2>2 DEF ClockInv
<1>5. lastRead' = lastRead /\ lastRead \in 0..clock' - 1 /\ clock > lastRead
    BY <1>2 DEF ClockInv, Compose
<1>6. state[m] = "none" /\ UNCHANGED <<member, shown, overtaken>>
    BY DEF Compose
<1>7. Dated'
    BY <1>3, <1>s, <1>4, <1>5, <1>6 DEF ClockInv, Dated
<1> QED BY <1>1, <1>2, <1>3, <1>s, <1>4, <1>5, <1>6, <1>7 DEF ClockInv

\* A row moves on.
LEMMA RowStep ==
    ASSUME ClockInv, NEW m \in Ids, NEW s \in {"stored", "deleted"}, state[m] = "composed" \/ s = "deleted",
           state' = [state EXCEPT ![m] = s],
           UNCHANGED <<clock, sent, created, member, lastRead, shown, overtaken>>
    PROVE ClockInv'
<1>1. /\ state' \in [Ids -> {"none", "composed", "stored", "deleted"}]
      /\ state'[m] = s /\ \A n \in Ids \ {m} : state'[n] = state[n]
    BY DEF ClockInv
<1>2. Dated'
    BY <1>1 DEF ClockInv, Dated
<1> QED BY <1>1, <1>2 DEF ClockInv

LEMMA MarkStep ==
    ASSUME ClockInv, ReaderInv, MarkRoomRead
    PROVE ClockInv' /\ ReaderInv'
<1>1. ReaderInv'
    BY ListingKept DEF MarkRoomRead
<1>2. /\ clock \in Nat /\ Skew \in Nat /\ clock' = clock + 1 /\ clock' \in Skew + 1..MaxClock
      /\ lastRead' = clock /\ clock \in 0..clock' - 1
    BY HistoryAssumption DEF ClockInv, MarkRoomRead
<1>3. /\ sent' \in [Ids -> 0..clock' - 1] /\ created' \in [Ids -> 0..clock' - 1 + Skew]
      /\ \A m \in Ids : ~(sent[m] > clock)
    <2>1. /\ 0..clock - 1 \subseteq 0..clock' - 1 /\ \A x \in 0..clock - 1 : ~(x > clock)
          /\ 0..clock - 1 + Skew \subseteq 0..clock' - 1 + Skew
        BY <1>2
    <2> QED BY <2>1 DEF ClockInv, MarkRoomRead
<1>4. /\ created' = created /\ sent' = sent /\ state' = state /\ member' = member
      /\ shown' = Stored /\ overtaken' = {m \in Ids : state[m] = "composed"}
    BY DEF MarkRoomRead
<1>5. \A m \in Ids : /\ m \in shown' <=> state[m] = "stored"
                     /\ m \in overtaken' <=> state[m] = "composed"
    BY <1>4 DEF Stored
<1>6. Dated'
    BY <1>2, <1>3, <1>4, <1>5 DEF ClockInv, Dated
<1>7. shown' \subseteq Ids /\ overtaken' \subseteq Ids
    BY <1>4 DEF Stored
<1> QED BY <1>1, <1>2, <1>3, <1>4, <1>6, <1>7 DEF ClockInv

\* What a reader keeps true while messages come and go (message_repo.go:31-73,
\* room_repo.go:194-236).
THEOREM HistoryInvariant == HistorySpec => []HistoryInv
<1>1. HistoryInit => HistoryInv
    <2> SUFFICES ASSUME HistoryInit PROVE HistoryInv
        OBVIOUS
    <2>1. ReaderInv
        BY DEF HistoryInit, ReaderInv, PagesOnce, Progress, PagesComplete
    <2>2. clock \in Skew + 1..MaxClock /\ 0 \in 0..clock - 1 /\ 0 \in 0..clock - 1 + Skew
        BY HistoryAssumption DEF HistoryInit
    <2>3. ClockInv
        BY <2>2 DEF HistoryInit, ClockInv, Dated
    <2> QED BY <2>1, <2>3, HistoryParts
<1>2. HistoryInv /\ [HistoryNext]_historyVars => HistoryInv'
    <2> SUFFICES ASSUME HistoryInv, [HistoryNext]_historyVars PROVE ReaderInv' /\ ClockInv'
        BY DEF HistoryInv, HistoryTypeOK, ReaderInv, ClockInv
    <2>1. ReaderInv /\ ClockInv
        BY HistoryParts
    <2>2. ASSUME NEW m \in Ids, Compose(m) PROVE ReaderInv' /\ ClockInv'
        BY <2>1, <2>2, ComposeStep
    <2>3. ASSUME NEW m \in Ids, Save(m) PROVE ReaderInv' /\ ClockInv'
        <3>1. ReaderInv'
            BY <2>1, <2>3, ListingKept DEF Save, ClockInv
        <3> QED BY <2>1, <2>3, <3>1, RowStep DEF Save
    <2>4. ASSUME NEW m \in Ids, DeleteMessage(m) PROVE ReaderInv' /\ ClockInv'
        <3>1. ReaderInv'
            BY <2>1, <2>4, DeleteListing DEF ClockInv
        <3> QED BY <2>1, <2>4, <3>1, RowStep DEF DeleteMessage
    <2>5. CASE ChangeMembership
        <3>1. ReaderInv'
            BY <2>1, <2>5, ListingKept DEF ChangeMembership
        <3>2. ClockInv'
            BY <2>1, <2>5 DEF ChangeMembership, ClockInv, Dated
        <3> QED BY <3>1, <3>2
    <2>6. CASE OpenRoom \/ CheckMember \/ ReadPage \/ CloseRoom
        <3>1. ReaderInv'
            BY <2>1, <2>6, OpenListing, CheckListing, ReadListing, NoListingOK DEF CloseRoom
        <3>2. UNCHANGED <<clock, sent, created, state, member, lastRead, shown, overtaken>>
            BY <2>6 DEF OpenRoom, CheckMember, ReadPage, CloseRoom
        <3>3. ClockInv'
            BY <2>1, <3>2 DEF ClockInv, Dated
        <3> QED BY <3>1, <3>3
    <2>7. CASE MarkRoomRead
        BY <2>1, <2>7, MarkStep
    <2>8. CASE UNCHANGED historyVars
        <3>1. ReaderInv'
            BY <2>1, <2>8, ListingKept DEF historyVars
        <3>2. ClockInv'
            BY <2>1, <2>8 DEF historyVars, ClockInv, Dated
        <3> QED BY <3>1, <3>2
    <2> QED BY <2>2, <2>3, <2>4, <2>5, <2>6, <2>7, <2>8 DEF HistoryNext
<1> QED BY <1>1, <1>2, PTL DEF HistorySpec

\* A mark or a message is dated by a reading of the clock that has been taken,
\* and a listing is one the handler can be in (room_repo.go:228, message_handler.go:29).
THEOREM HistoryTypeCorrect == HistorySpec => []HistoryTypeOK
<1>1. HistoryInv => HistoryTypeOK
    BY DEF HistoryInv
<1> QED BY <1>1, HistoryInvariant, PTL

\* However messages come and go, a listing of any number of pages of any size
\* brings each at most once and in descending order of id (message_repo.go:54-60).
THEOREM PagesAlwaysOnce == HistorySpec => []PagesOnce
<1>1. HistoryInv => PagesOnce
    BY DEF HistoryInv
<1> QED BY <1>1, HistoryInvariant, PTL

\* A listing that reaches the end has brought every message that stayed, whatever
\* limit was asked for (message_service.go:31, message_repo.go:54-60).
THEOREM PagesAlwaysComplete == HistorySpec => []PagesComplete
<1>1. HistoryInv => PagesComplete
    BY DEF HistoryInv
<1> QED BY <1>1, HistoryInvariant, PTL

\* A member's unread count misses the messages that were on their way when the
\* reader marked the room, and is otherwise wrong only of messages composed so
\* close to the mark that the clocks of pod and database are further apart
\* (room_repo.go:194-236, chat_service.go:33).
THEOREM UnreadAlwaysUnseen == HistorySpec => []UnreadIsUnseen
<1>1. HistoryInv => UnreadIsUnseen
    <2> SUFFICES ASSUME HistoryInv, member, NEW m \in Stored \ Mine, ~NearMark(m)
                 PROVE m \in Unread <=> m \notin shown \cup overtaken
        BY DEF UnreadIsUnseen
    <2>1. m \in Ids /\ state[m] = "stored"
        BY DEF Stored
    <2>2. /\ sent[m] > 0
          /\ sent[m] > lastRead <=> m \notin shown \cup overtaken
          /\ created[m] \in sent[m] - Skew..sent[m] + Skew
        BY <2>1 DEF HistoryInv, Dated
    <2>3. sent[m] \in Nat /\ created[m] \in Nat /\ lastRead \in Nat /\ Skew \in Nat
        BY <2>1, HistoryAssumption DEF HistoryInv, HistoryTypeOK
    <2>4. m \in Unread <=> lastRead = 0 \/ created[m] > lastRead
        BY DEF Unread
    <2>5. CASE lastRead = 0
        <3>1. sent[m] > lastRead
            BY <2>2, <2>5
        <3> QED BY <2>2, <2>4, <2>5, <3>1
    <2>6. CASE lastRead # 0
        <3>1. sent[m] < lastRead - Skew \/ sent[m] > lastRead + Skew
            BY <2>3, <2>6 DEF NearMark
        <3>2. created[m] > lastRead <=> sent[m] > lastRead
            BY <2>2, <2>3, <3>1
        <3> QED BY <2>2, <2>4, <2>6, <3>2
    <2> QED BY <2>5, <2>6
<1> QED BY <1>1, HistoryInvariant, PTL

=============================================================================
