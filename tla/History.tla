------------------------------ MODULE History -------------------------------
(***************************************************************************)
(* Reading a room back: the pages of its history and the unread count of   *)
(* one reader (message_repo.go, room_repo.go), while other members send    *)
(* and delete messages.                                                    *)
(*                                                                         *)
(* The pages are cut by message id, the unread count by created_at.  An id *)
(* is a random UUID (chat_service.go:28): here a number, drawn in any      *)
(* order.  Times are readings of the database's clock, which dates the     *)
(* marks; a message is dated by the clock of its pod (chat_service.go:33), *)
(* which is up to Skew away from it, in either direction.                  *)
(***************************************************************************)
EXTENDS Naturals, Sequences, FiniteSets, FiniteSetsExt, SequencesExt

CONSTANTS
    Ids,            \* message ids, positive numbers: their order is that of the UUIDs
    Mine,           \* the ids of the reader's own messages
    MaxLimit,       \* 100, message_service.go:31
    DefaultLimit,   \* 50, message_service.go:32
    Limits,         \* the limits the reader asks for
    Skew,           \* how far the clock of a pod may be from that of the database
    MaxClock        \* a bound: readings of the clock

ASSUME HistoryAssumption ==
    /\ Ids \subseteq Nat \ {0} /\ IsFiniteSet(Ids) /\ Mine \subseteq Ids
    /\ MaxLimit \in Nat \ {0} /\ DefaultLimit \in Nat \ {0}
    /\ Limits \subseteq Nat \ {0}       \* the handler refuses the others
    /\ Skew \in Nat /\ MaxClock \in Nat /\ MaxClock > Skew

VARIABLES
    clock,
    state,      \* of a message: composed, then its row is stored, then deleted
    sent,       \* when a message was composed, by the clock of the database (a history variable)
    created,    \* messages.created_at, by the clock of the pod; 0 before
    member,     \* the reader is a member of the room, which is private
    reader,     \* the listing of the reader
    lastRead,   \* room_reads.last_read_at, 0 without a row
    shown,      \* rows there were when the reader last marked the room (a history variable)
    overtaken   \* messages that were on their way then (a history variable)

historyVars == <<clock, sent, created, state, member, reader, lastRead, shown, overtaken>>

\* A listing: its limit, the id it goes on from (0 is uuid.Nil), whether the
\* request for the next page has passed the membership check, and what it has
\* brought.  `kept` are the rows that have been there since it began.
NoListing == [state |-> "idle"]
Listing == [state : {"reading", "allowed", "done"}, limit : Limits, cursor : Ids \cup {0},
            got : Seq(Ids), kept : SUBSET Ids]

HistoryTypeOK ==
    /\ clock \in Skew + 1..MaxClock
    /\ state \in [Ids -> {"none", "composed", "stored", "deleted"}]
    /\ sent \in [Ids -> 0..clock - 1]
    /\ created \in [Ids -> 0..clock - 1 + Skew]
    /\ member \in BOOLEAN
    /\ reader \in Listing \cup {NoListing}
    /\ lastRead \in 0..clock - 1
    /\ shown \subseteq Ids /\ overtaken \subseteq Ids

HistoryInit ==
    /\ clock = Skew + 1
    /\ state = [m \in Ids |-> "none"]
    /\ sent = [m \in Ids |-> 0]
    /\ created = [m \in Ids |-> 0]
    /\ member = TRUE
    /\ reader = NoListing
    /\ lastRead = 0
    /\ shown = {} /\ overtaken = {}

-----------------------------------------------------------------------------
\* The rows of the table.
Stored == {m \in Ids : state[m] = "stored"}

(* What others do to the room. *)

\* SendMessage draws the id and reads the clock of its pod ...
Compose(m) ==
    /\ state[m] = "none" /\ clock < MaxClock
    /\ state' = [state EXCEPT ![m] = "composed"]
    /\ sent' = [sent EXCEPT ![m] = clock]
    /\ \E time \in clock - Skew..clock + Skew : created' = [created EXCEPT ![m] = time]
    /\ clock' = clock + 1
    /\ UNCHANGED <<member, reader, lastRead, shown, overtaken>>

\* ... and then inserts the row.
Save(m) ==
    /\ state[m] = "composed"
    /\ state' = [state EXCEPT ![m] = "stored"]
    /\ UNCHANGED <<clock, sent, created, member, reader, lastRead, shown, overtaken>>

\* DELETE FROM messages
DeleteMessage(m) ==
    /\ state[m] = "stored"
    /\ state' = [state EXCEPT ![m] = "deleted"]
    /\ reader' = IF reader = NoListing THEN NoListing ELSE [reader EXCEPT !.kept = @ \ {m}]
    /\ UNCHANGED <<clock, sent, created, member, lastRead, shown, overtaken>>

\* The reader is kicked, or comes back.
ChangeMembership ==
    /\ member' = ~member
    /\ UNCHANGED <<clock, sent, created, state, reader, lastRead, shown, overtaken>>

-----------------------------------------------------------------------------
(* The pages. *)

\* MessageService.History: a limit above the maximum is not cut but replaced.
PageSize(limit) == IF limit > MaxLimit THEN DefaultLimit ELSE limit

\* Mutant: ORDER BY m.id.
FirstAscending(S, k) ==
    [i \in 1..Min({k, Cardinality(S)}) |-> CHOOSE m \in S : Cardinality({n \in S : n < m}) = i - 1]

\* ORDER BY m.id DESC LIMIT k: first the row no other is above, and so on.
FirstDescending(S, k) ==
    [i \in 1..Min({k, Cardinality(S)}) |-> CHOOSE m \in S : Cardinality({n \in S : n > m}) = i - 1]

\* Mutant: the cursor is included.
ListBeforeInclusive(cursor, limit) ==
    FirstDescending({m \in Stored : cursor = 0 \/ m <= cursor}, limit)

\* SELECT ... WHERE m.id < cursor ORDER BY m.id DESC LIMIT limit
ListBefore(cursor, limit) ==
    FirstDescending({m \in Stored : cursor = 0 \/ m < cursor}, limit)

\* The reader opens the room and asks for the latest messages.
OpenRoom ==
    /\ reader = NoListing
    /\ \E limit \in Limits :
        reader' = [state |-> "reading", limit |-> limit, cursor |-> 0, got |-> <<>>, kept |-> Stored]
    /\ UNCHANGED <<clock, sent, created, state, member, lastRead, shown, overtaken>>

\* The handler of one page checks the membership, and forbids the page ...
CheckMember ==
    /\ reader # NoListing /\ reader.state = "reading"
    /\ reader' = IF member THEN [reader EXCEPT !.state = "allowed"] ELSE NoListing
    /\ UNCHANGED <<clock, sent, created, state, member, lastRead, shown, overtaken>>

\* ... or reads it.  The client takes the last id of the page as the next cursor
\* and stops at a page without messages.
ReadPage ==
    /\ reader # NoListing /\ reader.state = "allowed"
    /\ LET page == ListBefore(reader.cursor, PageSize(reader.limit))
       IN  reader' = IF page = <<>> THEN [reader EXCEPT !.state = "done"]
                     ELSE [reader EXCEPT !.state = "reading", !.cursor = Last(page), !.got = @ \o page]
    /\ UNCHANGED <<clock, sent, created, state, member, lastRead, shown, overtaken>>

CloseRoom ==
    /\ reader # NoListing /\ reader.state = "done"
    /\ reader' = NoListing
    /\ UNCHANGED <<clock, sent, created, state, member, lastRead, shown, overtaken>>

-----------------------------------------------------------------------------
(* The unread count. *)

\* Mutant: ON CONFLICT DO NOTHING.
MarkRoomReadOnce ==
    /\ clock < MaxClock
    /\ lastRead' = IF lastRead = 0 THEN clock ELSE lastRead
    /\ clock' = clock + 1
    /\ shown' = Stored
    /\ overtaken' = {m \in Ids : state[m] = "composed"}
    /\ UNCHANGED <<sent, created, state, member, reader>>

\* INSERT INTO room_reads ... ON CONFLICT DO UPDATE SET last_read_at = now()
MarkRoomRead ==
    /\ clock < MaxClock
    /\ lastRead' = clock
    /\ clock' = clock + 1
    /\ shown' = Stored
    /\ overtaken' = {m \in Ids : state[m] = "composed"}
    /\ UNCHANGED <<sent, created, state, member, reader>>

\* The rows GetUnreadCounts counts: of the rooms the reader is in, all where there
\* is no mark.
Unread == {m \in Stored \ Mine : member /\ (lastRead = 0 \/ created[m] > lastRead)}

HistoryNext ==
    \/ \E m \in Ids : Compose(m) \/ Save(m) \/ DeleteMessage(m)
    \/ ChangeMembership
    \/ OpenRoom \/ CheckMember \/ ReadPage \/ CloseRoom
    \/ MarkRoomRead

\* The client goes on while there are pages.
HistorySpec == HistoryInit /\ [][HistoryNext]_historyVars

-----------------------------------------------------------------------------

\* However messages come and go while it reads, a listing brings every message
\* at most once, in descending order of id (message_repo.go:50).
PagesOnce ==
    reader # NoListing =>
        \A i, j \in 1..Len(reader.got) : i < j => reader.got[i] > reader.got[j]

\* A listing that has reached the end has brought every message that was there
\* all the time, whatever the limit (message_service.go:31 replaces the limit).
PagesComplete ==
    reader # NoListing /\ reader.state = "done" => reader.kept \subseteq ToSet(reader.got)

\* Composed so close to the last mark that the clocks may order the two wrongly.
NearMark(m) == lastRead # 0 /\ sent[m] \in lastRead - Skew..lastRead + Skew

\* A member's unread messages are those of others that were not there when the
\* reader last marked the room read -- except those on their way at that moment,
\* whose created_at is older than last_read_at and which are never counted, and
\* for the messages of the moments the clocks of pod and database are apart
\* (room_repo.go:207, :231, chat_service.go:33).
UnreadIsUnseen ==
    member =>
        \A m \in Stored \ Mine : ~NearMark(m) =>
            (m \in Unread <=> m \notin shown \cup overtaken)

\* "ListBefore returns messages before cursor (exclusive), newest first"
\* (message_repo.go:31): a message of the latest page is newer than the next one.
NewestFirst ==
    reader # NoListing =>
        \A i, j \in 1..Len(reader.got) : i < j => sent[reader.got[i]] > sent[reader.got[j]]

=============================================================================
