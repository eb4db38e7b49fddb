------------------------------ MODULE ReadChats ------------------------------
(***************************************************************************)
(* The handlers of src/chat/service.py that only read: the list of chats,  *)
(* one chat's details, the payload of chat.list.updated, and the messages  *)
(* of a chat page by page, beside the writing requests of ChatStore.       *)
(*                                                                         *)
(* At READ COMMITTED every select sees what is committed when it runs, so  *)
(* an answer is put together from several states of the database.  The     *)
(* order of the list, by updated_at, is left out: the loop takes the rows  *)
(* in any order.  Messages of one stamp, which the clock of ChatStore does *)
(* not produce but an old database may hold, come in any order as well.    *)
(***************************************************************************)
EXTENDS ChatStore, FiniteSets

CONSTANTS
    Readers,        \* requests, or clients that page, which may read together
    Limits          \* the page sizes clients ask for, from 1 to MAX_LIMIT

ASSUME ReaderConstants ==
    /\ Limits \subseteq Nat \ {0}
    /\ IsFiniteSet(MessageIds)
    /\ None \notin [own : BOOLEAN, created : Nat]

VARIABLE reading    \* the local state of each reader

ReadIdle == [step |-> "idle"]

ReadGoto(d, q) == reading' = [reading EXCEPT ![d] = q]

\* The 404 that ends a request whose chat has gone.
NotFound(d) == ReadGoto(d, ReadIdle)

Companions(u, c) == {v \in Users \ {u} : <<c, v>> \in DOMAIN lastRead}

\* The messages of a chat and which of them are deleted, for the properties.
History(c) == [m \in {n \in DOMAIN messages : messages[n].chat = c} |->
                  messages[m].deleted]

ReadInit == reading = [d \in Readers |-> ReadIdle]

-----------------------------------------------------------------------------
(* list_chats, get_chat_details, get_chat_list_update_payload *)

\* The first select gives the rows to build items from: the user's chats with
\* their markers.  before is what there was at that time, for the properties.
Building(op, u, cs) ==
    [step |-> "companion", op |-> op, user |-> u,
     rows |-> [c \in cs |-> lastRead[<<c, u>>]],
     before |-> [c \in cs |-> History(c)],
     chat |-> None, last |-> None, unread |-> 0, read |-> FALSE]

BeginList(d, u) ==
    LET cs == {c \in DOMAIN chats : IsParticipant(u, c)} IN
    /\ reading[d].step = "idle"
    /\ cs # {}
    /\ ReadGoto(d, Building("list", u, cs))

\* _get_chat_and_participant
BeginItem(d, op, u, c) ==
    /\ reading[d].step = "idle"
    /\ IsParticipant(u, c)
    /\ ReadGoto(d, Building(op, u, {c}))

\* Faulty variant: the companion is taken for the one who wrote last.
ReadWriter(d) ==
    LET q == reading[d] IN
    /\ q.step = "companion"
    /\ \E c \in DOMAIN q.rows :
          IF \E m \in VisibleMessages(c) : messages[m].sender # q.user
          THEN ReadGoto(d, [q EXCEPT !.step = "last", !.chat = c])
          ELSE NotFound(d)

ReadCompanion(d) ==
    LET q == reading[d] IN
    /\ q.step = "companion"
    /\ \E c \in DOMAIN q.rows :
          IF Companions(q.user, c) # {}
          THEN ReadGoto(d, [q EXCEPT !.step = "last", !.chat = c])
          ELSE NotFound(d)

\* _get_last_message.  The payload counts before it reads the companion's marker.
ReadLast(d) ==
    LET q == reading[d]
        next == IF q.op = "update" THEN "count" ELSE "marker" IN
    /\ q.step = "last"
    /\ \/ \E m \in LatestMessages(q.chat) :
             ReadGoto(d, [q EXCEPT !.step = next,
                                   !.last = [own |-> messages[m].sender = q.user,
                                             created |-> messages[m].created]])
       \/ VisibleMessages(q.chat) = {} /\ ReadGoto(d, [q EXCEPT !.step = next])

\* _get_companion_last_read_at and _build_message_read
ReadMarker(d) ==
    LET q == reading[d]
        next == IF q.op = "update" THEN "built" ELSE "count" IN
    /\ q.step = "marker"
    /\ \/ \E v \in Companions(q.user, q.chat) :
             ReadGoto(d, [q EXCEPT !.step = next,
                 !.read = q.last # None /\ q.last.own
                            /\ q.last.created <= lastRead[<<q.chat, v>>]])
       \/ Companions(q.user, q.chat) = {} /\ NotFound(d)

Unread(u, c, marker) ==
    {m \in VisibleMessages(c) : messages[m].sender # u /\ marker < messages[m].created}

Counted(d, n) ==
    LET q == reading[d] IN
    ReadGoto(d, [q EXCEPT !.step = IF q.op = "update" THEN "marker" ELSE "built",
                          !.unread = n])

\* Faulty variant: a message at the marker itself counts as unread.
CountFromMarker(d) ==
    LET q == reading[d] IN
    /\ q.step = "count"
    /\ Counted(d, Cardinality({m \in VisibleMessages(q.chat) :
                                  /\ messages[m].sender # q.user
                                  /\ q.rows[q.chat] <= messages[m].created}))

\* _get_unread_count, with the marker of the first select.
CountUnread(d) ==
    LET q == reading[d] IN
    /\ q.step = "count"
    /\ Counted(d, Cardinality(Unread(q.user, q.chat, q.rows[q.chat])))

\* Faulty variant: the locals of the finished item are carried into the next one.
NextItemStale(d) ==
    LET q == reading[d]
        rest == DOMAIN q.rows \ {q.chat} IN
    /\ q.step = "built"
    /\ ReadGoto(d, IF rest = {} THEN ReadIdle
                   ELSE [q EXCEPT !.step = "companion", !.rows = Restrict(@, rest),
                                  !.before = Restrict(@, rest)])

\* The item is complete: on to the next chat, or the answer.
NextItem(d) ==
    LET q == reading[d]
        rest == DOMAIN q.rows \ {q.chat} IN
    /\ q.step = "built"
    /\ ReadGoto(d, IF rest = {} THEN ReadIdle
                   ELSE [q EXCEPT !.step = "companion", !.rows = Restrict(@, rest),
                                  !.before = Restrict(@, rest),
                                  !.chat = None, !.last = None, !.unread = 0, !.read = FALSE])

-----------------------------------------------------------------------------
(* get_chat_messages, by a client that asks for page after page until one is *)
(* not full. *)

Smaller(m, n) == IF m < n THEN m ELSE n

\* ORDER BY created_at ASC puts all of a before all of b.
InOrder(a, b) == \A m \in a, n \in b : messages[m].created <= messages[n].created

\* The query parameters are within bounds before the service clamps them.
BeginPages(d, u, c, limit) ==
    /\ reading[d].step = "idle"
    /\ IsParticipant(u, c)
    /\ ReadGoto(d, [step |-> "page", user |-> u, chat |-> c, limit |-> limit,
                    offset |-> 0, page |-> {}, got |-> {}, before |-> History(c)])

\* Faulty variant: no ORDER BY.
ReadPageUnordered(d) ==
    LET q == reading[d]  visible == VisibleMessages(q.chat) IN
    /\ q.step = "page"
    /\ \E skipped, page \in SUBSET visible :
          /\ skipped \cap page = {}
          /\ Cardinality(skipped) = Smaller(q.offset, Cardinality(visible))
          /\ Cardinality(page) = Smaller(q.limit, Cardinality(visible \ skipped))
          /\ ReadGoto(d, [q EXCEPT !.step = "pageMarker", !.page = page])

\* OFFSET skips some messages, LIMIT takes the page from the rest, in their order.
\* The participant is read again for each page.  Without it, or without the
\* companion's marker, the answer is 404.
ReadPage(d) ==
    LET q == reading[d]  visible == VisibleMessages(q.chat) IN
    /\ q.step = "page"
    /\ \/ /\ IsParticipant(q.user, q.chat)
          /\ \E skipped, page \in SUBSET visible :
                /\ skipped \cap page = {}
                /\ Cardinality(skipped) = Smaller(q.offset, Cardinality(visible))
                /\ Cardinality(page) = Smaller(q.limit, Cardinality(visible \ skipped))
                /\ InOrder(skipped, visible \ skipped)
                /\ InOrder(page, visible \ (skipped \cup page))
                /\ ReadGoto(d, [q EXCEPT !.step = "pageMarker", !.page = page])
       \/ ~IsParticipant(q.user, q.chat) /\ NotFound(d)

ReadPageMarker(d) ==
    LET q == reading[d]
        full == Cardinality(q.page) = q.limit IN
    /\ q.step = "pageMarker"
    /\ IF Companions(q.user, q.chat) # {}
       THEN ReadGoto(d, [q EXCEPT !.step = IF full THEN "page" ELSE "paged",
                                  !.offset = @ + q.limit,
                                  !.page = {}, !.got = @ \cup q.page])
       ELSE NotFound(d)

EndPages(d) == reading[d].step = "paged" /\ ReadGoto(d, ReadIdle)

-----------------------------------------------------------------------------
ReadNext ==
    \E d \in Readers :
        \/ \E u \in Users : BeginList(d, u)
        \/ \E op \in {"details", "update"}, u \in Users, c \in ChatIds : BeginItem(d, op, u, c)
        \/ ReadCompanion(d)
        \/ ReadLast(d)
        \/ ReadMarker(d)
        \/ CountUnread(d)
        \/ NextItem(d)
        \/ \E u \in Users, c \in ChatIds, l \in Limits : BeginPages(d, u, c, l)
        \/ ReadPage(d)
        \/ ReadPageMarker(d)
        \/ EndPages(d)

ReadersInit == Init /\ ReadInit

ReadersNext == \/ Next /\ UNCHANGED reading
               \/ ReadNext /\ UNCHANGED vars

ReadersSpec == ReadersInit /\ [][ReadersNext]_<<vars, reading>>

-----------------------------------------------------------------------------
(* Properties. *)

ItemFields == {"step", "op", "user", "rows", "before", "chat", "last", "unread", "read"}
PageFields == {"step", "user", "chat", "limit", "offset", "page", "got", "before"}

\* The reader builds items, and the chat an item is built for is one of its rows.
ItemTyped(q) ==
    /\ DOMAIN q = ItemFields
    /\ q.step \in {"companion", "last", "marker", "count", "built"}
    /\ q.op \in {"list", "details", "update"} /\ q.user \in Users
    /\ q.rows \in [DOMAIN q.rows -> Nat] /\ DOMAIN q.rows \subseteq ChatIds
    /\ \/ q.chat \in DOMAIN q.rows
       \/ q.chat = None /\ q.step = "companion"
    /\ q.unread \in Nat /\ q.read \in BOOLEAN

PagesTyped(q) ==
    /\ DOMAIN q = PageFields
    /\ q.step \in {"page", "pageMarker", "paged"}
    /\ q.user \in Users /\ q.chat \in ChatIds
    /\ q.limit \in Limits /\ q.offset \in Nat
    /\ q.page \subseteq MessageIds /\ q.got \subseteq MessageIds

\* The local variables of the readers have their types.
ReadersTypeOK ==
    /\ DOMAIN reading = Readers
    /\ \A d \in Readers :
          reading[d] = ReadIdle \/ ItemTyped(reading[d]) \/ PagesTyped(reading[d])

\* In the list, the details and the payload, the counter of unread messages and
\* the last message agree, as long as nothing of the chat was added or deleted
\* while the item was put together from its selects.
ItemCoherent ==
    \A d \in Readers :
        LET q == reading[d]  marker == q.rows[q.chat] IN
        (/\ q.step = "built"
         /\ q.chat \in DOMAIN chats
         /\ q.before[q.chat] = History(q.chat)) =>
            /\ q.unread > 0 => q.last # None /\ (q.last.own \/ marker < q.last.created)
            /\ q.last # None => (q.last.own \/ q.last.created <= marker \/ q.unread > 0)

\* Since the reader began, nothing of the chat has been deleted.
NothingLost(q) ==
    LET h == History(q.chat) IN
    /\ DOMAIN q.before \subseteq DOMAIN h
    /\ \A m \in DOMAIN h : h[m] => m \in DOMAIN q.before /\ q.before[m]

StampsDistinct(c) ==
    \A m, n \in VisibleMessages(c) : messages[m].created = messages[n].created => m = n

\* What was visible when the reader began.
Wanted(q) == {m \in DOMAIN q.before : ~q.before[m]}

\* A client that pages through a chat gets every message that was there when it
\* began, whatever is written meanwhile and however late it is committed, unless a
\* message or the chat is deleted.  Deletion shifts the rest under the offset.  Two
\* messages of one stamp may change places between two selects.
PagesComplete ==
    \A q \in {reading[d] : d \in Readers} :
        (q.step = "paged" /\ NothingLost(q) /\ StampsDistinct(q.chat)) =>
            Wanted(q) \subseteq q.got

\* Reader d, which builds items, is answered with 404.
ListFails(d) ==
    /\ reading[d].step \in {"companion", "marker"}
    /\ reading'[d].step = "idle"

\* A reader is told that there is no companion only when a chat has been deleted
\* since it began, never because a chat lacks a participant.  One such chat costs
\* list_chats the whole list.
NotFoundOnlyAfterDeletion ==
    [][\A d \in Readers :
          ListFails(d) => \E c \in DOMAIN reading[d].rows : c \notin DOMAIN chats]_<<vars, reading>>

-----------------------------------------------------------------------------
(* The inductive invariant behind ItemCoherent. *)

\* Chat c has existed, so its id is not drawn again.  It has kept the messages of
\* h, its history when a reader began, and those that were deleted are.
KeepsHistory(c, h) ==
    /\ c \in issued
    /\ \A r \in Requests : At(r, "create", "write") => req[r].chat # c
    /\ c \in DOMAIN chats =>
          \A m \in DOMAIN h : m \in DOMAIN History(c) /\ (h[m] => History(c)[m])

RowsSound(q) ==
    /\ DOMAIN q.before = DOMAIN q.rows
    /\ \A c \in DOMAIN q.rows : KeepsHistory(c, q.before[c])

Undisturbed(q) == q.chat \in DOMAIN chats /\ q.before[q.chat] = History(q.chat)

LastSound(q) ==
    \/ q.last = None /\ VisibleMessages(q.chat) = {}
    \/ \E m \in LatestMessages(q.chat) :
          q.last = [own |-> messages[m].sender = q.user, created |-> messages[m].created]

CountSound(q) == q.unread = Cardinality(Unread(q.user, q.chat, q.rows[q.chat]))

\* What has been read of an undisturbed chat is what it still holds.
ItemSound(q) ==
    /\ RowsSound(q)
    /\ q.step \in {"companion", "last"} => q.last = None
    /\ (q.step \in {"marker", "count", "built"} /\ Undisturbed(q)) => LastSound(q)
    /\ (q.step = "built" \/ (q.step = "marker" /\ q.op = "update")) =>
          (Undisturbed(q) => CountSound(q))

ItemsInv ==
    \A q \in {reading[d] : d \in Readers} :
        q.step \in {"companion", "last", "marker", "count", "built"} => ItemSound(q)

-----------------------------------------------------------------------------
(* The inductive invariant behind PagesComplete. *)

\* How many visible messages of the chat come before m.
Position(m, c) ==
    Cardinality({n \in VisibleMessages(c) : messages[n].created < messages[m].created})

\* The offset of the page after the one being read, or of the one to read next.
Reached(q) == IF q.step = "page" THEN q.offset ELSE q.offset + q.limit

\* New messages, even those with an old stamp, only move a message back.  So what
\* the pages read so far do not hold lies behind them, and then they were full.
PagesSound(q) ==
    /\ KeepsHistory(q.chat, q.before)
    /\ q.step # "pageMarker" => q.page = {}
    /\ (NothingLost(q) /\ StampsDistinct(q.chat)) =>
          \A m \in Wanted(q) :
             \/ m \in q.got \cup q.page
             \/ /\ q.step # "paged"
                /\ Reached(q) <= Position(m, q.chat)
                /\ q.step = "pageMarker" => Cardinality(q.page) = q.limit

PagesInv ==
    \A q \in {reading[d] : d \in Readers} :
        q.step \in {"page", "pageMarker", "paged"} => PagesSound(q)
=============================================================================
