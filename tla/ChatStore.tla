------------------------------ MODULE ChatStore ------------------------------
(***************************************************************************)
(* Direct chats, their messages and the read markers: the HTTP handlers of *)
(* src/chat/service.py over the tables of src/chat/models.py.              *)
(*                                                                         *)
(* Each request has its own session and transaction; PostgreSQL runs them  *)
(* at READ COMMITTED.  A request is a sequence of steps: what it reads is  *)
(* the committed state at that step, what it writes becomes visible in one *)
(* step, its commit, and between two steps any other request may run.      *)
(* Reads that only repeat what an earlier read of the same request ensures *)
(* are one step: a chat goes with all its rows at once, so the last of     *)
(* them decides.  The rows a flush has written stay locked until the       *)
(* commit, so the flush and the commit are one step.                       *)
(*                                                                         *)
(* Time is a counter that each datetime.now() of the handlers advances.    *)
(* Texts, edited_at, deleted_at and the chat's updated_at are left out.    *)
(***************************************************************************)
EXTENDS Functions, Naturals

CONSTANTS
    Users,
    ChatIds, MessageIds,    \* the uuid4 values that may be drawn
    Requests,               \* the HTTP requests that may be in flight together
    MaxClock,               \* bound: no request that reads the clock begins later
    None

ASSUME StoreConstants ==
    /\ ChatIds \cap MessageIds = {}
    /\ None \notin Users \cup ChatIds \cup MessageIds
    /\ None \notin [user : Users, id : ChatIds \cup MessageIds \cup {None}]
    /\ MaxClock \in Nat

VARIABLES
    chats,          \* chats: id -> the two users of its direct_key, created_at
    lastRead,       \* chat_participants: <<chat, user>> -> last_read_at
    messages,       \* messages: id -> chat, sender, created_at, is_edited, is_deleted
    issued,         \* the uuids already drawn
    clock,          \* the last reading of datetime.now()
    req             \* the local state of each request

db == <<chats, lastRead, messages>>
vars == <<chats, lastRead, messages, issued, clock, req>>

-----------------------------------------------------------------------------
(* Tables. *)

Insert(f, x, v) == [y \in DOMAIN f \cup {x} |-> IF y = x THEN v ELSE f[y]]

Pairs == {p \in SUBSET Users : \E u, v \in Users : u # v /\ p = {u, v}}

\* The select of create_direct_chat, and the unique constraint on direct_key,
\* which sorts the two ids and so stands for the unordered pair.
PairTaken(p) == \E c \in DOMAIN chats : chats[c].pair = p

\* _get_participant
IsParticipant(u, c) == <<c, u>> \in DOMAIN lastRead

VisibleMessages(c) ==
    {m \in DOMAIN messages : messages[m].chat = c /\ ~messages[m].deleted}

\* _get_last_message
LatestMessages(c) ==
    {m \in VisibleMessages(c) :
        \A n \in VisibleMessages(c) : messages[n].created <= messages[m].created}

-----------------------------------------------------------------------------
(* Requests. *)

Idle == [op |-> "none", step |-> "idle", user |-> None, pair |-> {}, chat |-> None,
         msg |-> None, at |-> 0, seen |-> 0, shown |-> {}]

\* A request of user u about chat c, that is to do the given step next.
Begin(op, step, u, c, pair, m, at, seen) ==
    [op |-> op, step |-> step, user |-> u, pair |-> pair, chat |-> c,
     msg |-> m, at |-> at, seen |-> seen, shown |-> {}]

At(r, op, step) == req[r].op = op /\ req[r].step = step

Goto(r, step) == req' = [req EXCEPT ![r].step = step]

Answer(r) == req' = [req EXCEPT ![r] = Idle]

\* datetime.now(timezone.utc)
Now == clock + 1

Tick == clock' = Now

\* Requests that may read the clock begin only within the bound.
WithinBound == clock < MaxClock

Init ==
    /\ chats = <<>> /\ lastRead = <<>> /\ messages = <<>>
    /\ issued = {} /\ clock = 0
    /\ req = [r \in Requests |-> Idle]

\* A check before the first write fails and the answer is 4xx, the message is
\* already deleted, the chat already exists, or the endpoint only reads.
NothingToDo(r) ==
    /\ req[r].step = "idle"
    /\ UNCHANGED vars

(* create_direct_chat *)

CreateLookup(r, u, v, c) ==
    /\ req[r].step = "idle"
    /\ u # v
    /\ ~PairTaken({u, v})
    /\ c \notin issued
    /\ WithinBound /\ Tick
    /\ issued' = issued \cup {c}
    /\ req' = [req EXCEPT ![r] = Begin("create", "write", u, c, {u, v}, None, Now, 0)]
    /\ UNCHANGED db

\* Faulty variants: no unique constraint on direct_key; the companion's row
\* never added.
CreateUnconstrained(r) ==
    LET q == req[r] IN
    /\ At(r, "create", "write")
    /\ chats' = Insert(chats, q.chat, [pair |-> q.pair, created |-> q.at])
    /\ lastRead' = [p \in DOMAIN lastRead \cup ({q.chat} \X q.pair) |->
                        IF p[1] = q.chat THEN q.at ELSE lastRead[p]]
    /\ Answer(r)
    /\ UNCHANGED <<messages, issued, clock>>

CreateOneSided(r) ==
    LET q == req[r] IN
    /\ At(r, "create", "write")
    /\ ~PairTaken(q.pair)
    /\ chats' = Insert(chats, q.chat, [pair |-> q.pair, created |-> q.at])
    /\ lastRead' = Insert(lastRead, <<q.chat, q.user>>, q.at)
    /\ Answer(r)
    /\ UNCHANGED <<messages, issued, clock>>

\* flush and commit.  When another request has created the chat of the pair in
\* the meantime the flush raises IntegrityError, which nothing handles.
CreateCommit(r) ==
    LET q == req[r] IN
    /\ At(r, "create", "write")
    /\ \/ /\ ~PairTaken(q.pair)
          /\ chats' = Insert(chats, q.chat, [pair |-> q.pair, created |-> q.at])
          /\ lastRead' = [p \in DOMAIN lastRead \cup ({q.chat} \X q.pair) |->
                              IF p[1] = q.chat THEN q.at ELSE lastRead[p]]
          /\ Answer(r)
       \/ /\ PairTaken(q.pair)
          /\ Goto(r, "failed")
          /\ UNCHANGED <<chats, lastRead>>
    /\ UNCHANGED <<messages, issued, clock>>

(* send_message *)

\* Faulty variant: the last reading of the clock used again.
SendStampReused(r, u, c, m) ==
    /\ req[r].step = "idle"
    /\ IsParticipant(u, c)
    /\ m \notin issued
    /\ WithinBound
    /\ issued' = issued \cup {m}
    /\ req' = [req EXCEPT ![r] = Begin("send", "write", u, c, {}, m, clock, 0)]
    /\ UNCHANGED <<db, clock>>

\* The stamp is taken here, before the message is written.
SendCheck(r, u, c, m) ==
    /\ req[r].step = "idle"
    /\ IsParticipant(u, c)
    /\ m \notin issued
    /\ WithinBound /\ Tick
    /\ issued' = issued \cup {m}
    /\ req' = [req EXCEPT ![r] = Begin("send", "write", u, c, {}, m, Now, 0)]
    /\ UNCHANGED db

Sent(q) == [chat |-> q.chat, sender |-> q.user, created |-> q.at,
            edited |-> FALSE, deleted |-> FALSE]

\* Faulty variant: no foreign key from messages to chats.
SendUnconstrained(r) ==
    /\ At(r, "send", "write")
    /\ messages' = Insert(messages, req[r].msg, Sent(req[r]))
    /\ Goto(r, "reread")
    /\ UNCHANGED <<chats, lastRead, issued, clock>>

\* The foreign key fails when the chat has been deleted since the check.
SendCommit(r) ==
    /\ At(r, "send", "write")
    /\ \/ /\ req[r].chat \in DOMAIN chats
          /\ messages' = Insert(messages, req[r].msg, Sent(req[r]))
          /\ Goto(r, "reread")
       \/ /\ req[r].chat \notin DOMAIN chats
          /\ Goto(r, "failed")
          /\ UNCHANGED messages
    /\ UNCHANGED <<chats, lastRead, issued, clock>>

\* After the commit send_message and update_message read the message and the
\* companion's marker again; both are gone when the chat is.
Reread(r) ==
    /\ req[r].step = "reread"
    /\ IF req[r].msg \in DOMAIN messages THEN Answer(r) ELSE Goto(r, "failed")
    /\ UNCHANGED <<db, issued, clock>>

(* update_message, delete_message *)

\* Faulty variant: the author check dropped.
EditOfAnyone(r, u, m) ==
    /\ req[r].step = "idle"
    /\ m \in DOMAIN messages
    /\ IsParticipant(u, messages[m].chat)
    /\ ~messages[m].deleted
    /\ req' = [req EXCEPT ![r] =
                 Begin("edit", "write", u, messages[m].chat, {}, m, 0, 0)]
    /\ UNCHANGED <<db, issued, clock>>

EditCheck(r, u, m) ==
    /\ req[r].step = "idle"
    /\ m \in DOMAIN messages
    /\ IsParticipant(u, messages[m].chat)
    /\ messages[m].sender = u
    /\ ~messages[m].deleted
    /\ req' = [req EXCEPT ![r] =
                 Begin("edit", "write", u, messages[m].chat, {}, m, 0, 0)]
    /\ UNCHANGED <<db, issued, clock>>

\* Faulty variant: the whole row is written back as it was loaded.
EditWholeRow(r) ==
    LET m == req[r].msg IN
    /\ At(r, "edit", "write")
    /\ \/ /\ m \in DOMAIN messages
          /\ messages' = [messages EXCEPT ![m].edited = TRUE, ![m].deleted = FALSE]
          /\ Goto(r, "reread")
       \/ /\ m \notin DOMAIN messages
          /\ Goto(r, "failed")
          /\ UNCHANGED messages
    /\ UNCHANGED <<chats, lastRead, issued, clock>>

\* The UPDATE names the changed columns only.  It matches no row, and the flush
\* raises, when the chat has been deleted since the check.
EditCommit(r) ==
    LET m == req[r].msg IN
    /\ At(r, "edit", "write")
    /\ \/ /\ m \in DOMAIN messages
          /\ messages' = [messages EXCEPT ![m].edited = TRUE]
          /\ Goto(r, "reread")
       \/ /\ m \notin DOMAIN messages
          /\ Goto(r, "failed")
          /\ UNCHANGED messages
    /\ UNCHANGED <<chats, lastRead, issued, clock>>

DeleteCheck(r, u, m) ==
    /\ req[r].step = "idle"
    /\ m \in DOMAIN messages
    /\ IsParticipant(u, messages[m].chat)
    /\ messages[m].sender = u
    /\ ~messages[m].deleted
    /\ req' = [req EXCEPT ![r] =
                 Begin("delete", "write", u, messages[m].chat, {}, m, 0, 0)]
    /\ UNCHANGED <<db, issued, clock>>

DeleteCommit(r) ==
    LET m == req[r].msg IN
    /\ At(r, "delete", "write")
    /\ \/ /\ m \in DOMAIN messages
          /\ messages' = [messages EXCEPT ![m].deleted = TRUE]
          /\ Answer(r)
       \/ /\ m \notin DOMAIN messages
          /\ Goto(r, "failed")
          /\ UNCHANGED messages
    /\ UNCHANGED <<chats, lastRead, issued, clock>>

(* delete_chat *)

DeleteChatCheck(r, u, c) ==
    /\ req[r].step = "idle"
    /\ IsParticipant(u, c)
    /\ req' = [req EXCEPT ![r] = Begin("deleteChat", "write", u, c, {}, None, 0, 0)]
    /\ UNCHANGED <<db, issued, clock>>

\* The chat, its participants and its messages go together: the session deletes
\* the rows it has loaded, the foreign keys cascade to the others.  A chat that
\* is already gone costs a warning, not an error.
DeleteChatCommit(r) ==
    LET c == req[r].chat IN
    /\ At(r, "deleteChat", "write")
    /\ chats' = Restrict(chats, DOMAIN chats \ {c})
    /\ lastRead' = Restrict(lastRead, {p \in DOMAIN lastRead : p[1] # c})
    /\ messages' = Restrict(messages, {m \in DOMAIN messages : messages[m].chat # c})
    /\ Answer(r)
    /\ UNCHANGED <<issued, clock>>

(* mark_chat_as_read *)

\* Loads the participant row; its last_read_at is not read again.
MarkLoad(r, u, c) ==
    /\ req[r].step = "idle"
    /\ WithinBound
    /\ IsParticipant(u, c)
    /\ req' = [req EXCEPT ![r] =
                 Begin("mark", "latest", u, c, {}, None, 0, lastRead[<<c, u>>])]
    /\ UNCHANGED <<db, issued, clock>>

\* The time the marker is to be set to.  The field shown records for the
\* properties which messages the chat showed when it was chosen.
Choose(r, t) ==
    req' = [req EXCEPT ![r].step = "write", ![r].at = t,
                       ![r].shown = VisibleMessages(req[r].chat)]

\* Faulty variant: the latest message's stamp taken as it is, without max().
MarkLatestOnly(r) ==
    LET q == req[r] IN
    /\ At(r, "mark", "latest")
    /\ \/ \E m \in LatestMessages(q.chat) :
             Choose(r, messages[m].created) /\ UNCHANGED clock
       \/ VisibleMessages(q.chat) = {} /\ Tick /\ Choose(r, Now)
    /\ UNCHANGED <<db, issued>>

\* Faulty variant: no time for a chat without messages.
MarkLatestUnset(r) ==
    /\ At(r, "mark", "latest")
    /\ VisibleMessages(req[r].chat) = {}
    /\ Choose(r, None)
    /\ UNCHANGED <<db, issued, clock>>

\* The latest message and, from it, the new marker.
MarkLatest(r) ==
    LET q == req[r] IN
    /\ At(r, "mark", "latest")
    /\ \/ \E m \in LatestMessages(q.chat) :
             /\ Choose(r, IF q.seen < messages[m].created THEN messages[m].created
                                                           ELSE q.seen)
             /\ UNCHANGED clock
       \/ VisibleMessages(q.chat) = {} /\ Tick /\ Choose(r, Now)
    /\ UNCHANGED <<db, issued>>

\* An attribute set to the value it was loaded with is no change, and no UPDATE
\* is sent for it.
MarkCommit(r) ==
    LET q == req[r]  row == <<q.chat, q.user>> IN
    /\ At(r, "mark", "write")
    /\ \/ /\ q.at = q.seen
          /\ Answer(r)
          /\ UNCHANGED lastRead
       \/ /\ q.at # q.seen
          /\ row \in DOMAIN lastRead
          /\ lastRead' = [lastRead EXCEPT ![row] = q.at]
          /\ Answer(r)
       \/ /\ q.at # q.seen
          /\ row \notin DOMAIN lastRead
          /\ Goto(r, "failed")
          /\ UNCHANGED lastRead
    /\ UNCHANGED <<chats, messages, issued, clock>>

\* The unhandled exception rolls back and becomes 500.
AnswerError(r) ==
    /\ req[r].step = "failed"
    /\ Answer(r)
    /\ UNCHANGED <<db, issued, clock>>

-----------------------------------------------------------------------------
Next ==
    \E r \in Requests :
        \/ NothingToDo(r)
        \/ \E u, v \in Users, c \in ChatIds : CreateLookup(r, u, v, c)
        \/ CreateCommit(r)
        \/ \E u \in Users, c \in ChatIds, m \in MessageIds : SendCheck(r, u, c, m)
        \/ SendCommit(r)
        \/ Reread(r)
        \/ \E u \in Users, m \in MessageIds : EditCheck(r, u, m)
        \/ EditCommit(r)
        \/ \E u \in Users, m \in MessageIds : DeleteCheck(r, u, m)
        \/ DeleteCommit(r)
        \/ \E u \in Users, c \in ChatIds : DeleteChatCheck(r, u, c)
        \/ DeleteChatCommit(r)
        \/ \E u \in Users, c \in ChatIds : MarkLoad(r, u, c)
        \/ MarkLatest(r)
        \/ MarkCommit(r)
        \/ AnswerError(r)

Spec == Init /\ [][Next]_vars

-----------------------------------------------------------------------------
(* Properties. *)

Ops == {"none", "create", "send", "edit", "delete", "deleteChat", "mark"}
Steps == {"idle", "latest", "write", "reread", "failed"}

RequestState ==
    [op : Ops, step : Steps, user : Users \cup {None}, pair : Pairs \cup {{}},
     chat : ChatIds \cup {None}, msg : MessageIds \cup {None}, at : Nat, seen : Nat,
     shown : SUBSET MessageIds]

\* The rows and the local variables of the handlers have their types.
TypeOK ==
    /\ DOMAIN chats \subseteq ChatIds
    /\ chats \in [DOMAIN chats -> [pair : Pairs, created : Nat]]
    /\ DOMAIN lastRead \subseteq ChatIds \X Users
    /\ lastRead \in [DOMAIN lastRead -> Nat]
    /\ DOMAIN messages \subseteq MessageIds
    /\ messages \in [DOMAIN messages ->
                        [chat : ChatIds, sender : Users, created : Nat,
                         edited : BOOLEAN, deleted : BOOLEAN]]
    /\ issued \subseteq ChatIds \cup MessageIds
    /\ clock \in Nat
    /\ req \in [Requests -> RequestState]

\* However many requests look for the chat of two users and do not find it, the
\* two never have two chats.
OneChatPerPair ==
    \A c, d \in DOMAIN chats : chats[c].pair = chats[d].pair => c = d

\* A chat has a read marker for each of its two users and for no one else.  The
\* queries for the companion (scalar_one_or_none) rely on it.
TwoMarkersPerChat ==
    DOMAIN lastRead = {p \in (DOMAIN chats) \X Users : p[2] \in chats[p[1]].pair}

\* Every message is in a chat that exists and was written by one of its users,
\* also when the chat is deleted while messages to it are on their way.
MessagesHaveHome ==
    \A m \in DOMAIN messages :
        /\ messages[m].chat \in DOMAIN chats
        /\ messages[m].sender \in chats[messages[m].chat].pair

\* A chat starts unread: no marker, however often marks overtake each other, lies
\* before the creation of its chat, and every message lies after it.
FreshChatUnread ==
    /\ \A p \in DOMAIN lastRead : p[1] \in DOMAIN chats =>
                                     chats[p[1]].created <= lastRead[p]
    /\ \A m \in DOMAIN messages : messages[m].chat \in DOMAIN chats =>
                                     chats[messages[m].chat].created < messages[m].created

\* Deletion of a message is final, whatever edits were under way, and the row
\* stays as long as its chat does.
SoftDeletion ==
    [][\A m \in DOMAIN messages :
          messages[m].chat \in DOMAIN chats' =>
             m \in DOMAIN messages' /\ (messages[m].deleted => messages'[m].deleted)]_vars

Marks(r) == At(r, "mark", "write") /\ req'[r].step = "idle"

\* The row of the marker request r is about to answer for.
Marker(r) == <<req[r].chat, req[r].user>>

\* When mark_chat_as_read answers and no other mark of the same user has changed
\* the row since it was loaded, the marker is not behind where it was and covers
\* every message the chat showed.  Deleted messages and messages that were
\* committed late make max() and the order of the query necessary.
MarkCoversShown ==
    [][\A r \in Requests :
          (Marks(r) /\ Marker(r) \in DOMAIN lastRead
                    /\ lastRead[Marker(r)] = req[r].seen) =>
             /\ lastRead'[Marker(r)] >= lastRead[Marker(r)]
             /\ \A m \in req[r].shown \cap DOMAIN messages :
                   messages[m].created <= lastRead'[Marker(r)]]_vars

-----------------------------------------------------------------------------
(* The tables, seen by the users, are those of DirectChats. *)

\* A request that has passed its checks and has neither committed nor failed may
\* still take effect.
Wish(r) ==
    IF req[r].step \notin {"latest", "write"} THEN None
    ELSE [user |-> req[r].user,
          id |-> IF req[r].op = "create" THEN req[r].chat
                 ELSE IF req[r].op = "send" THEN req[r].msg ELSE None]

\* An edit that commits after the deletion is not to be seen.
State(row) == IF row.deleted THEN "withdrawn" ELSE IF row.edited THEN "revised" ELSE "said"

Chats == INSTANCE DirectChats
    WITH talks <- [c \in DOMAIN chats |-> chats[c].pair],
         marks <- lastRead,
         said <- [m \in DOMAIN messages |->
                     [chat |-> messages[m].chat, author |-> messages[m].sender,
                      state |-> State(messages[m])]],
         drawn <- issued,
         want <- [r \in Requests |-> Wish(r)]

\* Although a request checks first and writes later, it is as if it did everything in
\* its commit: there its user is, still, one of the chat's two or the author, or else
\* it leaves no trace.
ImplementsChats == Chats!ChatsSpec

-----------------------------------------------------------------------------
(* The inductive invariant behind the safety properties. *)

\* Ids are drawn once and stamps lie in the past.
IdsAndStamps ==
    /\ DOMAIN chats \subseteq issued /\ DOMAIN messages \subseteq issued
    /\ \A c \in DOMAIN chats : chats[c].created <= clock
    /\ \A m \in DOMAIN messages : messages[m].created <= clock
    /\ \A p \in DOMAIN lastRead : lastRead[p] <= clock
    /\ \A r \in Requests :
          /\ req[r].step = "idle" => req[r] = Idle
          /\ req[r].step # "idle" =>
                req[r].user \in Users /\ req[r].chat \in ChatIds \cap issued
          /\ req[r].msg \in issued \cup {None}
          /\ req[r].shown \subseteq issued
          /\ req[r].at <= clock /\ req[r].seen <= clock
          /\ req[r].op \in {"edit", "delete"} => req[r].msg \in MessageIds

\* A chat about to be created has an id of its own.
CreateSound(r) ==
    At(r, "create", "write") =>
        /\ req[r].pair \in Pairs
        /\ req[r].chat \notin DOMAIN chats
        /\ \A s \in Requests \ {r} : req[s].chat # req[r].chat

\* A message about to be sent has an id of its own, was written by a user of the
\* chat, if that still exists, and is stamped after its creation.
SendSound(r) ==
    At(r, "send", "write") =>
        /\ req[r].msg \in MessageIds
        /\ req[r].msg \notin DOMAIN messages
        /\ \A s \in Requests \ {r} : req[s].msg # req[r].msg
        /\ \A s \in Requests : req[r].msg \notin req[s].shown
        /\ req[r].chat \in DOMAIN chats =>
              /\ req[r].user \in chats[req[r].chat].pair
              /\ chats[req[r].chat].created < req[r].at

\* An edit or a deletion that has passed its check is the author's.
ChangeSound(r) ==
    At(r, "edit", "write") \/ At(r, "delete", "write") =>
        (req[r].msg \in DOMAIN messages => messages[req[r].msg].sender = req[r].user)

\* The marker a request is about to write is not behind the one it has loaded,
\* nor behind anything the chat showed it.
MarkSound(r) ==
    req[r].op = "mark" =>
        /\ req[r].chat \in DOMAIN chats => chats[req[r].chat].created <= req[r].seen
        /\ req[r].step = "write" =>
              /\ req[r].seen <= req[r].at
              /\ \A m \in req[r].shown \cap DOMAIN messages :
                    messages[m].created <= req[r].at

RequestsSound ==
    \A r \in Requests :
        CreateSound(r) /\ SendSound(r) /\ ChangeSound(r) /\ MarkSound(r)

StoreInv ==
    OneChatPerPair /\ TwoMarkersPerChat /\ MessagesHaveHome /\ FreshChatUnread

IndInv == TypeOK /\ StoreInv /\ IdsAndStamps /\ RequestsSound

\* Beyond IndInv the refinement of DirectChats needs that whoever creates a chat is in
\* it, and that whoever is about to delete one is one of its two, should it exist.
Entitled(r) ==
    /\ At(r, "create", "write") => req[r].user \in req[r].pair
    /\ At(r, "deleteChat", "write") =>
          (req[r].chat \in DOMAIN chats => req[r].user \in chats[req[r].chat].pair)

RequestsEntitled == \A r \in Requests : Entitled(r)

-----------------------------------------------------------------------------
(* Statements of the tests that the code does not live up to. *)

\* tests/test_chat.py: what a mark has acknowledged stays read.  Two marks of
\* one user that overlap lose the later marker.
MarkersNeverMoveBack ==
    [][\A p \in DOMAIN lastRead \cap DOMAIN lastRead' :
          lastRead'[p] >= lastRead[p]]_vars

\* tests/test_chat.py: a message that has just been sent is not read by the
\* companion.  Its stamp is older than its commit, a mark may lie in between.
BornUnread ==
    [][\A m \in DOMAIN messages' \ DOMAIN messages :
          \A p \in DOMAIN lastRead :
             (p[1] = messages'[m].chat /\ p[2] # messages'[m].sender) =>
                lastRead[p] < messages'[m].created]_vars
=============================================================================
