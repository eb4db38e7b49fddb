--------------------------- MODULE ReadChatsProofs ---------------------------
(***************************************************************************)
(* What the readers are told is right, for every set of requests and       *)
(* readers.  The items of list_chats, get_chat_details and                 *)
(* chat.list.updated are coherent although each is put together from       *)
(* several selects: ids are drawn once and messages stay in their chat     *)
(* while it exists, so when what the reader saw of the chat in the         *)
(* beginning is all there is in the end, nothing of it has changed in      *)
(* between, and the selects might as well have been one.                   *)
(*                                                                         *)
(* The pages of get_chat_messages are complete: a message that is not in   *)
(* the pages read so far has at least as many messages before it as the    *)
(* offset says, and later commits only move it further back.               *)
(***************************************************************************)
EXTENDS MigratedStoreProofs

-----------------------------------------------------------------------------
(* What a step of a writing request leaves of a chat. *)

(***************************************************************************)
(* Messages that remain keep their chat, their author and their stamp.     *)
(***************************************************************************)
LEMMA MessagesKept ==
    ASSUME IndInv, [Next]_vars, NEW m \in DOMAIN messages, m \in DOMAIN messages'
    PROVE  /\ messages'[m].chat = messages[m].chat
           /\ messages'[m].sender = messages[m].sender
           /\ messages'[m].created = messages[m].created
           /\ messages[m].deleted => messages'[m].deleted
<1>1. CASE UNCHANGED messages
  BY <1>1
<1>2. ASSUME NEW r \in Requests, EditCommit(r) \/ DeleteCommit(r)
      PROVE  /\ messages'[m].chat = messages[m].chat
             /\ messages'[m].sender = messages[m].sender
             /\ messages'[m].created = messages[m].created
             /\ messages[m].deleted => messages'[m].deleted
  <2>1. CASE UNCHANGED messages
    BY <2>1
  <2>2. CASE /\ req[r].msg \in DOMAIN messages
             /\ \/ messages' = [messages EXCEPT ![req[r].msg].edited = TRUE]
                \/ messages' = [messages EXCEPT ![req[r].msg].deleted = TRUE]
    BY <2>2, EditedRow DEF IndInv
  <2> QED
    BY <1>2, <2>1, <2>2 DEF EditCommit, DeleteCommit
<1>3. ASSUME NEW r \in Requests, SendCommit(r) \/ DeleteChatCommit(r)
      PROVE  messages'[m] = messages[m]
  <2>1. CASE SendCommit(r)
    BY <2>1, PendingMessageIds DEF SendCommit, Insert
  <2>2. CASE DeleteChatCommit(r)
    BY <2>2 DEF DeleteChatCommit, Restrict
  <2> QED
    BY <1>3, <2>1, <2>2
<1> QED
  BY <1>1, <1>2, <1>3, MessagesUntouched

(***************************************************************************)
(* The messages of a chat that remains stay.                               *)
(***************************************************************************)
LEMMA MessagesStay ==
    ASSUME IndInv, [Next]_vars, NEW m \in DOMAIN messages, messages[m].chat \in DOMAIN chats'
    PROVE  m \in DOMAIN messages'
BY MessageChanges, MessagesUntouched

(***************************************************************************)
(* A chat whose id has been drawn, and that nobody is about to create, is  *)
(* not created.                                                            *)
(***************************************************************************)
Settled(c) ==
    /\ c \in issued
    /\ \A r \in Requests : At(r, "create", "write") => req[r].chat # c

LEMMA SettledStays ==
    ASSUME IndInv, [Next]_vars, NEW c \in ChatIds, Settled(c)
    PROVE  /\ Settled(c)'
           /\ c \in DOMAIN chats' => c \in DOMAIN chats
<1>1. IndInv'
  BY StepIndInv
<1>2. issued \subseteq issued'
  BY DEF Next, vars, db, NothingToDo, CreateLookup, CreateCommit, SendCheck, SendCommit, Reread,
         EditCheck, EditCommit, DeleteCheck, DeleteCommit, DeleteChatCheck, DeleteChatCommit,
         MarkLoad, MarkLatest, MarkCommit, AnswerError
<1>3. ASSUME c \in DOMAIN chats' PROVE c \in DOMAIN chats
  <2>1. CASE \E r \in Requests : CreateCommit(r) \/ DeleteChatCommit(r)
    BY <1>3, <2>1 DEF CreateCommit, DeleteChatCommit, Insert, Restrict, Settled
  <2>2. CASE UNCHANGED chats
    BY <1>3, <2>2
  <2> QED
    BY <2>1, <2>2
    DEF Next, vars, db, NothingToDo, CreateLookup, SendCheck, SendCommit, Reread,
        EditCheck, EditCommit, DeleteCheck, DeleteCommit, DeleteChatCheck,
        MarkLoad, MarkLatest, MarkCommit, AnswerError
<1>4. ASSUME NEW s \in Requests, At(s, "create", "write")', req'[s].chat = c PROVE FALSE
  <2>1. req \in [Requests -> RequestState]
    BY DEF IndInv, TypeOK
  <2>2. req'[s] # req[s]
    BY <1>4 DEF At, Settled
  <2>3. \A r \in Requests : \A q : req' = [req EXCEPT ![r] = q] => r = s /\ req'[s] = q
    BY <2>1, <2>2
  <2>4. \A r \in Requests : ~Answer(r)
    BY <1>4, <2>3, IdleTyped DEF Answer, At, Idle
  <2>5. \A r \in Requests : \A step \in {"reread", "failed"} : ~Goto(r, step)
    <3>1. ASSUME NEW r \in Requests, NEW step \in {"reread", "failed"}, Goto(r, step)
          PROVE  FALSE
      <4>1. req'[s] = [req[s] EXCEPT !.step = step]
        BY <2>3, <3>1 DEF Goto
      <4>2. req'[s].step = step
        BY <2>1, <4>1 DEF RequestState
      <4> QED
        BY <1>4, <4>2 DEF At
    <3> QED
      BY <3>1
  <2>6. \A r \in Requests : \A t : At(r, "mark", "latest") => ~Choose(r, t)
    <3>1. ASSUME NEW r \in Requests, NEW t, At(r, "mark", "latest"), Choose(r, t) PROVE FALSE
      <4>1. r = s
        BY <2>1, <2>2, <3>1 DEF Choose
      <4>2. req[s] \in RequestState /\ req[s].op = "mark"
        BY <2>1, <3>1, <4>1 DEF At
      <4>3. req'[s] = [req[s] EXCEPT !.step = "write", !.at = t,
                                     !.shown = VisibleMessages(req[s].chat)]
        BY <2>1, <3>1, <4>1 DEF Choose
      <4>4. req'[s].op = "mark"
        BY <4>2, <4>3 DEF RequestState
      <4> QED
        BY <1>4, <4>4 DEF At
    <3> QED
      BY <3>1
  <2>7. \A r \in Requests : \A op, step, u, d, p, m, at, seen :
           req' = [req EXCEPT ![r] = Begin(op, step, u, d, p, m, at, seen)] =>
              op = "create" /\ d = c
    <3>1. ASSUME NEW r \in Requests, NEW op, NEW step, NEW u, NEW d, NEW p, NEW m, NEW at,
                 NEW seen, req' = [req EXCEPT ![r] = Begin(op, step, u, d, p, m, at, seen)]
          PROVE  op = "create" /\ d = c
      <4>1. req'[s] = Begin(op, step, u, d, p, m, at, seen)
        BY <2>3, <3>1
      <4> QED
        BY <1>4, <4>1 DEF At, Begin
    <3> QED
      BY <3>1
  <2>8. ASSUME NEW r \in Requests, NEW u \in Users, NEW v \in Users, NEW d \in ChatIds,
               CreateLookup(r, u, v, d)
        PROVE  FALSE
    <3>1. req' = [req EXCEPT ![r] = Begin("create", "write", u, d, {u, v}, None, Now, 0)]
      BY <2>8 DEF CreateLookup
    <3>2. req'[s] = Begin("create", "write", u, d, {u, v}, None, Now, 0)
      BY <2>3, <3>1
    <3>3. d = c
      BY <1>4, <3>2 DEF Begin
    <3> QED
      BY <2>8, <3>3 DEF CreateLookup, Settled
  <2> QED
    BY <2>2, <2>4, <2>5, <2>6, <2>7, <2>8
    DEF Next, vars, NothingToDo, CreateCommit, SendCheck, SendCommit, Reread,
        EditCheck, EditCommit, DeleteCheck, DeleteCommit, DeleteChatCheck, DeleteChatCommit,
        MarkLoad, MarkLatest, MarkCommit, AnswerError
<1> QED
  BY <1>2, <1>3, <1>4 DEF Settled

(***************************************************************************)
(* When the history of a chat is what a reader saw of it earlier, and      *)
(* nothing had left it in the meantime, a step has changed neither its     *)
(* history nor its messages.                                               *)
(***************************************************************************)
LEMMA HistoryGrows ==
    ASSUME IndInv, [Next]_vars, NEW c \in DOMAIN chats', c \in DOMAIN chats
    PROVE  \A m \in DOMAIN History(c) :
              /\ m \in DOMAIN History(c)'
              /\ History(c)[m] => History(c)'[m]
<1> SUFFICES ASSUME NEW m \in DOMAIN History(c)
             PROVE  m \in DOMAIN History(c)' /\ (History(c)[m] => History(c)'[m])
  OBVIOUS
<1>1. m \in DOMAIN messages /\ messages[m].chat = c /\ History(c)[m] = messages[m].deleted
  BY DEF History
<1>2. m \in DOMAIN messages'
  BY <1>1, MessagesStay
<1>3. messages'[m].chat = c /\ (messages[m].deleted => messages'[m].deleted)
  BY <1>1, <1>2, MessagesKept
<1> QED
  BY <1>1, <1>2, <1>3 DEF History

LEMMA QuietChat ==
    ASSUME IndInv, [Next]_vars, NEW c \in DOMAIN chats', c \in DOMAIN chats, NEW h,
           h = History(c)', \A m \in DOMAIN h : m \in DOMAIN History(c) /\ (h[m] => History(c)[m])
    PROVE  /\ h = History(c)
           /\ VisibleMessages(c)' = VisibleMessages(c)
           /\ \A m \in VisibleMessages(c) : /\ messages'[m].sender = messages[m].sender
                                            /\ messages'[m].created = messages[m].created
<1>1. DOMAIN h = DOMAIN History(c)
  BY HistoryGrows
<1>2. \A m \in DOMAIN h : h[m] \in BOOLEAN /\ History(c)[m] \in BOOLEAN
  <2>1. IndInv'
    BY StepIndInv
  <2> QED
    BY <1>1, <2>1 DEF History, IndInv, TypeOK
<1>3. \A m \in DOMAIN h : h[m] = History(c)[m]
  BY <1>1, <1>2, HistoryGrows
<1>4. h = History(c)
  <2>1. h = [m \in DOMAIN h |-> h[m]] /\ History(c) = [m \in DOMAIN History(c) |-> History(c)[m]]
    BY DEF History
  <2> QED
    BY <1>1, <1>3, <2>1
<1>5. /\ VisibleMessages(c) = {m \in DOMAIN History(c) : ~History(c)[m]}
      /\ VisibleMessages(c)' = {m \in DOMAIN h : ~h[m]}
  BY DEF VisibleMessages, History
<1>6. VisibleMessages(c)' = VisibleMessages(c)
  BY <1>4, <1>5
<1>7. ASSUME NEW m \in VisibleMessages(c)
      PROVE  messages'[m].sender = messages[m].sender /\ messages'[m].created = messages[m].created
  BY <1>6, MessagesKept DEF VisibleMessages
<1> QED
  BY <1>4, <1>6, <1>7

-----------------------------------------------------------------------------
(* Readers while a writing request moves. *)

LEMMA HistoryStays ==
    ASSUME IndInv, [Next]_vars, NEW c \in ChatIds, NEW h, KeepsHistory(c, h)
    PROVE  KeepsHistory(c, h)'
<1>1. Settled(c)
  BY DEF KeepsHistory, Settled
<1>2. Settled(c)' /\ (c \in DOMAIN chats' => c \in DOMAIN chats)
  BY <1>1, SettledStays
<1>3. ASSUME c \in DOMAIN chats', NEW m \in DOMAIN h
      PROVE  m \in DOMAIN History(c)' /\ (h[m] => History(c)'[m])
  <2>1. m \in DOMAIN History(c) /\ (h[m] => History(c)[m])
    BY <1>2, <1>3 DEF KeepsHistory
  <2> QED
    BY <1>2, <1>3, <2>1, HistoryGrows
<1> QED
  BY <1>2, <1>3 DEF KeepsHistory, Settled

LEMMA RowsStaySound ==
    ASSUME IndInv, [Next]_vars, NEW q, ItemTyped(q), RowsSound(q)
    PROVE  RowsSound(q)'
BY HistoryStays DEF RowsSound, ItemTyped

LEMMA ItemStaysSound ==
    ASSUME IndInv, [Next]_vars, NEW q, ItemTyped(q), ItemSound(q)
    PROVE  ItemSound(q)'
<1>1. RowsSound(q)'
  BY RowsStaySound DEF ItemSound
<1> DEFINE c == q.chat
<1>2. ASSUME q.step \in {"marker", "count", "built"}, Undisturbed(q)'
      PROVE  /\ Undisturbed(q)
             /\ VisibleMessages(c)' = VisibleMessages(c)
             /\ \A m \in VisibleMessages(c) : /\ messages'[m].sender = messages[m].sender
                                              /\ messages'[m].created = messages[m].created
  <2>1. c \in DOMAIN q.rows /\ c \in ChatIds /\ Settled(c)
    BY <1>2 DEF ItemTyped, ItemSound, RowsSound, KeepsHistory, Settled
  <2>2. c \in DOMAIN chats' /\ q.before[c] = History(c)'
    BY <1>2 DEF Undisturbed
  <2>3. c \in DOMAIN chats
    BY <2>1, <2>2, SettledStays
  <2>4. \A m \in DOMAIN q.before[c] :
           m \in DOMAIN History(c) /\ (q.before[c][m] => History(c)[m])
    BY <2>1, <2>3 DEF ItemSound, RowsSound, KeepsHistory
  <2> HIDE DEF c
  <2>5. /\ q.before[c] = History(c)
        /\ VisibleMessages(c)' = VisibleMessages(c)
        /\ \A m \in VisibleMessages(c) : /\ messages'[m].sender = messages[m].sender
                                         /\ messages'[m].created = messages[m].created
    BY <2>2, <2>3, <2>4, QuietChat
  <2> QED
    BY <2>3, <2>5 DEF Undisturbed, c
<1>3. ASSUME q.step \in {"marker", "count", "built"}, Undisturbed(q)'
      PROVE  LastSound(q)'
  <2>1. LastSound(q)
    BY <1>2, <1>3 DEF ItemSound
  <2>2. LatestMessages(c)' = LatestMessages(c)
    BY <1>2, <1>3 DEF LatestMessages
  <2>3. \A m \in LatestMessages(c) : m \in VisibleMessages(c)
    BY DEF LatestMessages
  <2> QED
    BY <1>2, <1>3, <2>1, <2>2, <2>3 DEF LastSound
<1>4. ASSUME q.step \in {"marker", "count", "built"}, Undisturbed(q)', CountSound(q)
      PROVE  CountSound(q)'
  <2>1. Unread(q.user, c, q.rows[c])' = Unread(q.user, c, q.rows[c])
    BY <1>2, <1>4 DEF Unread
  <2> QED
    BY <1>4, <2>1 DEF CountSound
<1>5. ASSUME q.step = "built" \/ (q.step = "marker" /\ q.op = "update"), Undisturbed(q)'
      PROVE  CountSound(q)'
  <2>1. CountSound(q)
    BY <1>2, <1>5 DEF ItemSound
  <2> QED
    BY <1>4, <1>5, <2>1
<1> QED
  BY <1>1, <1>3, <1>5 DEF ItemSound

-----------------------------------------------------------------------------
(* The steps of the readers. *)

(***************************************************************************)
(* One reader changes its local state to n, which is sound if it is that   *)
(* of an item.                                                             *)
(***************************************************************************)
LEMMA ItemMoves ==
    ASSUME IndInv, ReadersTypeOK, ReadersTypeOK', ItemsInv, UNCHANGED vars,
           NEW d \in Readers, NEW n, ReadGoto(d, n),
           n.step \in {"companion", "last", "marker", "count", "built"} => ItemSound(n)
    PROVE  ItemsInv'
<1> SUFFICES ASSUME NEW e \in Readers, NEW q, q = reading'[e],
                    q.step \in {"companion", "last", "marker", "count", "built"}
             PROVE  ItemSound(q)'
  BY DEF ItemsInv
<1>1. ItemTyped(q)
  BY DEF ReadersTypeOK, ReadIdle, PagesTyped
<1>2. ItemSound(q)
  <2>1. CASE e = d
    BY <2>1 DEF ReadGoto, ReadersTypeOK
  <2>2. CASE e # d
    BY <2>2 DEF ReadGoto, ReadersTypeOK, ItemsInv
  <2> QED
    BY <2>1, <2>2
<1> QED
  BY <1>1, <1>2, ItemStaysSound

LEMMA BeginSound ==
    ASSUME IndInv, NEW op \in {"list", "details", "update"}, NEW u \in Users, NEW cs,
           \A c \in cs : IsParticipant(u, c)
    PROVE  ItemSound(Building(op, u, cs))
<1> DEFINE n == Building(op, u, cs)
<1>1. /\ DOMAIN n.rows = cs /\ DOMAIN n.before = cs
      /\ \A c \in cs : n.before[c] = History(c)
      /\ n.step = "companion" /\ n.last = None
  BY DEF Building
<1> HIDE DEF n
<1>2. ASSUME NEW c \in cs PROVE c \in DOMAIN chats
  BY <1>2 DEF IsParticipant, IndInv, StoreInv, TwoMarkersPerChat
<1>3. \A c \in cs : c \in issued
  BY <1>2 DEF IndInv, IdsAndStamps
<1>4. \A c \in cs : \A r \in Requests : At(r, "create", "write") => req[r].chat # c
  BY <1>2 DEF IndInv, RequestsSound, CreateSound
<1>5. RowsSound(n)
  BY <1>1, <1>3, <1>4 DEF RowsSound, KeepsHistory
<1> QED
  BY <1>1, <1>5 DEF ItemSound, n

(***************************************************************************)
(* What an item knows of its chat does not depend on its step.             *)
(***************************************************************************)
LEMMA SameItem ==
    ASSUME NEW q, NEW n, n.user = q.user, n.chat = q.chat, n.rows = q.rows,
           n.before = q.before
    PROVE  /\ RowsSound(q) => RowsSound(n)
           /\ Undisturbed(n) => Undisturbed(q)
           /\ n.last = q.last => (LastSound(q) => LastSound(n))
           /\ n.unread = q.unread => (CountSound(q) => CountSound(n))
BY DEF RowsSound, Undisturbed, LastSound, CountSound

LEMMA CompanionSound ==
    ASSUME NEW q, ItemTyped(q), ItemSound(q), q.step = "companion", NEW c
    PROVE  ItemSound([q EXCEPT !.step = "last", !.chat = c])
<1> DEFINE n == [q EXCEPT !.step = "last", !.chat = c]
<1>1. n.step = "last" /\ n.rows = q.rows /\ n.before = q.before /\ n.last = q.last
  BY DEF ItemTyped, ItemFields
<1> HIDE DEF n
<1>2. RowsSound(n)
  BY <1>1 DEF ItemSound, RowsSound
<1> QED
  BY <1>1, <1>2 DEF ItemSound, n

LEMMA LastReadSound ==
    ASSUME IndInv, ReadersTypeOK, ReadersTypeOK', ItemsInv, UNCHANGED vars,
           NEW d \in Readers, ReadLast(d)
    PROVE  ItemsInv'
<1> PICK q : q = reading[d]
  OBVIOUS
<1>1. ItemTyped(q) /\ ItemSound(q) /\ q.step = "last" /\ q.last = None
  BY ItemSteps DEF ReadLast, ItemsInv, ItemSound
<1> DEFINE next == IF q.op = "update" THEN "count" ELSE "marker"
<1>2. ASSUME NEW m \in LatestMessages(q.chat),
             ReadGoto(d, [q EXCEPT !.step = next,
                                   !.last = [own |-> messages[m].sender = q.user,
                                             created |-> messages[m].created]])
      PROVE  ItemsInv'
  <2> DEFINE last == [own |-> messages[m].sender = q.user, created |-> messages[m].created]
             n == [q EXCEPT !.step = next, !.last = last]
  <2>1. /\ n.step = next /\ n.last = last /\ n.op = q.op /\ n.user = q.user
        /\ n.chat = q.chat /\ n.rows = q.rows /\ n.before = q.before
    BY <1>1 DEF ItemTyped, ItemFields
  <2>2. ReadGoto(d, n)
    BY <1>2
  <2> HIDE DEF n
  <2>3. LastSound(n)
    BY <1>2, <2>1 DEF LastSound
  <2> HIDE DEF last
  <2>4. ItemSound(n)
    BY <1>1, <2>1, <2>3, SameItem DEF ItemSound
  <2> QED
    BY <2>2, <2>4, ItemMoves
<1>3. ASSUME VisibleMessages(q.chat) = {}, ReadGoto(d, [q EXCEPT !.step = next])
      PROVE  ItemsInv'
  <2> DEFINE n == [q EXCEPT !.step = next]
  <2>1. /\ n.step = next /\ n.last = None /\ n.op = q.op /\ n.user = q.user
        /\ n.chat = q.chat /\ n.rows = q.rows /\ n.before = q.before
    BY <1>1 DEF ItemTyped, ItemFields
  <2>2. ReadGoto(d, n)
    BY <1>3
  <2> HIDE DEF n
  <2>3. LastSound(n)
    BY <1>3, <2>1 DEF LastSound
  <2>4. ItemSound(n)
    BY <1>1, <2>1, <2>3, SameItem DEF ItemSound
  <2> QED
    BY <2>2, <2>4, ItemMoves
<1> QED
  BY <1>2, <1>3 DEF ReadLast

LEMMA IdleMoves ==
    ASSUME IndInv, ReadersTypeOK, ReadersTypeOK', ItemsInv, UNCHANGED vars,
           NEW d \in Readers, ReadGoto(d, ReadIdle)
    PROVE  ItemsInv'
BY ItemMoves DEF ReadIdle

LEMMA MarkerReadSound ==
    ASSUME IndInv, ReadersTypeOK, ReadersTypeOK', ItemsInv, UNCHANGED vars,
           NEW d \in Readers, ReadMarker(d)
    PROVE  ItemsInv'
<1> PICK q : q = reading[d]
  OBVIOUS
<1>1. ItemTyped(q) /\ ItemSound(q) /\ q.step = "marker"
  BY ItemSteps DEF ReadMarker, ItemsInv
<1> DEFINE next == IF q.op = "update" THEN "built" ELSE "count"
<1>2. ASSUME NEW read, ReadGoto(d, [q EXCEPT !.step = next, !.read = read])
      PROVE  ItemsInv'
  <2> DEFINE n == [q EXCEPT !.step = next, !.read = read]
  <2>1. /\ n.step = next /\ n.last = q.last /\ n.op = q.op /\ n.user = q.user
        /\ n.chat = q.chat /\ n.rows = q.rows /\ n.before = q.before /\ n.unread = q.unread
    BY <1>1 DEF ItemTyped, ItemFields
  <2>2. ReadGoto(d, n)
    BY <1>2
  <2> HIDE DEF n
  <2>3. ItemSound(n)
    BY <1>1, <2>1, SameItem DEF ItemSound
  <2> QED
    BY <2>2, <2>3, ItemMoves
<1>3. CASE ReadGoto(d, ReadIdle)
  BY <1>3, IdleMoves
<1> QED
  BY <1>2, <1>3 DEF ReadMarker, NotFound

LEMMA CountReadSound ==
    ASSUME IndInv, ReadersTypeOK, ReadersTypeOK', ItemsInv, UNCHANGED vars,
           NEW d \in Readers, CountUnread(d)
    PROVE  ItemsInv'
<1> PICK q : q = reading[d]
  OBVIOUS
<1>1. ItemTyped(q) /\ ItemSound(q) /\ q.step = "count"
  BY ItemSteps DEF CountUnread, ItemsInv
<1> DEFINE next == IF q.op = "update" THEN "marker" ELSE "built"
           k == Cardinality(Unread(q.user, q.chat, q.rows[q.chat]))
           n == [q EXCEPT !.step = next, !.unread = k]
<1>2. /\ n.step = next /\ n.last = q.last /\ n.op = q.op /\ n.user = q.user
      /\ n.chat = q.chat /\ n.rows = q.rows /\ n.before = q.before /\ n.unread = k
  BY <1>1 DEF ItemTyped, ItemFields
<1>3. ReadGoto(d, n)
  BY DEF CountUnread, Counted
<1> HIDE DEF n
<1>4. CountSound(n)
  BY <1>2 DEF CountSound
<1> HIDE DEF k
<1>5. ItemSound(n)
  BY <1>1, <1>2, <1>4, SameItem DEF ItemSound
<1> QED
  BY <1>3, <1>5, ItemMoves

LEMMA NextItemSound ==
    ASSUME IndInv, ReadersTypeOK, ReadersTypeOK', ItemsInv, UNCHANGED vars,
           NEW d \in Readers, NextItem(d)
    PROVE  ItemsInv'
<1> PICK q : q = reading[d]
  OBVIOUS
<1>1. ItemTyped(q) /\ ItemSound(q)
  BY ItemSteps DEF NextItem, ItemsInv
<1> DEFINE rest == DOMAIN q.rows \ {q.chat}
           n == [q EXCEPT !.step = "companion", !.rows = Restrict(@, rest),
                          !.before = Restrict(@, rest),
                          !.chat = None, !.last = None, !.unread = 0, !.read = FALSE]
<1>2. /\ n.step = "companion" /\ n.last = None
      /\ n.rows = Restrict(q.rows, rest) /\ n.before = Restrict(q.before, rest)
  BY <1>1 DEF ItemTyped, ItemFields
<1>3. ReadGoto(d, n) \/ ReadGoto(d, ReadIdle)
  BY DEF NextItem
<1> HIDE DEF n
<1>4. /\ DOMAIN n.rows = rest /\ DOMAIN n.before = rest
      /\ \A c \in rest : n.before[c] = q.before[c]
  BY <1>1, <1>2 DEF Restrict, ItemSound, RowsSound
<1>5. RowsSound(n)
  BY <1>1, <1>4 DEF ItemSound, RowsSound
<1>6. ItemSound(n)
  BY <1>2, <1>5 DEF ItemSound
<1> QED
  BY <1>3, <1>6, ItemMoves, IdleMoves

(***************************************************************************)
(* A client that pages builds no item.                                     *)
(***************************************************************************)
LEMMA PagesBuildNothing ==
    ASSUME IndInv, ReadersTypeOK, ReadersTypeOK', ItemsInv, UNCHANGED vars, NEW d \in Readers,
           \/ \E u \in Users, c \in ChatIds, l \in Limits : BeginPages(d, u, c, l)
           \/ ReadPage(d) \/ ReadPageMarker(d) \/ EndPages(d)
    PROVE  ItemsInv'
<1>1. PICK n : ReadGoto(d, n) /\ n.step \notin {"companion", "last", "marker", "count", "built"}
  <2>1. CASE \E u \in Users, c \in ChatIds, l \in Limits : BeginPages(d, u, c, l)
    BY <2>1 DEF BeginPages
  <2>2. CASE ReadPage(d)
    <3>1. PagesTyped(reading[d])
      BY <2>2, PageSteps DEF ReadPage
    <3>2. \/ ReadGoto(d, ReadIdle)
          \/ \E p : ReadGoto(d, [reading[d] EXCEPT !.step = "pageMarker", !.page = p])
      BY <2>2 DEF ReadPage, NotFound
    <3>3. \A p : [reading[d] EXCEPT !.step = "pageMarker", !.page = p].step = "pageMarker"
      BY <3>1 DEF PagesTyped, PageFields
    <3>4. ReadIdle.step = "idle"
      BY DEF ReadIdle
    <3> QED
      BY <3>2, <3>3, <3>4
  <2>3. CASE ReadPageMarker(d)
    <3>1. PagesTyped(reading[d])
      BY <2>3, PageSteps DEF ReadPageMarker
    <3>2. \/ ReadGoto(d, ReadIdle)
          \/ \E s \in {"page", "paged"} : \E o, g :
                ReadGoto(d, [reading[d] EXCEPT !.step = s, !.offset = o, !.page = {}, !.got = g])
      BY <2>3 DEF ReadPageMarker, NotFound
    <3>3. \A s \in {"page", "paged"} : \A o, g :
             [reading[d] EXCEPT !.step = s, !.offset = o, !.page = {}, !.got = g].step = s
      BY <3>1 DEF PagesTyped, PageFields
    <3>4. ReadIdle.step = "idle"
      BY DEF ReadIdle
    <3> QED
      BY <3>2, <3>3, <3>4
  <2>4. CASE EndPages(d)
    BY <2>4 DEF EndPages, ReadIdle
  <2> QED
    BY <2>1, <2>2, <2>3, <2>4
<1> QED
  BY <1>1, ItemMoves

LEMMA ReadNextSound ==
    ASSUME IndInv, ReadersTypeOK, ReadersTypeOK', ItemsInv, UNCHANGED vars, ReadNext
    PROVE  ItemsInv'
<1>1. ASSUME NEW d \in Readers, NEW u \in Users, BeginList(d, u) PROVE ItemsInv'
  <2> DEFINE cs == {c \in DOMAIN chats : IsParticipant(u, c)}
  <2>1. \A c \in cs : IsParticipant(u, c)
    OBVIOUS
  <2>2. ReadGoto(d, Building("list", u, cs))
    BY <1>1 DEF BeginList
  <2> HIDE DEF cs
  <2> QED
    BY <2>1, <2>2, BeginSound, ItemMoves
<1>2. ASSUME NEW d \in Readers, NEW op \in {"details", "update"}, NEW u \in Users,
             NEW c \in ChatIds, BeginItem(d, op, u, c)
      PROVE  ItemsInv'
  BY <1>2, BeginSound, ItemMoves DEF BeginItem
<1>3. ASSUME NEW d \in Readers, ReadCompanion(d) PROVE ItemsInv'
  <2> PICK q : q = reading[d]
    OBVIOUS
  <2>1. ItemTyped(q) /\ ItemSound(q) /\ q.step = "companion"
    BY <1>3, ItemSteps DEF ReadCompanion, ItemsInv
  <2>2. PICK c : ReadGoto(d, [q EXCEPT !.step = "last", !.chat = c]) \/ ReadGoto(d, ReadIdle)
    BY <1>3 DEF ReadCompanion, NotFound
  <2> QED
    BY <2>1, <2>2, CompanionSound, ItemMoves, IdleMoves
<1> QED
  BY <1>1, <1>2, <1>3, LastReadSound, MarkerReadSound, CountReadSound, NextItemSound,
     PagesBuildNothing
  DEF ReadNext

-----------------------------------------------------------------------------
(* The theorem. *)

LEMMA ItemsStep ==
    MigrationInv /\ ItemsInv /\ [MigrationNext]_migrationVars => ItemsInv'
<1> SUFFICES ASSUME MigrationInv, ItemsInv, [MigrationNext]_migrationVars PROVE ItemsInv'
  OBVIOUS
<1>1. IndInv /\ ReadersTypeOK
  BY DEF MigrationInv
<1>2. ReadersTypeOK'
  BY MigrationStepInv DEF MigrationInv
<1>3. ASSUME [Next]_vars, UNCHANGED reading PROVE ItemsInv'
  <2> SUFFICES ASSUME NEW d \in Readers, NEW q, q = reading'[d],
                      q.step \in {"companion", "last", "marker", "count", "built"}
               PROVE  ItemSound(q)'
    BY DEF ItemsInv
  <2>1. q = reading[d]
    BY <1>3
  <2>2. ItemTyped(q) /\ ItemSound(q)
    BY <1>1, <2>1, ItemSteps DEF ItemsInv
  <2> QED
    BY <1>1, <1>3, <2>2, ItemStaysSound
<1>4. CASE UNCHANGED migrationVars
  BY <1>3, <1>4 DEF migrationVars
<1>5. CASE Upgrade
  <2>1. \A d \in Readers : reading'[d] = ReadIdle
    BY <1>5 DEF Upgrade, MigrationInv, BeforeUpgrade, ReadInit
  <2>2. ReadIdle.step = "idle"
    BY DEF ReadIdle
  <2> QED
    BY <2>1, <2>2 DEF ItemsInv
<1>6. CASE Serve
  BY <1>1, <1>2, <1>3, <1>6, ReadNextSound DEF Serve, ReadersNext
<1> QED
  BY <1>4, <1>5, <1>6 DEF MigrationNext, UpgradeRefused

(***************************************************************************)
(* A counter is positive exactly when there is something to count.         *)
(***************************************************************************)
LEMMA PositiveCount ==
    ASSUME NEW S \in SUBSET MessageIds PROVE Cardinality(S) > 0 <=> S # {}
BY FS_Subset, FS_EmptySet, FS_CardinalityType, ReaderConstants

LEMMA CoherentItem ==
    ASSUME IndInv, ReadersTypeOK, ItemsInv PROVE ItemCoherent
<1> SUFFICES ASSUME NEW d \in Readers, NEW q, q = reading[d], q.step = "built", Undisturbed(q)
             PROVE  /\ q.unread > 0 =>
                          q.last # None /\ (q.last.own \/ q.rows[q.chat] < q.last.created)
                    /\ q.last # None =>
                          (q.last.own \/ q.last.created <= q.rows[q.chat] \/ q.unread > 0)
  BY DEF ItemCoherent, Undisturbed
<1>1. ItemTyped(q) /\ LastSound(q) /\ CountSound(q)
  BY ItemSteps DEF ItemsInv, ItemSound
<1> DEFINE marker == q.rows[q.chat]
           unread == Unread(q.user, q.chat, marker)
<1>2. marker \in Nat
  BY <1>1 DEF ItemTyped
<1>3. /\ unread \subseteq VisibleMessages(q.chat)
      /\ \A m \in VisibleMessages(q.chat) :
            m \in unread <=> messages[m].sender # q.user /\ marker < messages[m].created
      /\ \A m \in VisibleMessages(q.chat) : m \in MessageIds /\ messages[m].created \in Nat
  BY DEF Unread, VisibleMessages, IndInv, TypeOK
<1>4. q.unread > 0 <=> unread # {}
  BY <1>1, <1>3, PositiveCount DEF CountSound
<1> HIDE DEF marker, unread
<1>5. CASE q.last = None /\ VisibleMessages(q.chat) = {}
  BY <1>3, <1>4, <1>5
<1>6. CASE \E m \in LatestMessages(q.chat) :
              q.last = [own |-> messages[m].sender = q.user, created |-> messages[m].created]
  <2>1. PICK m \in LatestMessages(q.chat) :
              q.last = [own |-> messages[m].sender = q.user, created |-> messages[m].created]
    BY <1>6
  <2>2. /\ m \in VisibleMessages(q.chat)
        /\ \A k \in VisibleMessages(q.chat) : messages[k].created <= messages[m].created
    BY DEF LatestMessages
  <2>3. /\ q.last.created = messages[m].created /\ q.last.created \in Nat
        /\ q.last.own <=> messages[m].sender = q.user
        /\ q.last # None
    <3>1. /\ messages[m].created \in Nat
          /\ (messages[m].sender = q.user) \in BOOLEAN
      BY <1>3, <2>2
    <3>2. q.last \in [own : BOOLEAN, created : Nat]
      BY <2>1, <3>1
    <3>3. q.last # None
      BY <3>2, ReaderConstants
    <3>4. q.last.created = messages[m].created /\ q.last.created \in Nat
      BY <2>1, <3>1
    <3>5. q.last.own = (messages[m].sender = q.user)
      BY <2>1
    <3> QED
      BY <3>3, <3>4, <3>5
  <2>4. unread # {} => marker < q.last.created
    BY <1>2, <1>3, <2>2, <2>3
  <2>5. ~q.last.own /\ marker < q.last.created => unread # {}
    BY <1>3, <2>2, <2>3
  <2> QED
    BY <1>2, <1>4, <2>3, <2>4, <2>5 DEF marker
<1> QED
  BY <1>1, <1>5, <1>6 DEF LastSound

(***************************************************************************)
(* In the list, the details and the payload, the counter of unread         *)
(* messages and the last message agree unless something of the chat was    *)
(* added or deleted meanwhile, after an upgrade of a trusted database.     *)
(***************************************************************************)
THEOREM ItemsCoherent == Trusted /\ MigrationSpec => []ItemCoherent
<1>1. MigrationInit => ItemsInv
  <2> SUFFICES ASSUME MigrationInit PROVE ItemsInv
    OBVIOUS
  <2>1. \A d \in Readers : reading[d] = ReadIdle
    BY DEF MigrationInit, BeforeUpgrade, ReadInit
  <2>2. ReadIdle.step = "idle"
    BY DEF ReadIdle
  <2> QED
    BY <2>1, <2>2 DEF ItemsInv
<1>2. Trusted /\ MigrationSpec => []ItemsInv
  BY <1>1, ItemsStep, MigrationInvariance, PTL DEF MigrationSpec
<1>3. MigrationInv /\ ItemsInv => ItemCoherent
  BY CoherentItem DEF MigrationInv
<1> QED
  BY <1>2, <1>3, MigrationInvariance, PTL
-----------------------------------------------------------------------------
(* Pages while a writing request moves. *)

\* What was there when the reader began, and was not deleted since, is visible.
LEMMA WantedVisible ==
    ASSUME NEW q, NothingLost(q), NEW m \in Wanted(q)
    PROVE  m \in VisibleMessages(q.chat)
BY DEF NothingLost, Wanted, History, VisibleMessages

\* The messages of a chat are finitely many, and so is every part of them.
LEMMA VisibleCounted ==
    ASSUME TypeOK, NEW c
    PROVE  /\ IsFiniteSet(VisibleMessages(c))
           /\ \A n \in VisibleMessages(c) : messages[n].created \in Nat
           /\ \A S \in SUBSET VisibleMessages(c) :
                 IsFiniteSet(S) /\ Cardinality(S) \in Nat
           /\ \A S \in SUBSET VisibleMessages(c) : \A T \in SUBSET S :
                 /\ Cardinality(T) <= Cardinality(S)
                 /\ T # S => Cardinality(T) < Cardinality(S)
<1>1. VisibleMessages(c) \subseteq MessageIds
  BY DEF VisibleMessages, TypeOK
<1>2. \A n \in VisibleMessages(c) : messages[n].created \in Nat
  BY DEF VisibleMessages, TypeOK
<1>3. IsFiniteSet(VisibleMessages(c))
  BY <1>1, FS_Subset, ReaderConstants
<1>4. \A S \in SUBSET VisibleMessages(c) : IsFiniteSet(S) /\ Cardinality(S) \in Nat
  BY <1>3, FS_Subset, FS_CardinalityType
<1>5. ASSUME NEW S \in SUBSET VisibleMessages(c), NEW T \in SUBSET S
      PROVE  /\ Cardinality(T) <= Cardinality(S)
             /\ T # S => Cardinality(T) < Cardinality(S)
  <2>1. /\ Cardinality(T) <= Cardinality(S)
        /\ Cardinality(S) = Cardinality(T) => S = T
    BY <1>4, <1>5, FS_Subset
  <2>2. Cardinality(S) \in Nat /\ Cardinality(T) \in Nat
    BY <1>4, <1>5
  <2> QED
    BY <2>1, <2>2
<1> QED
  BY <1>2, <1>3, <1>4, <1>5

LEMMA PositionCounted ==
    ASSUME TypeOK, NEW c, NEW m PROVE Position(m, c) \in Nat
BY VisibleCounted DEF Position

\* While a chat loses nothing, nothing in it moves forward.
LEMMA PositionGrows ==
    ASSUME IndInv, [Next]_vars, NEW c, NEW m \in VisibleMessages(c),
           VisibleMessages(c) \subseteq VisibleMessages(c)'
    PROVE  Position(m, c) <= Position(m, c)'
<1> DEFINE earlier == {n \in VisibleMessages(c) : messages[n].created < messages[m].created}
           later == {n \in VisibleMessages(c)' : messages'[n].created < messages'[m].created}
<1>1. IndInv'
  BY StepIndInv
<1>2. \A n \in VisibleMessages(c) : messages'[n].created = messages[n].created
  BY MessagesKept DEF VisibleMessages
<1>3. earlier \in SUBSET later
  BY <1>2
<1>4. later \subseteq MessageIds
  BY <1>1 DEF VisibleMessages, IndInv, TypeOK
<1>5. IsFiniteSet(later)
  BY <1>4, FS_Subset, ReaderConstants
<1>6. Position(m, c) = Cardinality(earlier) /\ Position(m, c)' = Cardinality(later)
  BY DEF Position
<1> HIDE DEF earlier, later
<1> QED
  BY <1>3, <1>5, <1>6, FS_Subset

LEMMA PagesStaySound ==
    ASSUME IndInv, [Next]_vars, NEW q, PagesTyped(q), PagesSound(q)
    PROVE  PagesSound(q)'
<1> DEFINE c == q.chat
<1>1. c \in ChatIds /\ q.offset \in Nat /\ q.limit \in Nat
  BY ReaderConstants DEF PagesTyped
<1>2. KeepsHistory(c, q.before)'
  BY <1>1, HistoryStays DEF PagesSound
<1>3. ASSUME NothingLost(q)', StampsDistinct(c)', NEW m \in Wanted(q)
      PROVE  \/ m \in q.got \cup q.page
             \/ /\ q.step # "paged"
                /\ Reached(q) <= Position(m, c)'
                /\ q.step = "pageMarker" => Cardinality(q.page) = q.limit
  <2>1. IndInv'
    BY StepIndInv
  <2>2. c \in DOMAIN chats'
    <3>1. m \in DOMAIN messages' /\ messages'[m].chat = c
      BY <1>3 DEF NothingLost, Wanted, History
    <3> QED
      BY <2>1, <3>1 DEF IndInv, StoreInv, MessagesHaveHome
  <2>3. c \in DOMAIN chats
    BY <1>1, <2>2, SettledStays DEF PagesSound, KeepsHistory, Settled
  <2>4. \A n \in DOMAIN q.before :
           n \in DOMAIN History(c) /\ (q.before[n] => History(c)[n])
    BY <2>3 DEF PagesSound, KeepsHistory
  <2>5. \A n \in DOMAIN History(c) :
           n \in DOMAIN History(c)' /\ (History(c)[n] => History(c)'[n])
    BY <2>2, <2>3, HistoryGrows
  <2>6. \A n \in DOMAIN History(c)' :
           History(c)'[n] => n \in DOMAIN q.before /\ q.before[n]
    BY <1>3 DEF NothingLost
  <2>7. NothingLost(q)
    BY <2>4, <2>5, <2>6 DEF NothingLost
  <2>8. VisibleMessages(c) \subseteq VisibleMessages(c)'
    <3>1. ASSUME NEW n \in VisibleMessages(c) PROVE n \in VisibleMessages(c)'
      <4>1. n \in DOMAIN History(c) /\ ~History(c)[n]
        BY DEF VisibleMessages, History
      <4>2. n \in DOMAIN History(c)' /\ ~History(c)'[n]
        BY <2>4, <2>5, <2>6, <4>1
      <4> QED
        BY <4>2 DEF VisibleMessages, History
    <3> QED
      BY <3>1
  <2>9. StampsDistinct(c)
    <3>1. \A n \in VisibleMessages(c) : messages'[n].created = messages[n].created
      BY <2>8, MessagesKept DEF VisibleMessages
    <3> QED
      BY <1>3, <2>8, <3>1 DEF StampsDistinct
  <2>10. \/ m \in q.got \cup q.page
         \/ /\ q.step # "paged"
            /\ Reached(q) <= Position(m, c)
            /\ q.step = "pageMarker" => Cardinality(q.page) = q.limit
    BY <1>3, <2>7, <2>9 DEF PagesSound
  <2>11. Position(m, c) <= Position(m, c)'
    BY <1>3, <2>7, <2>8, WantedVisible, PositionGrows
  <2>12. Position(m, c) \in Nat /\ Position(m, c)' \in Nat
    <3>1. TypeOK /\ TypeOK'
      BY <2>1 DEF IndInv
    <3>2. Position(m, c) \in Nat
      BY <3>1, PositionCounted
    <3>3. Position(m, c)' \in Nat
      <4>1. VisibleMessages(c)' \subseteq MessageIds
        BY <3>1 DEF VisibleMessages, TypeOK
      <4> QED
        BY <4>1, MessagesCounted DEF Position
    <3> QED
      BY <3>2, <3>3
  <2>13. Reached(q) \in Nat
    BY <1>1 DEF Reached
  <2> QED
    BY <2>10, <2>11, <2>12, <2>13
<1> QED
  BY <1>2, <1>3 DEF PagesSound, Reached

-----------------------------------------------------------------------------
(* The steps of the pages. *)

\* A page of the code's query: what has at least offset messages before it is in
\* the page, or the page is full and at least offset + limit come before it.
LEMMA PageOrBehind ==
    ASSUME TypeOK, NEW c, StampsDistinct(c), NEW offset \in Nat, NEW limit \in Nat,
           NEW skipped \in SUBSET VisibleMessages(c), NEW page \in SUBSET VisibleMessages(c),
           skipped \cap page = {},
           Cardinality(skipped) = Smaller(offset, Cardinality(VisibleMessages(c))),
           Cardinality(page) = Smaller(limit, Cardinality(VisibleMessages(c) \ skipped)),
           InOrder(skipped, VisibleMessages(c) \ skipped),
           InOrder(page, VisibleMessages(c) \ (skipped \cup page)),
           NEW m \in VisibleMessages(c), offset <= Position(m, c)
    PROVE  \/ m \in page
           \/ offset + limit <= Position(m, c) /\ Cardinality(page) = limit
<1> DEFINE V == VisibleMessages(c)
           earlier == {n \in V : messages[n].created < messages[m].created}
<1>1. earlier \in SUBSET V /\ Position(m, c) = Cardinality(earlier)
  BY DEF Position
<1>2. /\ \A n \in V : messages[n].created \in Nat
      /\ \A S \in SUBSET V : IsFiniteSet(S) /\ Cardinality(S) \in Nat
      /\ \A S \in SUBSET V : \A T \in SUBSET S :
            /\ Cardinality(T) <= Cardinality(S)
            /\ T # S => Cardinality(T) < Cardinality(S)
  BY VisibleCounted
<1>3. m \notin skipped
  <2> SUFFICES ASSUME m \in skipped PROVE FALSE
    OBVIOUS
  <2>1. earlier \in SUBSET (skipped \ {m})
    <3>1. ASSUME NEW n \in earlier, n \notin skipped PROVE FALSE
      <4>1. messages[m].created <= messages[n].created
        BY <3>1 DEF InOrder
      <4> QED
        BY <1>2, <3>1, <4>1
    <3>2. m \notin earlier
      BY <1>2
    <3> QED
      BY <3>1, <3>2
  <2> HIDE DEF earlier
  <2>2. Cardinality(earlier) <= Cardinality(skipped \ {m})
    <3>1. skipped \ {m} \in SUBSET V
      OBVIOUS
    <3> QED
      BY <1>2, <2>1, <3>1
  <2>3. Cardinality(skipped \ {m}) < Cardinality(skipped)
    BY <1>2
  <2>4. Cardinality(skipped) <= offset
    BY <1>2 DEF Smaller
  <2>5. /\ Cardinality(skipped) \in Nat /\ Cardinality(skipped \ {m}) \in Nat
        /\ Cardinality(earlier) \in Nat
    BY <1>1, <1>2
  <2> QED
    BY <1>1, <2>2, <2>3, <2>4, <2>5
<1>4. ASSUME m \notin page
      PROVE  offset + limit <= Position(m, c) /\ Cardinality(page) = limit
  <2>1. skipped \cup page \in SUBSET earlier
    <3>1. ASSUME NEW n \in skipped \cup page PROVE n \in earlier
      <4>1. messages[n].created <= messages[m].created
        BY <1>3, <1>4, <3>1 DEF InOrder
      <4>2. messages[n].created # messages[m].created
        BY <1>3, <1>4, <3>1 DEF StampsDistinct
      <4> QED
        BY <1>2, <3>1, <4>1, <4>2
    <3> QED
      BY <3>1
  <2> HIDE DEF earlier
  <2>2. Cardinality(skipped \cup page) = Cardinality(skipped) + Cardinality(page)
    <3>1. IsFiniteSet(skipped) /\ IsFiniteSet(page)
      BY <1>2
    <3>2. /\ Cardinality(skipped) \in Nat /\ Cardinality(page) \in Nat
          /\ Cardinality(skipped \cap page) = 0
      BY <1>2, FS_EmptySet
    <3>3. Cardinality(skipped \cup page)
             = Cardinality(skipped) + Cardinality(page) - Cardinality(skipped \cap page)
      BY <3>1, FS_Union
    <3> QED
      BY <3>2, <3>3
  <2>3. Cardinality(skipped \cup page) <= Cardinality(earlier)
    BY <1>1, <1>2, <2>1
  <2>4. Cardinality(skipped) < Cardinality(V)
    BY <1>2, <1>3
  <2>5. Cardinality(page) < Cardinality(V \ skipped)
    <3>1. V \ skipped \in SUBSET V /\ page \in SUBSET (V \ skipped)
      OBVIOUS
    <3>2. page # V \ skipped
      BY <1>3, <1>4
    <3> QED
      BY <1>2, <3>1, <3>2
  <2>6. /\ Cardinality(V) \in Nat /\ Cardinality(V \ skipped) \in Nat
        /\ Cardinality(skipped) \in Nat /\ Cardinality(page) \in Nat
        /\ Cardinality(earlier) \in Nat
    BY <1>1, <1>2
  <2>7. Cardinality(skipped) = offset /\ Cardinality(page) = limit
    BY <2>4, <2>5, <2>6 DEF Smaller
  <2> QED
    BY <1>1, <2>2, <2>3, <2>6, <2>7
<1> QED
  BY <1>4

\* One reader changes its local state to n, which is sound if it is that of a
\* client that pages.
LEMMA PagesMove ==
    ASSUME IndInv, ReadersTypeOK, ReadersTypeOK', PagesInv, UNCHANGED vars,
           NEW d \in Readers, NEW n, ReadGoto(d, n),
           n.step \in {"page", "pageMarker", "paged"} => PagesSound(n)
    PROVE  PagesInv'
<1> SUFFICES ASSUME NEW e \in Readers, NEW q, q = reading'[e],
                    q.step \in {"page", "pageMarker", "paged"}
             PROVE  PagesSound(q)'
  BY DEF PagesInv
<1>1. PagesTyped(q)
  BY DEF ReadersTypeOK, ReadIdle, ItemTyped
<1>2. PagesSound(q)
  <2>1. CASE e = d
    BY <2>1 DEF ReadGoto, ReadersTypeOK
  <2>2. CASE e # d
    BY <2>2 DEF ReadGoto, ReadersTypeOK, PagesInv
  <2> QED
    BY <2>1, <2>2
<1> QED
  BY <1>1, <1>2, PagesStaySound

LEMMA PagesBeginSound ==
    ASSUME IndInv, ReadersTypeOK, ReadersTypeOK', PagesInv, UNCHANGED vars,
           NEW d \in Readers, NEW u \in Users, NEW c \in ChatIds, NEW l \in Limits,
           BeginPages(d, u, c, l)
    PROVE  PagesInv'
<1> DEFINE n == [step |-> "page", user |-> u, chat |-> c, limit |-> l,
                 offset |-> 0, page |-> {}, got |-> {}, before |-> History(c)]
<1>1. ReadGoto(d, n) /\ IsParticipant(u, c)
  BY DEF BeginPages
<1>2. /\ n.step = "page" /\ n.chat = c /\ n.offset = 0 /\ n.page = {}
      /\ n.before = History(c)
  OBVIOUS
<1> HIDE DEF n
<1>3. c \in DOMAIN chats
  BY <1>1 DEF IsParticipant, IndInv, StoreInv, TwoMarkersPerChat
<1>4. KeepsHistory(c, History(c))
  BY <1>3 DEF KeepsHistory, IndInv, IdsAndStamps, RequestsSound, CreateSound
<1>5. \A m : Reached(n) <= Position(m, c)
  <2>1. TypeOK
    BY DEF IndInv
  <2>2. Reached(n) = 0
    BY <1>2 DEF Reached
  <2> QED
    BY <2>1, <2>2, PositionCounted
<1>6. PagesSound(n)
  BY <1>2, <1>4, <1>5 DEF PagesSound
<1> QED
  BY <1>1, <1>6, PagesMove

LEMMA PageReadSound ==
    ASSUME IndInv, ReadersTypeOK, ReadersTypeOK', PagesInv, UNCHANGED vars,
           NEW d \in Readers, ReadPage(d)
    PROVE  PagesInv'
<1> PICK q : q = reading[d]
  OBVIOUS
<1>1. PagesTyped(q) /\ PagesSound(q) /\ q.step = "page"
  BY PageSteps DEF ReadPage, PagesInv
<1> DEFINE V == VisibleMessages(q.chat)
<1>2. ASSUME NEW skipped \in SUBSET V, NEW page \in SUBSET V,
             skipped \cap page = {},
             Cardinality(skipped) = Smaller(q.offset, Cardinality(V)),
             Cardinality(page) = Smaller(q.limit, Cardinality(V \ skipped)),
             InOrder(skipped, V \ skipped),
             InOrder(page, V \ (skipped \cup page)),
             ReadGoto(d, [q EXCEPT !.step = "pageMarker", !.page = page])
      PROVE  PagesInv'
  <2> DEFINE n == [q EXCEPT !.step = "pageMarker", !.page = page]
  <2>1. /\ n.step = "pageMarker" /\ n.chat = q.chat /\ n.limit = q.limit
        /\ n.offset = q.offset /\ n.page = page /\ n.got = q.got /\ n.before = q.before
    BY <1>1 DEF PagesTyped, PageFields
  <2>2. ReadGoto(d, n)
    BY <1>2
  <2> HIDE DEF n
  <2>3. KeepsHistory(n.chat, n.before)
    BY <1>1, <2>1 DEF PagesSound
  <2>4. NothingLost(n) => NothingLost(q)
    BY <2>1 DEF NothingLost
  <2>5. Reached(q) = q.offset /\ Reached(n) = q.offset + q.limit
    BY <1>1, <2>1 DEF Reached
  <2>6. ASSUME NothingLost(n), StampsDistinct(n.chat), NEW m \in Wanted(n)
        PROVE  \/ m \in n.got \cup n.page
               \/ Reached(n) <= Position(m, n.chat) /\ Cardinality(n.page) = n.limit
    <3>1. m \in Wanted(q) /\ NothingLost(q) /\ StampsDistinct(q.chat)
      BY <2>1, <2>4, <2>6 DEF Wanted
    <3>2. m \in VisibleMessages(q.chat)
      BY <3>1, WantedVisible
    <3>3. m \in q.got \/ Reached(q) <= Position(m, q.chat)
      BY <1>1, <3>1 DEF PagesSound
    <3>4. ASSUME q.offset <= Position(m, q.chat)
          PROVE  \/ m \in page
                 \/ q.offset + q.limit <= Position(m, q.chat) /\ Cardinality(page) = q.limit
      <4>1. TypeOK /\ q.offset \in Nat /\ q.limit \in Nat
        BY <1>1, ReaderConstants DEF IndInv, PagesTyped
      <4> QED
        BY <1>2, <3>1, <3>2, <3>4, <4>1, PageOrBehind
    <3> QED
      BY <2>1, <2>5, <3>3, <3>4
  <2>7. PagesSound(n)
    BY <2>1, <2>3, <2>6 DEF PagesSound
  <2> QED
    BY <2>2, <2>7, PagesMove
<1>3. CASE ReadGoto(d, ReadIdle)
  BY <1>3, PagesMove DEF ReadIdle
<1> QED
  BY <1>2, <1>3 DEF ReadPage, NotFound

LEMMA PageMarkerSound ==
    ASSUME IndInv, ReadersTypeOK, ReadersTypeOK', PagesInv, UNCHANGED vars,
           NEW d \in Readers, ReadPageMarker(d)
    PROVE  PagesInv'
<1> PICK q : q = reading[d]
  OBVIOUS
<1>1. PagesTyped(q) /\ PagesSound(q) /\ q.step = "pageMarker"
  BY PageSteps DEF ReadPageMarker, PagesInv
<1> DEFINE step == IF Cardinality(q.page) = q.limit THEN "page" ELSE "paged"
           n == [q EXCEPT !.step = step, !.offset = @ + q.limit,
                          !.page = {}, !.got = @ \cup q.page]
<1>2. /\ n.step = step /\ n.chat = q.chat /\ n.limit = q.limit
      /\ n.offset = q.offset + q.limit /\ n.page = {} /\ n.got = q.got \cup q.page
      /\ n.before = q.before
  BY <1>1 DEF PagesTyped, PageFields
<1>3. ReadGoto(d, n) \/ ReadGoto(d, ReadIdle)
  BY DEF ReadPageMarker, NotFound
<1> HIDE DEF n
<1>4. KeepsHistory(n.chat, n.before)
  BY <1>1, <1>2 DEF PagesSound
<1>5. ASSUME NothingLost(n), StampsDistinct(n.chat), NEW m \in Wanted(n)
      PROVE  m \in n.got \/ (n.step = "page" /\ Reached(n) <= Position(m, n.chat))
  <2>1. m \in Wanted(q) /\ NothingLost(q) /\ StampsDistinct(q.chat)
    BY <1>2, <1>5 DEF Wanted, NothingLost
  <2>2. \/ m \in q.got \cup q.page
        \/ Reached(q) <= Position(m, q.chat) /\ Cardinality(q.page) = q.limit
    BY <1>1, <2>1 DEF PagesSound
  <2>3. Reached(q) = q.offset + q.limit
    BY <1>1 DEF Reached
  <2>4. n.step = "page" => Reached(n) = q.offset + q.limit
    BY <1>2 DEF Reached
  <2> QED
    BY <1>2, <2>2, <2>3, <2>4
<1>6. PagesSound(n)
  BY <1>2, <1>4, <1>5 DEF PagesSound
<1>7. ReadIdle.step = "idle"
  BY DEF ReadIdle
<1> QED
  BY <1>3, <1>6, <1>7, PagesMove

\* A reader that builds items does not page.
LEMMA ItemsPageNothing ==
    ASSUME IndInv, ReadersTypeOK, ReadersTypeOK', PagesInv, UNCHANGED vars, NEW d \in Readers,
           \/ \E u \in Users : BeginList(d, u)
           \/ \E op \in {"details", "update"}, u \in Users, c \in ChatIds :
                 BeginItem(d, op, u, c)
           \/ ReadCompanion(d) \/ ReadLast(d) \/ ReadMarker(d) \/ CountUnread(d) \/ NextItem(d)
           \/ EndPages(d)
    PROVE  PagesInv'
<1>1. ASSUME NEW n, ReadGoto(d, n), n.step \notin {"page", "pageMarker", "paged"}
      PROVE  PagesInv'
  BY <1>1, PagesMove
<1>2. ASSUME ReadGoto(d, ReadIdle) PROVE PagesInv'
  BY <1>1, <1>2 DEF ReadIdle
<1>3. ASSUME NEW op, NEW u, NEW cs, ReadGoto(d, Building(op, u, cs)) PROVE PagesInv'
  BY <1>1, <1>3 DEF Building
<1> DEFINE q == reading[d]
<1>4. CASE \E u \in Users : BeginList(d, u)
  BY <1>3, <1>4 DEF BeginList
<1>5. CASE \E op \in {"details", "update"}, u \in Users, c \in ChatIds : BeginItem(d, op, u, c)
  BY <1>3, <1>5 DEF BeginItem
<1>6. CASE ReadCompanion(d)
  <2>1. ItemTyped(q)
    BY <1>6, ItemSteps DEF ReadCompanion
  <2>2. \A c : [q EXCEPT !.step = "last", !.chat = c].step = "last"
    BY <2>1 DEF ItemTyped, ItemFields
  <2> QED
    BY <1>1, <1>2, <1>6, <2>2 DEF ReadCompanion, NotFound
<1>7. CASE ReadLast(d)
  <2>1. ItemTyped(q)
    BY <1>7, ItemSteps DEF ReadLast
  <2>2. PICK next \in {"count", "marker"} :
           \/ \E last : ReadGoto(d, [q EXCEPT !.step = next, !.last = last])
           \/ ReadGoto(d, [q EXCEPT !.step = next])
    BY <1>7 DEF ReadLast
  <2>3. /\ [q EXCEPT !.step = next].step = next
        /\ \A last : [q EXCEPT !.step = next, !.last = last].step = next
    BY <2>1 DEF ItemTyped, ItemFields
  <2> QED
    BY <1>1, <2>2, <2>3
<1>8. CASE ReadMarker(d)
  <2>1. ItemTyped(q)
    BY <1>8, ItemSteps DEF ReadMarker
  <2>2. \/ ReadGoto(d, ReadIdle)
        \/ \E next \in {"built", "count"} : \E read :
              ReadGoto(d, [q EXCEPT !.step = next, !.read = read])
    BY <1>8 DEF ReadMarker, NotFound
  <2>3. \A next, read : [q EXCEPT !.step = next, !.read = read].step = next
    BY <2>1 DEF ItemTyped, ItemFields
  <2> QED
    BY <1>1, <1>2, <2>2, <2>3
<1>9. CASE CountUnread(d)
  <2>1. ItemTyped(q)
    BY <1>9, ItemSteps DEF CountUnread
  <2>2. \E next \in {"marker", "built"} : \E k :
           ReadGoto(d, [q EXCEPT !.step = next, !.unread = k])
    BY <1>9 DEF CountUnread, Counted
  <2>3. \A next, k : [q EXCEPT !.step = next, !.unread = k].step = next
    BY <2>1 DEF ItemTyped, ItemFields
  <2> QED
    BY <1>1, <2>2, <2>3
<1>10. CASE NextItem(d)
  <2>1. ItemTyped(q)
    BY <1>10, ItemSteps DEF NextItem
  <2>2. \/ ReadGoto(d, ReadIdle)
        \/ \E rows, before :
              ReadGoto(d, [q EXCEPT !.step = "companion", !.rows = rows, !.before = before,
                                    !.chat = None, !.last = None, !.unread = 0,
                                    !.read = FALSE])
    BY <1>10 DEF NextItem
  <2>3. \A rows, before :
           [q EXCEPT !.step = "companion", !.rows = rows, !.before = before, !.chat = None,
                     !.last = None, !.unread = 0, !.read = FALSE].step = "companion"
    BY <2>1 DEF ItemTyped, ItemFields
  <2> QED
    BY <1>1, <1>2, <2>2, <2>3
<1>11. CASE EndPages(d)
  BY <1>2, <1>11 DEF EndPages
<1> QED
  BY <1>4, <1>5, <1>6, <1>7, <1>8, <1>9, <1>10, <1>11

LEMMA PagesStep ==
    MigrationInv /\ PagesInv /\ [MigrationNext]_migrationVars => PagesInv'
<1> SUFFICES ASSUME MigrationInv, PagesInv, [MigrationNext]_migrationVars PROVE PagesInv'
  OBVIOUS
<1>1. IndInv /\ ReadersTypeOK
  BY DEF MigrationInv
<1>2. ReadersTypeOK'
  BY MigrationStepInv DEF MigrationInv
<1>3. ASSUME [Next]_vars, UNCHANGED reading PROVE PagesInv'
  <2> SUFFICES ASSUME NEW d \in Readers, NEW q, q = reading'[d],
                      q.step \in {"page", "pageMarker", "paged"}
               PROVE  PagesSound(q)'
    BY DEF PagesInv
  <2>1. q = reading[d]
    BY <1>3
  <2>2. PagesTyped(q) /\ PagesSound(q)
    BY <1>1, <2>1, PageSteps DEF PagesInv
  <2> QED
    BY <1>1, <1>3, <2>2, PagesStaySound
<1>4. CASE UNCHANGED migrationVars
  BY <1>3, <1>4 DEF migrationVars
<1>5. CASE Upgrade
  <2>1. \A d \in Readers : reading'[d] = ReadIdle
    BY <1>5 DEF Upgrade, MigrationInv, BeforeUpgrade, ReadInit
  <2>2. ReadIdle.step = "idle"
    BY DEF ReadIdle
  <2> QED
    BY <2>1, <2>2 DEF PagesInv
<1>6. ASSUME ReadNext, UNCHANGED vars PROVE PagesInv'
  BY <1>1, <1>2, <1>6, PagesBeginSound, PageReadSound, PageMarkerSound, ItemsPageNothing
     DEF ReadNext
<1>7. CASE Serve
  BY <1>3, <1>6, <1>7 DEF Serve, ReadersNext
<1> QED
  BY <1>4, <1>5, <1>7 DEF MigrationNext, UpgradeRefused

(***************************************************************************)
(* A client that pages through a chat gets every message that was there    *)
(* when it began, whatever is written meanwhile, unless something of the   *)
(* chat is deleted or two of its messages have one stamp, after an upgrade *)
(* of a trusted database.                                                  *)
(***************************************************************************)
THEOREM PagesAreComplete == Trusted /\ MigrationSpec => []PagesComplete
<1>1. MigrationInit => PagesInv
  <2> SUFFICES ASSUME MigrationInit PROVE PagesInv
    OBVIOUS
  <2>1. \A d \in Readers : reading[d] = ReadIdle
    BY DEF MigrationInit, BeforeUpgrade, ReadInit
  <2>2. ReadIdle.step = "idle"
    BY DEF ReadIdle
  <2> QED
    BY <2>1, <2>2 DEF PagesInv
<1>2. Trusted /\ MigrationSpec => []PagesInv
  BY <1>1, PagesStep, MigrationInvariance, PTL DEF MigrationSpec
<1>3. PagesInv => PagesComplete
  BY DEF PagesInv, PagesSound, PagesComplete
<1> QED
  BY <1>2, <1>3, PTL
=============================================================================
