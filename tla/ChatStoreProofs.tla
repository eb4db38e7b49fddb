--------------------------- MODULE ChatStoreProofs ---------------------------
(***************************************************************************)
(* Safety of the chat tables for every set of users, ids and requests in   *)
(* flight.  IndInv of ChatStore adds to the properties what a request      *)
(* still knows when it writes, although others have run since it read:     *)
(* that the ids it has drawn are its own, that its stamp is younger than   *)
(* its chat, that the message it changes is its user's, and that the       *)
(* marker it writes covers what it was shown.                              *)
(***************************************************************************)
EXTENDS ChatStore, TLAPS

(***************************************************************************)
(* One request changes its local state to q.                               *)
(***************************************************************************)
LEMMA OneRequestMoves ==
    ASSUME TypeOK, NEW r \in Requests, NEW q \in RequestState,
           req' = [req EXCEPT ![r] = q]
    PROVE  /\ req' \in [Requests -> RequestState]
           /\ req'[r] = q
           /\ \A s \in Requests \ {r} : req'[s] = req[s]
BY DEF TypeOK

LEMMA IdleTyped == Idle \in RequestState
BY DEF Idle, RequestState, Ops, Steps

(***************************************************************************)
(* While the tables stay as they are, the other requests stay sound as     *)
(* long as request r keeps off the ids they have drawn.                    *)
(***************************************************************************)
LEMMA OthersStaySound ==
    ASSUME IndInv, UNCHANGED db, NEW r \in Requests, NEW q \in RequestState,
           req' = [req EXCEPT ![r] = q],
           \A s \in Requests \ {r} : At(s, "create", "write") => q.chat # req[s].chat,
           \A s \in Requests \ {r} : At(s, "send", "write") =>
                                         q.msg # req[s].msg /\ req[s].msg \notin q.shown,
           CreateSound(r)', SendSound(r)', ChangeSound(r)', MarkSound(r)'
    PROVE  RequestsSound'
<1>1. /\ req'[r] = q
      /\ \A s \in Requests \ {r} : req'[s] = req[s]
  BY OneRequestMoves DEF IndInv
<1>2. chats' = chats /\ messages' = messages
  BY DEF db
<1> SUFFICES ASSUME NEW s \in Requests, s # r
             PROVE  (CreateSound(s) /\ SendSound(s) /\ ChangeSound(s) /\ MarkSound(s))'
  BY DEF RequestsSound
<1>3. CreateSound(s) /\ SendSound(s) /\ ChangeSound(s) /\ MarkSound(s)
  BY DEF IndInv, RequestsSound
<1>4. req'[s] = req[s]
  BY <1>1
<1>5. CreateSound(s)'
  BY <1>1, <1>2, <1>3, <1>4 DEF CreateSound, At
<1>6. SendSound(s)'
  BY <1>1, <1>2, <1>3, <1>4 DEF SendSound, At
<1>7. ChangeSound(s)'
  BY <1>1, <1>2, <1>3, <1>4 DEF ChangeSound, At
<1>8. MarkSound(s)'
  BY <1>1, <1>2, <1>3, <1>4 DEF MarkSound
<1> QED
  BY <1>5, <1>6, <1>7, <1>8

LEMMA TablesUntouched ==
    ASSUME StoreInv, UNCHANGED db
    PROVE  StoreInv'
BY DEF StoreInv, OneChatPerPair, TwoMarkersPerChat, MessagesHaveHome, FreshChatUnread, db

LEMMA InitIndInv == Init => IndInv
<1> SUFFICES ASSUME Init PROVE IndInv
  OBVIOUS
<1>1. DOMAIN chats = {} /\ DOMAIN lastRead = {} /\ DOMAIN messages = {}
  BY DEF Init
<1>2. \A r \in Requests : req[r] = Idle
  BY DEF Init
<1>3. TypeOK
  BY <1>1, IdleTyped DEF Init, TypeOK
<1>4. StoreInv
  BY <1>1 DEF StoreInv, OneChatPerPair, TwoMarkersPerChat, MessagesHaveHome, FreshChatUnread
<1>5. IdsAndStamps
  BY <1>1, <1>2 DEF Init, IdsAndStamps, Idle
<1>6. RequestsSound
  BY <1>2 DEF RequestsSound, CreateSound, SendSound, ChangeSound, MarkSound, At, Idle
<1> QED
  BY <1>3, <1>4, <1>5, <1>6 DEF IndInv

(***************************************************************************)
(* A step that only changes the local state of a request: the checks, the  *)
(* reads and the answers.                                                  *)
(***************************************************************************)
LEMMA LocalStep ==
    ASSUME IndInv, UNCHANGED db, clock' \in Nat, clock <= clock',
           issued \subseteq issued', issued' \subseteq ChatIds \cup MessageIds,
           NEW r \in Requests, NEW q \in RequestState,
           req' = [req EXCEPT ![r] = q],
           q.step = "idle" => q = Idle,
           q.step # "idle" => q.user \in Users /\ q.chat \in ChatIds \cap issued',
           q.msg \in issued' \cup {None},
           q.at <= clock', q.seen <= clock',
           q.shown \subseteq DOMAIN messages \/ q.shown = req[r].shown,
           q.op \in {"edit", "delete"} => q.msg \in MessageIds,
           \A s \in Requests \ {r} : At(s, "create", "write") => q.chat # req[s].chat,
           \A s \in Requests \ {r} : At(s, "send", "write") => q.msg # req[s].msg,
           CreateSound(r)', SendSound(r)', ChangeSound(r)', MarkSound(r)'
    PROVE  IndInv'
<1>1. /\ req' \in [Requests -> RequestState]
      /\ req'[r] = q
      /\ \A s \in Requests \ {r} : req'[s] = req[s]
  BY OneRequestMoves DEF IndInv
<1>2. chats' = chats /\ lastRead' = lastRead /\ messages' = messages
  BY DEF db
<1>3. TypeOK'
  BY <1>1, <1>2 DEF IndInv, TypeOK
<1>4. StoreInv'
  BY TablesUntouched DEF IndInv
<1>5. q.shown \subseteq issued
  BY DEF IndInv, IdsAndStamps
<1>6. IdsAndStamps'
  <2> /\ clock \in Nat
      /\ \A c \in DOMAIN chats : chats[c].created \in Nat
      /\ \A m \in DOMAIN messages : messages[m].created \in Nat
      /\ \A p \in DOMAIN lastRead : lastRead[p] \in Nat
      /\ \A s \in Requests : req[s].at \in Nat /\ req[s].seen \in Nat
    BY DEF IndInv, TypeOK, RequestState
  <2>1. /\ \A c \in DOMAIN chats : chats[c].created <= clock'
        /\ \A m \in DOMAIN messages : messages[m].created <= clock'
        /\ \A p \in DOMAIN lastRead : lastRead[p] <= clock'
    BY DEF IndInv, IdsAndStamps
  <2>2. \A s \in Requests :
           /\ req'[s].step = "idle" => req'[s] = Idle
           /\ req'[s].step # "idle" =>
                 req'[s].user \in Users /\ req'[s].chat \in ChatIds \cap issued'
           /\ req'[s].msg \in issued' \cup {None}
           /\ req'[s].shown \subseteq issued'
           /\ req'[s].at <= clock' /\ req'[s].seen <= clock'
           /\ req'[s].op \in {"edit", "delete"} => req'[s].msg \in MessageIds
    BY <1>1, <1>5 DEF IndInv, IdsAndStamps
  <2> QED
    BY <1>2, <2>1, <2>2 DEF IndInv, IdsAndStamps, Idle
<1>7. \A s \in Requests \ {r} : At(s, "send", "write") => req[s].msg \notin q.shown
  BY DEF IndInv, RequestsSound, SendSound
<1>8. RequestsSound'
  BY <1>7, OthersStaySound
<1> QED
  BY <1>3, <1>4, <1>6, <1>8 DEF IndInv

\* What IsParticipant tells a handler.
LEMMA ParticipantOfChat ==
    ASSUME IndInv, NEW u, NEW c, IsParticipant(u, c)
    PROVE  /\ u \in Users
           /\ c \in DOMAIN chats /\ c \in ChatIds \cap issued
           /\ u \in chats[c].pair
           /\ chats[c].created \in Nat
           /\ lastRead[<<c, u>>] \in Nat
           /\ chats[c].created <= lastRead[<<c, u>>]
           /\ chats[c].created <= clock /\ lastRead[<<c, u>>] <= clock
           /\ \A s \in Requests : At(s, "create", "write") => c # req[s].chat
<1>1. <<c, u>> \in DOMAIN lastRead
  BY DEF IsParticipant
<1>2. u \in Users /\ c \in DOMAIN chats /\ u \in chats[c].pair
  BY <1>1 DEF IndInv, StoreInv, TwoMarkersPerChat
<1>3. c \in ChatIds \cap issued /\ chats[c].created \in Nat /\ chats[c].created <= clock
  BY <1>2 DEF IndInv, TypeOK, IdsAndStamps
<1>4. /\ lastRead[<<c, u>>] \in Nat
      /\ chats[c].created <= lastRead[<<c, u>>] /\ lastRead[<<c, u>>] <= clock
  BY <1>1, <1>2 DEF IndInv, TypeOK, StoreInv, FreshChatUnread, IdsAndStamps
<1>5. \A s \in Requests : At(s, "create", "write") => c # req[s].chat
  BY <1>2 DEF IndInv, RequestsSound, CreateSound
<1> QED
  BY <1>2, <1>3, <1>4, <1>5

\* No message has the id of one that is still on its way, and None is no id.
LEMMA PendingMessageIds ==
    ASSUME IndInv, NEW s \in Requests, At(s, "send", "write")
    PROVE  /\ req[s].msg \in MessageIds /\ req[s].msg \in issued
           /\ req[s].msg # None /\ req[s].msg \notin DOMAIN messages
BY StoreConstants DEF IndInv, RequestsSound, SendSound, IdsAndStamps

LEMMA IdsTyped == ASSUME IndInv
                  PROVE  clock \in Nat /\ issued \subseteq ChatIds \cup MessageIds
BY DEF IndInv, TypeOK

-----------------------------------------------------------------------------
(* The checks at the beginning of the handlers. *)

LEMMA CreateLookupStep ==
    ASSUME IndInv, NEW r \in Requests, NEW u \in Users, NEW v \in Users, NEW c \in ChatIds,
           CreateLookup(r, u, v, c)
    PROVE  IndInv'
<1> DEFINE q == [op |-> "create", step |-> "write", user |-> u, pair |-> {u, v},
                 chat |-> c, msg |-> None, at |-> clock + 1, seen |-> 0, shown |-> {}]
<1>1. /\ req' = [req EXCEPT ![r] = q]
      /\ clock' = clock + 1 /\ issued' = issued \cup {c} /\ c \notin issued /\ UNCHANGED db
  BY DEF CreateLookup, Begin, Tick, Now
<1>2. {u, v} \in Pairs /\ clock \in Nat
  BY DEF CreateLookup, Pairs, IndInv, TypeOK
<1>3. q \in RequestState
  BY <1>2 DEF RequestState, Ops, Steps
<1>4. \A s \in Requests : req[s].chat # c
  BY <1>1, StoreConstants DEF IndInv, IdsAndStamps, Idle
<1>5. \A s \in Requests : At(s, "send", "write") => q.msg # req[s].msg
  BY PendingMessageIds
<1>6. CreateSound(r)' /\ SendSound(r)' /\ ChangeSound(r)' /\ MarkSound(r)'
  <2>1. c \notin DOMAIN chats'
    BY <1>1 DEF IndInv, IdsAndStamps, db
  <2>2. req'[r] = q /\ \A s \in Requests \ {r} : req'[s] = req[s]
    BY <1>1, <1>3, OneRequestMoves DEF IndInv
  <2> QED
    BY <1>1, <1>2, <1>4, <2>1, <2>2 DEF CreateSound, SendSound, ChangeSound, MarkSound, At
<1>7. /\ clock' \in Nat /\ clock <= clock'
      /\ issued \subseteq issued' /\ issued' \subseteq ChatIds \cup MessageIds
  BY <1>1, <1>2, IdsTyped
<1>8. /\ q.step = "write" /\ q.op = "create" /\ q.shown = {}
      /\ q.user \in Users /\ q.chat = c /\ c \in ChatIds \cap issued'
      /\ q.msg \in issued' \cup {None} /\ q.at <= clock' /\ q.seen <= clock'
  BY <1>1, <1>2
<1> HIDE DEF q
<1> QED
  BY <1>1, <1>3, <1>4, <1>5, <1>6, <1>7, <1>8, LocalStep

LEMMA SendCheckStep ==
    ASSUME IndInv, NEW r \in Requests, NEW u \in Users, NEW c \in ChatIds,
           NEW m \in MessageIds, SendCheck(r, u, c, m)
    PROVE  IndInv'
<1> DEFINE q == [op |-> "send", step |-> "write", user |-> u, pair |-> {},
                 chat |-> c, msg |-> m, at |-> clock + 1, seen |-> 0, shown |-> {}]
<1>1. /\ req' = [req EXCEPT ![r] = q]
      /\ clock' = clock + 1 /\ issued' = issued \cup {m} /\ m \notin issued /\ UNCHANGED db
      /\ IsParticipant(u, c)
  BY DEF SendCheck, Begin, Tick, Now
<1>2. clock \in Nat /\ issued \subseteq ChatIds \cup MessageIds
  BY IdsTyped
<1>3. q \in RequestState
  BY <1>2 DEF RequestState, Ops, Steps
<1>4. /\ c \in DOMAIN chats /\ c \in ChatIds \cap issued /\ u \in chats[c].pair
      /\ chats[c].created \in Nat /\ chats[c].created <= clock
      /\ \A s \in Requests : At(s, "create", "write") => c # req[s].chat
  BY <1>1, ParticipantOfChat
<1>5. \A s \in Requests : req[s].msg # m /\ m \notin req[s].shown
  BY <1>1, StoreConstants DEF IndInv, IdsAndStamps
<1>6. CreateSound(r)' /\ SendSound(r)' /\ ChangeSound(r)' /\ MarkSound(r)'
  <2>1. m \notin DOMAIN messages' /\ chats' = chats
    BY <1>1 DEF IndInv, IdsAndStamps, db
  <2>2. req'[r] = q /\ \A s \in Requests \ {r} : req'[s] = req[s]
    BY <1>1, <1>3, OneRequestMoves DEF IndInv
  <2> QED
    BY <1>2, <1>4, <1>5, <2>1, <2>2 DEF CreateSound, SendSound, ChangeSound, MarkSound, At
<1>7. /\ clock' \in Nat /\ clock <= clock'
      /\ issued \subseteq issued' /\ issued' \subseteq ChatIds \cup MessageIds
  BY <1>1, <1>2
<1>8. /\ q.step = "write" /\ q.op = "send" /\ q.shown = {}
      /\ q.user \in Users /\ q.chat = c /\ c \in ChatIds \cap issued'
      /\ q.msg = m /\ m \in issued' \cup {None} /\ q.at <= clock' /\ q.seen <= clock'
  BY <1>1, <1>2, <1>4
<1> HIDE DEF q
<1> QED
  BY <1>1, <1>3, <1>4, <1>5, <1>6, <1>7, <1>8, LocalStep

LEMMA ChangeCheckStep ==
    ASSUME IndInv, NEW r \in Requests, NEW u \in Users, NEW m \in MessageIds,
           EditCheck(r, u, m) \/ DeleteCheck(r, u, m)
    PROVE  IndInv'
<1> DEFINE c == messages[m].chat
<1>1. PICK op \in {"edit", "delete"} :
         req' = [req EXCEPT ![r] = Begin(op, "write", u, c, {}, m, 0, 0)]
  BY DEF EditCheck, DeleteCheck
<1>2. /\ UNCHANGED <<db, issued, clock>>
      /\ m \in DOMAIN messages /\ messages[m].sender = u /\ IsParticipant(u, c)
  BY DEF EditCheck, DeleteCheck
<1> DEFINE q == [op |-> op, step |-> "write", user |-> u, pair |-> {},
                 chat |-> c, msg |-> m, at |-> 0, seen |-> 0, shown |-> {}]
<1>3. req' = [req EXCEPT ![r] = q]
  BY <1>1 DEF Begin
<1>4. /\ c \in ChatIds \cap issued
      /\ \A s \in Requests : At(s, "create", "write") => c # req[s].chat
  BY <1>2, ParticipantOfChat
<1>5. q \in RequestState
  BY <1>4 DEF RequestState, Ops, Steps
<1>6. m \in issued /\ \A s \in Requests : At(s, "send", "write") => m # req[s].msg
  BY <1>2, PendingMessageIds DEF IndInv, IdsAndStamps
<1>7. CreateSound(r)' /\ SendSound(r)' /\ ChangeSound(r)' /\ MarkSound(r)'
  <2>1. req'[r] = q /\ messages' = messages
    BY <1>2, <1>3, <1>5, OneRequestMoves DEF IndInv, db
  <2> QED
    BY <1>2, <2>1 DEF CreateSound, SendSound, ChangeSound, MarkSound, At
<1>8. /\ clock' \in Nat /\ clock <= clock' /\ UNCHANGED db
      /\ issued \subseteq issued' /\ issued' \subseteq ChatIds \cup MessageIds
  BY <1>2, IdsTyped
<1>9. /\ q.step = "write" /\ q.shown = {} /\ q.user \in Users
      /\ q.chat = c /\ c \in ChatIds \cap issued'
      /\ q.msg = m /\ m \in issued' \cup {None} /\ q.at <= clock' /\ q.seen <= clock'
  BY <1>2, <1>4, <1>6, <1>8
<1> HIDE DEF q, c
<1> QED
  BY <1>3, <1>4, <1>5, <1>6, <1>7, <1>8, <1>9, LocalStep

LEMMA DeleteChatCheckStep ==
    ASSUME IndInv, NEW r \in Requests, NEW u \in Users, NEW c \in ChatIds,
           DeleteChatCheck(r, u, c)
    PROVE  IndInv'
<1> DEFINE q == [op |-> "deleteChat", step |-> "write", user |-> u, pair |-> {},
                 chat |-> c, msg |-> None, at |-> 0, seen |-> 0, shown |-> {}]
<1>1. /\ req' = [req EXCEPT ![r] = q]
      /\ UNCHANGED <<db, issued, clock>> /\ IsParticipant(u, c)
  BY DEF DeleteChatCheck, Begin
<1>2. /\ c \in ChatIds \cap issued
      /\ \A s \in Requests : At(s, "create", "write") => c # req[s].chat
  BY <1>1, ParticipantOfChat
<1>3. q \in RequestState
  BY DEF RequestState, Ops, Steps
<1>4. \A s \in Requests : At(s, "send", "write") => None # req[s].msg
  BY PendingMessageIds
<1>5. CreateSound(r)' /\ SendSound(r)' /\ ChangeSound(r)' /\ MarkSound(r)'
  <2>1. req'[r] = q
    BY <1>1, <1>3, OneRequestMoves DEF IndInv
  <2> QED
    BY <2>1 DEF CreateSound, SendSound, ChangeSound, MarkSound, At
<1>6. /\ clock' \in Nat /\ clock <= clock' /\ UNCHANGED db
      /\ issued \subseteq issued' /\ issued' \subseteq ChatIds \cup MessageIds
  BY <1>1, IdsTyped
<1>7. /\ q.step = "write" /\ q.op = "deleteChat" /\ q.shown = {} /\ q.user \in Users
      /\ q.chat = c /\ c \in ChatIds \cap issued' /\ q.msg = None
      /\ q.at <= clock' /\ q.seen <= clock'
  BY <1>1, <1>2, <1>6
<1> HIDE DEF q
<1> QED
  BY <1>1, <1>2, <1>3, <1>4, <1>5, <1>6, <1>7, LocalStep

LEMMA MarkLoadStep ==
    ASSUME IndInv, NEW r \in Requests, NEW u \in Users, NEW c \in ChatIds,
           MarkLoad(r, u, c)
    PROVE  IndInv'
<1> DEFINE q == [op |-> "mark", step |-> "latest", user |-> u, pair |-> {}, chat |-> c,
                 msg |-> None, at |-> 0, seen |-> lastRead[<<c, u>>], shown |-> {}]
<1>1. /\ req' = [req EXCEPT ![r] = q]
      /\ UNCHANGED <<db, issued, clock>> /\ IsParticipant(u, c)
  BY DEF MarkLoad, Begin
<1>2. /\ c \in ChatIds \cap issued
      /\ \A s \in Requests : At(s, "create", "write") => c # req[s].chat
      /\ lastRead[<<c, u>>] \in Nat
      /\ chats[c].created <= lastRead[<<c, u>>] /\ lastRead[<<c, u>>] <= clock
  BY <1>1, ParticipantOfChat
<1>3. q \in RequestState
  BY <1>2 DEF RequestState, Ops, Steps
<1>4. \A s \in Requests : At(s, "send", "write") => None # req[s].msg
  BY PendingMessageIds
<1>5. CreateSound(r)' /\ SendSound(r)' /\ ChangeSound(r)' /\ MarkSound(r)'
  <2>1. req'[r] = q /\ chats' = chats
    BY <1>1, <1>3, OneRequestMoves DEF IndInv, db
  <2> QED
    BY <1>2, <2>1 DEF CreateSound, SendSound, ChangeSound, MarkSound, At
<1>6. /\ clock' \in Nat /\ clock <= clock' /\ UNCHANGED db
      /\ issued \subseteq issued' /\ issued' \subseteq ChatIds \cup MessageIds
  BY <1>1, IdsTyped
<1>7. /\ q.step = "latest" /\ q.op = "mark" /\ q.shown = {} /\ q.user \in Users
      /\ q.chat = c /\ c \in ChatIds \cap issued' /\ q.msg = None
      /\ q.at <= clock' /\ q.seen <= clock'
  BY <1>1, <1>2, <1>6
<1> HIDE DEF q
<1> QED
  BY <1>1, <1>2, <1>3, <1>4, <1>5, <1>6, <1>7, LocalStep

\* The later of the two times, as mark_chat_as_read takes it, or the present.
LEMMA ChosenTime ==
    ASSUME IndInv, NEW r \in Requests, MarkLatest(r)
    PROVE  \E t \in Nat :
              /\ Choose(r, t)
              /\ req[r].seen <= t /\ t <= clock' /\ clock' \in Nat /\ clock <= clock'
              /\ \A n \in VisibleMessages(req[r].chat) : messages[n].created <= t
<1> DEFINE c == req[r].chat
           seen == req[r].seen
<1>1. /\ clock \in Nat /\ seen \in Nat /\ seen <= clock
      /\ \A m \in VisibleMessages(c) : messages[m].created \in Nat
      /\ \A m \in VisibleMessages(c) : messages[m].created <= clock
  BY DEF IndInv, TypeOK, IdsAndStamps, RequestState, VisibleMessages
<1>2. ASSUME NEW m \in LatestMessages(c),
             Choose(r, IF seen < messages[m].created THEN messages[m].created ELSE seen),
             UNCHANGED clock
      PROVE  \E t \in Nat :
                /\ Choose(r, t)
                /\ seen <= t /\ t <= clock' /\ clock' \in Nat /\ clock <= clock'
                /\ \A n \in VisibleMessages(c) : messages[n].created <= t
  <2> DEFINE t == IF seen < messages[m].created THEN messages[m].created ELSE seen
  <2>1. /\ m \in VisibleMessages(c)
        /\ \A n \in VisibleMessages(c) : messages[n].created <= messages[m].created
    BY DEF LatestMessages
  <2>2. t \in Nat /\ seen <= t /\ t <= clock /\ messages[m].created <= t
    BY <1>1, <2>1
  <2>3. \A n \in VisibleMessages(c) : messages[n].created <= t
    <3> HIDE DEF t
    <3> QED BY <1>1, <2>1, <2>2
  <2>4. Choose(r, t)
    BY <1>2
  <2> HIDE DEF t
  <2> QED
    BY <1>1, <1>2, <2>2, <2>3, <2>4
<1>3. ASSUME VisibleMessages(c) = {}, Tick, Choose(r, Now)
      PROVE  \E t \in Nat :
                /\ Choose(r, t)
                /\ seen <= t /\ t <= clock' /\ clock' \in Nat /\ clock <= clock'
                /\ \A n \in VisibleMessages(c) : messages[n].created <= t
  <2>1. Now \in Nat /\ seen <= Now /\ clock <= Now /\ clock' = Now
    BY <1>1, <1>3 DEF Now, Tick
  <2> QED
    BY <1>3, <2>1
<1> QED
  BY <1>2, <1>3 DEF MarkLatest

LEMMA MarkLatestStep ==
    ASSUME IndInv, NEW r \in Requests, MarkLatest(r)
    PROVE  IndInv'
<1> DEFINE c == req[r].chat
<1>1. /\ req[r].op = "mark" /\ req[r].step = "latest" /\ UNCHANGED <<db, issued>>
      /\ req[r] \in RequestState
      /\ req[r].user \in Users /\ c \in ChatIds \cap issued
      /\ req[r].msg \in issued \cup {None} /\ req[r].seen <= clock
  BY DEF MarkLatest, At, IndInv, TypeOK, IdsAndStamps
<1>2. PICK t \in Nat :
         /\ Choose(r, t)
         /\ req[r].seen <= t /\ t <= clock' /\ clock' \in Nat /\ clock <= clock'
         /\ \A n \in VisibleMessages(c) : messages[n].created <= t
  BY ChosenTime
<1> DEFINE q == [req[r] EXCEPT !.step = "write", !.at = t, !.shown = VisibleMessages(c)]
<1>3. req' = [req EXCEPT ![r] = q]
  BY <1>2 DEF Choose
<1>4. VisibleMessages(c) \subseteq DOMAIN messages
  BY DEF VisibleMessages
<1>5. q \in RequestState
  BY <1>1, <1>4 DEF RequestState, Steps, IndInv, TypeOK
<1>6. /\ q.op = "mark" /\ q.step = "write" /\ q.user = req[r].user /\ q.chat = c
      /\ q.msg = req[r].msg /\ q.at = t /\ q.seen = req[r].seen
      /\ q.shown = VisibleMessages(c)
  BY <1>1 DEF RequestState
<1> HIDE DEF q
<1>7. CreateSound(r)' /\ SendSound(r)' /\ ChangeSound(r)' /\ MarkSound(r)'
  <2>1. req'[r] = q /\ chats' = chats /\ messages' = messages
    BY <1>1, <1>3, <1>5, OneRequestMoves DEF IndInv, db
  <2>2. c \in DOMAIN chats => chats[c].created <= req[r].seen
    BY <1>1 DEF IndInv, RequestsSound, MarkSound
  <2> QED
    BY <1>2, <1>6, <2>1, <2>2 DEF CreateSound, SendSound, ChangeSound, MarkSound, At
<1>8. q.at <= clock' /\ q.seen <= clock' /\ issued' = issued
  BY <1>1, <1>2, <1>6 DEF IndInv, TypeOK, RequestState
<1>9. \A s \in Requests \ {r} : /\ At(s, "create", "write") => q.chat # req[s].chat
                                /\ At(s, "send", "write") => q.msg # req[s].msg
  BY <1>6 DEF IndInv, RequestsSound, CreateSound, SendSound
<1> QED
  BY <1>1, <1>2, <1>3, <1>4, <1>5, <1>6, <1>7, <1>8, <1>9, IdsTyped, LocalStep

-----------------------------------------------------------------------------
(* Answers and errors. *)

\* A request goes on to a step at which it only has to answer.
LEMMA GotoStep ==
    ASSUME IndInv, NEW r \in Requests, NEW step \in {"reread", "failed"},
           req[r].step # "idle", Goto(r, step), UNCHANGED <<db, issued, clock>>
    PROVE  IndInv'
<1> DEFINE q == [req[r] EXCEPT !.step = step]
<1>1. req' = [req EXCEPT ![r] = q]
  BY DEF Goto
<1>2. /\ req[r] \in RequestState /\ clock \in Nat
      /\ req[r].user \in Users /\ req[r].chat \in ChatIds \cap issued
      /\ req[r].msg \in issued \cup {None}
      /\ req[r].at <= clock /\ req[r].seen <= clock
      /\ req[r].op \in {"edit", "delete"} => req[r].msg \in MessageIds
  BY DEF IndInv, TypeOK, IdsAndStamps
<1>3. q \in RequestState
  BY <1>2 DEF RequestState, Steps
<1>4. /\ q.op = req[r].op /\ q.step = step /\ q.user = req[r].user /\ q.chat = req[r].chat
      /\ q.msg = req[r].msg /\ q.at = req[r].at /\ q.seen = req[r].seen
      /\ q.shown = req[r].shown
  BY <1>2 DEF RequestState
<1> HIDE DEF q
<1>5. CreateSound(r)' /\ SendSound(r)' /\ ChangeSound(r)' /\ MarkSound(r)'
  <2>1. req'[r] = q /\ chats' = chats
    BY <1>1, <1>3, OneRequestMoves DEF IndInv, db
  <2> QED
    BY <1>4, <2>1
    DEF IndInv, RequestsSound, CreateSound, SendSound, ChangeSound, MarkSound, At
<1>6. \A s \in Requests \ {r} : /\ At(s, "create", "write") => q.chat # req[s].chat
                                /\ At(s, "send", "write") => q.msg # req[s].msg
  BY <1>4 DEF IndInv, RequestsSound, CreateSound, SendSound
<1>7. /\ clock' \in Nat /\ clock <= clock' /\ clock' = clock /\ UNCHANGED db
      /\ issued \subseteq issued' /\ issued' \subseteq ChatIds \cup MessageIds
      /\ issued' = issued
  BY <1>2, IdsTyped
<1> QED
  BY <1>1, <1>2, <1>3, <1>4, <1>5, <1>6, <1>7, LocalStep

LEMMA AnswerStep ==
    ASSUME IndInv, NEW r \in Requests, Answer(r), UNCHANGED <<db, issued, clock>>
    PROVE  IndInv'
<1>1. /\ Idle.op = "none" /\ Idle.step = "idle" /\ Idle.chat = None /\ Idle.msg = None
      /\ Idle.at = 0 /\ Idle.seen = 0 /\ Idle.shown = {}
  BY DEF Idle
<1>2. req' = [req EXCEPT ![r] = Idle] /\ req'[r] = Idle
  BY IdleTyped, OneRequestMoves DEF Answer, IndInv
<1>3. CreateSound(r)' /\ SendSound(r)' /\ ChangeSound(r)' /\ MarkSound(r)'
  BY <1>1, <1>2 DEF CreateSound, SendSound, ChangeSound, MarkSound, At
<1>4. \A s \in Requests \ {r} : /\ At(s, "create", "write") => None # req[s].chat
                                /\ At(s, "send", "write") => None # req[s].msg
  BY PendingMessageIds, StoreConstants DEF IndInv, IdsAndStamps, At
<1>5. /\ clock' \in Nat /\ clock <= clock' /\ 0 <= clock' /\ UNCHANGED db
      /\ issued \subseteq issued' /\ issued' \subseteq ChatIds \cup MessageIds
  BY IdsTyped
<1> QED
  BY <1>1, <1>2, <1>3, <1>4, <1>5, IdleTyped, LocalStep

LEMMA RereadStep == ASSUME IndInv, NEW r \in Requests, Reread(r) PROVE IndInv'
<1>1. CASE Answer(r)
  BY <1>1, AnswerStep DEF Reread
<1>2. CASE Goto(r, "failed")
  BY <1>2, GotoStep DEF Reread
<1> QED
  BY <1>1, <1>2 DEF Reread

-----------------------------------------------------------------------------
(* Commits. *)

(***************************************************************************)
(* A commit of request r adds no chat or message but the one whose id r    *)
(* has drawn, and leaves creation times and authors alone: what the other  *)
(* requests know stays true.                                               *)
(***************************************************************************)
LEMMA OthersKeepTheirIds ==
    ASSUME IndInv, UNCHANGED <<issued, clock>>, NEW r \in Requests, req[r].step # "idle",
           NEW q \in RequestState, req' = [req EXCEPT ![r] = q],
           q = Idle \/ (/\ q.step = "reread" /\ q.op # "mark" /\ q.user = req[r].user
                        /\ q.chat = req[r].chat /\ q.msg = req[r].msg /\ q.op = req[r].op
                        /\ q.at = req[r].at /\ q.seen = req[r].seen
                        /\ q.shown = req[r].shown),
           \A c \in DOMAIN chats' :
              \/ c \in DOMAIN chats /\ chats'[c] = chats[c]
              \/ /\ At(r, "create", "write")
                 /\ c = req[r].chat /\ chats'[c].created = req[r].at,
           \A m \in DOMAIN messages' :
              \/ /\ m \in DOMAIN messages
                 /\ messages'[m].created = messages[m].created
                 /\ messages'[m].sender = messages[m].sender
              \/ /\ At(r, "send", "write")
                 /\ m = req[r].msg /\ messages'[m].created = req[r].at,
           \A p \in DOMAIN lastRead' :
              \/ p \in DOMAIN lastRead /\ lastRead'[p] = lastRead[p]
              \/ lastRead'[p] = req[r].at
    PROVE  IdsAndStamps' /\ RequestsSound'
<1>1. /\ req'[r] = q
      /\ \A s \in Requests \ {r} : req'[s] = req[s]
  BY OneRequestMoves DEF IndInv
<1>2. /\ Idle.op = "none" /\ Idle.step = "idle" /\ Idle.chat = None /\ Idle.msg = None
      /\ Idle.at = 0 /\ Idle.seen = 0 /\ Idle.shown = {}
  BY DEF Idle
<1>3. /\ req[r].chat \in ChatIds \cap issued /\ req[r].user \in Users
      /\ req[r].at <= clock /\ clock \in Nat
  BY DEF IndInv, IdsAndStamps, TypeOK
<1>4. IdsAndStamps'
  <2>1. DOMAIN chats' \subseteq issued /\ \A c \in DOMAIN chats' : chats'[c].created <= clock
    BY <1>3 DEF IndInv, IdsAndStamps
  <2>2. DOMAIN messages' \subseteq issued
        /\ \A m \in DOMAIN messages' : messages'[m].created <= clock
    BY <1>3, PendingMessageIds DEF IndInv, IdsAndStamps
  <2>3. \A p \in DOMAIN lastRead' : lastRead'[p] <= clock
    BY <1>3 DEF IndInv, IdsAndStamps
  <2>4. \A s \in Requests :
          /\ req'[s].step = "idle" => req'[s] = Idle
          /\ req'[s].step # "idle" => req'[s].user \in Users /\ req'[s].chat \in ChatIds \cap issued
          /\ req'[s].msg \in issued \cup {None}
          /\ req'[s].shown \subseteq issued
          /\ req'[s].at <= clock /\ req'[s].seen <= clock
          /\ req'[s].op \in {"edit", "delete"} => req'[s].msg \in MessageIds
    <3>1. CASE q = Idle
      BY <1>1, <1>2, <1>3, <3>1 DEF IndInv, IdsAndStamps
    <3>2. CASE q # Idle
      BY <1>1, <1>3, <3>2 DEF IndInv, IdsAndStamps
    <3> QED
      BY <3>1, <3>2
  <2>5. Idle' = Idle
    BY DEF Idle
  <2> QED
    BY <2>1, <2>2, <2>3, <2>4, <2>5 DEF IdsAndStamps
<1>5. CreateSound(r)' /\ SendSound(r)' /\ ChangeSound(r)' /\ MarkSound(r)'
  BY <1>1, <1>2 DEF CreateSound, SendSound, ChangeSound, MarkSound, At
<1>6. ASSUME NEW s \in Requests, s # r
      PROVE  (CreateSound(s) /\ SendSound(s) /\ ChangeSound(s) /\ MarkSound(s))'
  <2>1. req'[s] = req[s]
    BY <1>1, <1>6
  <2>2. /\ CreateSound(s) /\ SendSound(s) /\ ChangeSound(s) /\ MarkSound(s)
        /\ CreateSound(r) /\ SendSound(r)
    BY DEF IndInv, RequestsSound
  <2>3. /\ q.chat = req[r].chat \/ q.chat = None
        /\ q.msg = req[r].msg \/ q.msg = None
        /\ q.shown = req[r].shown \/ q.shown = {}
    BY <1>2
  <2>4. CreateSound(s)'
    <3> SUFFICES ASSUME At(s, "create", "write")
                 PROVE  CreateSound(s)'
      BY <2>1 DEF CreateSound, At
    <3>1. req[s].chat # None /\ req[s].chat # req[r].chat
      BY <1>6, <2>2, StoreConstants DEF CreateSound, IndInv, IdsAndStamps, At
    <3>2. req[s].chat \notin DOMAIN chats'
      BY <2>2, <3>1 DEF CreateSound
    <3> QED
      BY <1>1, <2>1, <2>2, <2>3, <3>1, <3>2 DEF CreateSound
  <2>5. SendSound(s)'
    <3> SUFFICES ASSUME At(s, "send", "write")
                 PROVE  SendSound(s)'
      BY <2>1 DEF SendSound, At
    <3>1. req[s].msg # None /\ req[s].msg # req[r].msg
      BY <1>6, <2>2, PendingMessageIds DEF SendSound
    <3>2. req[s].msg \notin DOMAIN messages'
      BY <2>2, <3>1 DEF SendSound
    <3>3. \A t \in Requests : req[s].msg \notin req'[t].shown
      BY <1>1, <2>2, <2>3 DEF SendSound
    <3>4. \A t \in Requests \ {s} : req'[t].msg # req[s].msg
      BY <1>1, <2>2, <2>3, <3>1 DEF SendSound
    <3>5. ASSUME req[s].chat \in DOMAIN chats'
          PROVE  req[s].chat \in DOMAIN chats /\ chats'[req[s].chat] = chats[req[s].chat]
      BY <1>6, <2>2, <3>5 DEF CreateSound
    <3> QED
      BY <2>1, <2>2, <3>2, <3>3, <3>4, <3>5 DEF SendSound
  <2>6. ChangeSound(s)'
    <3> SUFFICES ASSUME At(s, "edit", "write") \/ At(s, "delete", "write"),
                        req[s].msg \in DOMAIN messages'
                 PROVE  messages'[req[s].msg].sender = req[s].user
      BY <2>1 DEF ChangeSound, At
    <3> QED
      BY <1>6, <2>2 DEF ChangeSound, SendSound
  <2>7. MarkSound(s)'
    <3> SUFFICES ASSUME req[s].op = "mark"
                 PROVE  MarkSound(s)'
      BY <2>1 DEF MarkSound
    <3>1. req[s].chat \in DOMAIN chats' => chats'[req[s].chat].created <= req[s].seen
      BY <1>6, <2>2 DEF CreateSound, MarkSound
    <3>2. \A m \in req[s].shown \cap DOMAIN messages' :
             m \in DOMAIN messages /\ messages'[m].created = messages[m].created
      BY <2>2 DEF SendSound
    <3> QED
      BY <2>1, <2>2, <3>1, <3>2 DEF MarkSound
  <2> QED
    BY <2>4, <2>5, <2>6, <2>7
<1> QED
  BY <1>4, <1>5, <1>6 DEF RequestsSound

LEMMA CreateCommitStep == ASSUME IndInv, NEW r \in Requests, CreateCommit(r) PROVE IndInv'
<1> DEFINE c == req[r].chat
           pair == req[r].pair
           at == req[r].at
<1>1. At(r, "create", "write") /\ UNCHANGED <<messages, issued, clock>>
  BY DEF CreateCommit
<1>2. CASE Goto(r, "failed") /\ UNCHANGED <<chats, lastRead>>
  BY <1>1, <1>2, GotoStep DEF At, db
<1>3. CASE /\ ~PairTaken(pair)
           /\ chats' = Insert(chats, c, [pair |-> pair, created |-> at])
           /\ lastRead' = [p \in DOMAIN lastRead \cup ({c} \X pair) |->
                              IF p[1] = c THEN at ELSE lastRead[p]]
           /\ Answer(r)
  <2>1. /\ c \in ChatIds /\ c \notin DOMAIN chats /\ pair \in Pairs /\ at \in Nat
        /\ req[r].step # "idle"
    BY <1>1 DEF IndInv, RequestsSound, CreateSound, IdsAndStamps, TypeOK, RequestState, At
  <2>2. pair \subseteq Users
    BY <2>1 DEF Pairs
  <2>3. /\ DOMAIN chats' = DOMAIN chats \cup {c}
        /\ chats'[c] = [pair |-> pair, created |-> at]
        /\ \A d \in DOMAIN chats : chats'[d] = chats[d]
    BY <1>3, <2>1 DEF Insert
  <2>4. \A p \in DOMAIN lastRead : p[1] \in DOMAIN chats /\ p[2] \in Users /\ p = <<p[1], p[2]>>
    BY DEF IndInv, StoreInv, TwoMarkersPerChat
  <2>5. /\ DOMAIN lastRead' = DOMAIN lastRead \cup ({c} \X pair)
        /\ \A p \in DOMAIN lastRead : lastRead'[p] = lastRead[p]
        /\ \A p \in {c} \X pair : p[1] = c /\ lastRead'[p] = at
    BY <1>3, <2>1, <2>4
  <2>6. req' = [req EXCEPT ![r] = Idle] /\ req' \in [Requests -> RequestState]
    BY <1>3, IdleTyped, OneRequestMoves DEF Answer, IndInv
  <2>7. TypeOK'
    <3>1. /\ DOMAIN chats' \subseteq ChatIds
          /\ chats' \in [DOMAIN chats' -> [pair : Pairs, created : Nat]]
      <4>1. chats' = [d \in DOMAIN chats' |-> chats'[d]]
        BY <1>3 DEF Insert
      <4>2. \A d \in DOMAIN chats' : chats'[d] \in [pair : Pairs, created : Nat]
        BY <2>1, <2>3 DEF IndInv, TypeOK
      <4> QED
        BY <2>1, <2>3, <4>1, <4>2 DEF IndInv, TypeOK
    <3>2. /\ DOMAIN lastRead' \subseteq ChatIds \X Users
          /\ lastRead' \in [DOMAIN lastRead' -> Nat]
      <4>1. lastRead' = [p \in DOMAIN lastRead' |-> lastRead'[p]]
        BY <1>3
      <4>2. \A p \in DOMAIN lastRead' : lastRead'[p] \in Nat
        BY <2>1, <2>5 DEF IndInv, TypeOK
      <4>3. {c} \X pair \subseteq ChatIds \X Users
        BY <2>1, <2>2
      <4> QED
        BY <2>5, <4>1, <4>2, <4>3 DEF IndInv, TypeOK
    <3> QED
      BY <1>1, <2>6, <3>1, <3>2 DEF IndInv, TypeOK
  <2>8. OneChatPerPair'
    BY <1>3, <2>3 DEF IndInv, StoreInv, OneChatPerPair, PairTaken
  <2>9. TwoMarkersPerChat'
    <3>1. \A p \in DOMAIN lastRead' : /\ p \in (DOMAIN chats') \X Users
                                      /\ p[2] \in chats'[p[1]].pair
      <4>1. \A p \in DOMAIN lastRead : /\ p \in (DOMAIN chats) \X Users
                                       /\ p[2] \in chats[p[1]].pair
        BY DEF IndInv, StoreInv, TwoMarkersPerChat
      <4>2. \A p \in {c} \X pair : p \in (DOMAIN chats') \X Users /\ p[2] \in chats'[p[1]].pair
        BY <2>2, <2>3
      <4> QED
        BY <2>3, <2>4, <2>5, <4>1, <4>2
    <3>2. ASSUME NEW p \in (DOMAIN chats') \X Users, p[2] \in chats'[p[1]].pair
          PROVE  p \in DOMAIN lastRead'
      <4>1. CASE p[1] = c
        BY <2>3, <2>5, <3>2, <4>1
      <4>2. CASE p[1] # c
        BY <2>3, <2>5, <3>2, <4>2 DEF IndInv, StoreInv, TwoMarkersPerChat
      <4> QED
        BY <4>1, <4>2
    <3> QED
      BY <3>1, <3>2 DEF TwoMarkersPerChat
  <2>10. \A m \in DOMAIN messages : messages[m].chat \in DOMAIN chats
    BY DEF IndInv, StoreInv, MessagesHaveHome
  <2>11. MessagesHaveHome'
    BY <1>1, <2>3 DEF IndInv, StoreInv, MessagesHaveHome
  <2>12. FreshChatUnread'
    <3>1. \A p \in DOMAIN lastRead : chats'[p[1]].created <= lastRead'[p]
      BY <2>3, <2>4, <2>5 DEF IndInv, StoreInv, FreshChatUnread
    <3>2. \A p \in {c} \X pair : chats'[p[1]].created <= lastRead'[p]
      BY <2>1, <2>3, <2>5
    <3>3. \A m \in DOMAIN messages : chats'[messages[m].chat].created < messages[m].created
      BY <2>3, <2>10 DEF IndInv, StoreInv, FreshChatUnread
    <3> QED
      BY <1>1, <2>5, <3>1, <3>2, <3>3 DEF FreshChatUnread
  <2>13. IdsAndStamps' /\ RequestsSound'
    <3>1. \A d \in DOMAIN chats' :
             \/ d \in DOMAIN chats /\ chats'[d] = chats[d]
             \/ At(r, "create", "write") /\ d = c /\ chats'[d].created = at
      BY <1>1, <2>3
    <3>2. \A p \in DOMAIN lastRead' :
             \/ p \in DOMAIN lastRead /\ lastRead'[p] = lastRead[p]
             \/ lastRead'[p] = at
      BY <2>5
    <3> QED
      BY <1>1, <2>1, <2>6, <3>1, <3>2, IdleTyped, OthersKeepTheirIds
  <2> QED
    BY <2>7, <2>8, <2>9, <2>11, <2>12, <2>13 DEF IndInv, StoreInv
<1> QED
  BY <1>2, <1>3 DEF CreateCommit

LEMMA SendCommitStep == ASSUME IndInv, NEW r \in Requests, SendCommit(r) PROVE IndInv'
<1> DEFINE c == req[r].chat
           m == req[r].msg
<1>1. At(r, "send", "write") /\ UNCHANGED <<chats, lastRead, issued, clock>>
  BY DEF SendCommit
<1>2. CASE Goto(r, "failed") /\ UNCHANGED messages
  BY <1>1, <1>2, GotoStep DEF At, db
<1>3. CASE /\ c \in DOMAIN chats
           /\ messages' = Insert(messages, m, Sent(req[r]))
           /\ Goto(r, "reread")
  <2> DEFINE q == [req[r] EXCEPT !.step = "reread"]
  <2>1. /\ c \in ChatIds /\ m \in MessageIds /\ m \notin DOMAIN messages
        /\ req[r].user \in Users /\ req[r].user \in chats[c].pair
        /\ chats[c].created < req[r].at /\ req[r].at \in Nat
        /\ req[r].step # "idle" /\ req[r] \in RequestState /\ req[r].op # "mark"
    BY <1>1, <1>3
    DEF IndInv, RequestsSound, SendSound, IdsAndStamps, TypeOK, RequestState, At
  <2>2. /\ DOMAIN messages' = DOMAIN messages \cup {m}
        /\ messages'[m].chat = c /\ messages'[m].sender = req[r].user
        /\ messages'[m].created = req[r].at
        /\ messages'[m] \in [chat : ChatIds, sender : Users, created : Nat,
                             edited : BOOLEAN, deleted : BOOLEAN]
        /\ \A n \in DOMAIN messages : messages'[n] = messages[n]
    BY <1>3, <2>1 DEF Insert, Sent
  <2>3. req' = [req EXCEPT ![r] = q]
    BY <1>3 DEF Goto
  <2>4. q \in RequestState
    BY <2>1 DEF RequestState, Steps
  <2>5. /\ q.op = req[r].op /\ q.step = "reread" /\ q.user = req[r].user
        /\ q.chat = c /\ q.msg = m /\ q.at = req[r].at /\ q.seen = req[r].seen
        /\ q.shown = req[r].shown
    BY <2>1 DEF RequestState
  <2> HIDE DEF q
  <2>6. TypeOK'
    <3>1. messages' = [n \in DOMAIN messages' |-> messages'[n]]
      BY <1>3 DEF Insert
    <3>2. \A n \in DOMAIN messages' :
             messages'[n] \in [chat : ChatIds, sender : Users, created : Nat,
                               edited : BOOLEAN, deleted : BOOLEAN]
      BY <2>2 DEF IndInv, TypeOK
    <3>3. req' \in [Requests -> RequestState]
      BY <2>3, <2>4, OneRequestMoves DEF IndInv
    <3> HIDE DEF c, m
    <3> QED
      BY <1>1, <2>1, <2>2, <3>1, <3>2, <3>3 DEF IndInv, TypeOK
  <2>7. StoreInv'
    BY <1>1, <1>3, <2>1, <2>2
    DEF IndInv, StoreInv, OneChatPerPair, TwoMarkersPerChat, MessagesHaveHome, FreshChatUnread
  <2>8. IdsAndStamps' /\ RequestsSound'
    <3>1. \A n \in DOMAIN messages' :
             \/ /\ n \in DOMAIN messages
                /\ messages'[n].created = messages[n].created
                /\ messages'[n].sender = messages[n].sender
             \/ At(r, "send", "write") /\ n = m /\ messages'[n].created = req[r].at
      BY <1>1, <2>2
    <3> QED
      BY <1>1, <2>1, <2>3, <2>4, <2>5, <3>1, OthersKeepTheirIds
  <2> QED
    BY <2>6, <2>7, <2>8 DEF IndInv
<1> QED
  BY <1>2, <1>3 DEF SendCommit

(***************************************************************************)
(* An edit or a deletion changes a flag of one row.                        *)
(***************************************************************************)
LEMMA FlagsChange ==
    ASSUME IndInv, UNCHANGED <<chats, lastRead, issued, clock>>,
           NEW r \in Requests, req[r].step # "idle", req[r].op # "mark",
           Answer(r) \/ Goto(r, "reread"),
           messages' \in [DOMAIN messages -> [chat : ChatIds, sender : Users, created : Nat,
                                              edited : BOOLEAN, deleted : BOOLEAN]],
           \A n \in DOMAIN messages : /\ messages'[n].chat = messages[n].chat
                                      /\ messages'[n].sender = messages[n].sender
                                      /\ messages'[n].created = messages[n].created
    PROVE  IndInv'
<1>1. DOMAIN messages' = DOMAIN messages
  OBVIOUS
<1>2. PICK q \in RequestState :
         /\ req' = [req EXCEPT ![r] = q]
         /\ q = Idle \/ (/\ q.step = "reread" /\ q.op # "mark" /\ q.user = req[r].user
                         /\ q.chat = req[r].chat /\ q.msg = req[r].msg /\ q.op = req[r].op
                         /\ q.at = req[r].at /\ q.seen = req[r].seen
                         /\ q.shown = req[r].shown)
  <2>1. CASE Answer(r)
    BY <2>1, IdleTyped DEF Answer
  <2>2. CASE Goto(r, "reread")
    <3> DEFINE q == [req[r] EXCEPT !.step = "reread"]
    <3>1. req[r] \in RequestState
      BY DEF IndInv, TypeOK
    <3>2. q \in RequestState
      BY <3>1 DEF RequestState, Steps
    <3>3. /\ q.op = req[r].op /\ q.step = "reread" /\ q.user = req[r].user
          /\ q.chat = req[r].chat /\ q.msg = req[r].msg /\ q.at = req[r].at
          /\ q.seen = req[r].seen /\ q.shown = req[r].shown
      BY <3>1 DEF RequestState
    <3>4. req' = [req EXCEPT ![r] = q]
      BY <2>2 DEF Goto
    <3> HIDE DEF q
    <3> QED
      BY <3>2, <3>3, <3>4
  <2> QED
    BY <2>1, <2>2
<1>3. TypeOK'
  BY <1>1, <1>2, OneRequestMoves DEF IndInv, TypeOK
<1>4. StoreInv'
  BY <1>1
  DEF IndInv, StoreInv, OneChatPerPair, TwoMarkersPerChat, MessagesHaveHome, FreshChatUnread
<1>5. IdsAndStamps' /\ RequestsSound'
  BY <1>1, <1>2, OthersKeepTheirIds
<1> QED
  BY <1>3, <1>4, <1>5 DEF IndInv

\* What the UPDATE of one column does to the table.
LEMMA EditedRow ==
    ASSUME TypeOK, NEW m \in DOMAIN messages,
           \/ messages' = [messages EXCEPT ![m].edited = TRUE]
           \/ messages' = [messages EXCEPT ![m].deleted = TRUE]
    PROVE  /\ messages' \in [DOMAIN messages -> [chat : ChatIds, sender : Users, created : Nat,
                                                 edited : BOOLEAN, deleted : BOOLEAN]]
           /\ \A n \in DOMAIN messages : /\ messages'[n].chat = messages[n].chat
                                         /\ messages'[n].sender = messages[n].sender
                                         /\ messages'[n].created = messages[n].created
                                         /\ messages[n].deleted => messages'[n].deleted
                                         /\ n # m => messages'[n] = messages[n]
<1> DEFINE Row == [chat : ChatIds, sender : Users, created : Nat,
                   edited : BOOLEAN, deleted : BOOLEAN]
<1>1. messages \in [DOMAIN messages -> Row] /\ messages[m] \in Row
  BY DEF TypeOK
<1>2. CASE messages' = [messages EXCEPT ![m].edited = TRUE]
  <2> DEFINE row == [messages[m] EXCEPT !.edited = TRUE]
  <2>1. /\ row \in Row /\ row.chat = messages[m].chat /\ row.sender = messages[m].sender
        /\ row.created = messages[m].created /\ row.deleted = messages[m].deleted
    BY <1>1
  <2>2. messages' = [messages EXCEPT ![m] = row]
    BY <1>2
  <2> HIDE DEF row, Row
  <2>3. messages' \in [DOMAIN messages -> Row]
    BY <1>1, <2>1, <2>2
  <2> QED
    BY <1>1, <2>1, <2>2, <2>3 DEF Row
<1>3. CASE messages' = [messages EXCEPT ![m].deleted = TRUE]
  <2> DEFINE row == [messages[m] EXCEPT !.deleted = TRUE]
  <2>1. /\ row \in Row /\ row.chat = messages[m].chat /\ row.sender = messages[m].sender
        /\ row.created = messages[m].created /\ row.deleted
    BY <1>1
  <2>2. messages' = [messages EXCEPT ![m] = row]
    BY <1>3
  <2> HIDE DEF row, Row
  <2>3. messages' \in [DOMAIN messages -> Row]
    BY <1>1, <2>1, <2>2
  <2> QED
    BY <1>1, <2>1, <2>2, <2>3 DEF Row
<1> QED
  BY <1>2, <1>3

LEMMA ChangeCommitStep ==
    ASSUME IndInv, NEW r \in Requests, EditCommit(r) \/ DeleteCommit(r)
    PROVE  IndInv'
<1>1. /\ req[r].step = "write" /\ req[r].op \in {"edit", "delete"}
      /\ UNCHANGED <<chats, lastRead, issued, clock>>
  BY DEF EditCommit, DeleteCommit, At
<1>2. CASE Goto(r, "failed") /\ UNCHANGED messages
  BY <1>1, <1>2, GotoStep DEF db
<1>3. CASE /\ req[r].msg \in DOMAIN messages
           /\ Answer(r) \/ Goto(r, "reread")
           /\ \/ messages' = [messages EXCEPT ![req[r].msg].edited = TRUE]
              \/ messages' = [messages EXCEPT ![req[r].msg].deleted = TRUE]
  BY <1>1, <1>3, EditedRow, FlagsChange DEF IndInv
<1> QED
  BY <1>2, <1>3 DEF EditCommit, DeleteCommit

LEMMA DeleteChatCommitStep == ASSUME IndInv, NEW r \in Requests, DeleteChatCommit(r) PROVE IndInv'
<1> DEFINE c == req[r].chat
<1>1. /\ At(r, "deleteChat", "write") /\ UNCHANGED <<issued, clock>>
      /\ chats' = [d \in DOMAIN chats \ {c} |-> chats[d]]
      /\ lastRead' = [p \in {p \in DOMAIN lastRead : p[1] # c} |-> lastRead[p]]
      /\ messages' = [m \in {m \in DOMAIN messages : messages[m].chat # c} |-> messages[m]]
      /\ req' = [req EXCEPT ![r] = Idle]
  BY DEF DeleteChatCommit, Restrict, Answer
<1>2. /\ DOMAIN chats' = DOMAIN chats \ {c}
      /\ \A d \in DOMAIN chats' : chats'[d] = chats[d]
      /\ DOMAIN lastRead' = {p \in DOMAIN lastRead : p[1] # c}
      /\ \A p \in DOMAIN lastRead' : lastRead'[p] = lastRead[p]
      /\ DOMAIN messages' = {m \in DOMAIN messages : messages[m].chat # c}
      /\ \A m \in DOMAIN messages' : messages'[m] = messages[m]
  BY <1>1
<1>3. TypeOK'
  <2>1. req' \in [Requests -> RequestState]
    BY <1>1, IdleTyped, OneRequestMoves DEF IndInv
  <2> QED
    BY <1>1, <1>2, <2>1 DEF IndInv, TypeOK
<1>4. OneChatPerPair'
  BY <1>2 DEF IndInv, StoreInv, OneChatPerPair
<1>5. TwoMarkersPerChat'
  <2>1. DOMAIN lastRead = {p \in (DOMAIN chats) \X Users : p[2] \in chats[p[1]].pair}
    BY DEF IndInv, StoreInv, TwoMarkersPerChat
  <2>2. \A p \in DOMAIN lastRead' : p \in (DOMAIN chats') \X Users /\ p[2] \in chats'[p[1]].pair
    BY <1>2, <2>1
  <2>3. \A p \in (DOMAIN chats') \X Users :
           p[2] \in chats'[p[1]].pair => p \in DOMAIN lastRead'
    BY <1>2, <2>1
  <2> QED
    BY <2>2, <2>3 DEF TwoMarkersPerChat
<1>6. MessagesHaveHome' /\ FreshChatUnread'
  BY <1>2 DEF IndInv, StoreInv, MessagesHaveHome, FreshChatUnread
<1>7. IdsAndStamps' /\ RequestsSound'
  BY <1>1, <1>2, IdleTyped, OthersKeepTheirIds DEF At
<1> QED
  BY <1>3, <1>4, <1>5, <1>6, <1>7 DEF IndInv, StoreInv

LEMMA MarkCommitStep == ASSUME IndInv, NEW r \in Requests, MarkCommit(r) PROVE IndInv'
<1> DEFINE row == <<req[r].chat, req[r].user>>
<1>1. At(r, "mark", "write") /\ UNCHANGED <<chats, messages, issued, clock>>
  BY DEF MarkCommit
<1>2. CASE Answer(r) /\ UNCHANGED lastRead
  BY <1>1, <1>2, AnswerStep DEF db
<1>3. CASE Goto(r, "failed") /\ UNCHANGED lastRead
  BY <1>1, <1>3, GotoStep DEF At, db
<1>4. CASE /\ row \in DOMAIN lastRead /\ Answer(r)
           /\ lastRead' = [lastRead EXCEPT ![row] = req[r].at]
  <2>1. /\ req[r].at \in Nat /\ req[r].seen \in Nat /\ req[r].seen <= req[r].at
        /\ req[r].chat \in DOMAIN chats => chats[req[r].chat].created <= req[r].seen
        /\ req[r].step # "idle"
    BY <1>1 DEF IndInv, TypeOK, RequestState, RequestsSound, MarkSound, At
  <2>2. /\ DOMAIN lastRead' = DOMAIN lastRead /\ lastRead'[row] = req[r].at
        /\ lastRead' \in [DOMAIN lastRead -> Nat]
        /\ \A p \in DOMAIN lastRead : p # row => lastRead'[p] = lastRead[p]
    BY <1>4, <2>1 DEF IndInv, TypeOK
  <2>3. req' = [req EXCEPT ![r] = Idle] /\ req' \in [Requests -> RequestState]
    BY <1>4, IdleTyped, OneRequestMoves DEF Answer, IndInv
  <2>4. TypeOK'
    BY <1>1, <2>2, <2>3 DEF IndInv, TypeOK
  <2>5. OneChatPerPair' /\ TwoMarkersPerChat' /\ MessagesHaveHome'
    BY <1>1, <2>2 DEF IndInv, StoreInv, OneChatPerPair, TwoMarkersPerChat, MessagesHaveHome
  <2>6. FreshChatUnread'
    <3>1. ASSUME NEW p \in DOMAIN lastRead, p[1] \in DOMAIN chats
          PROVE  chats[p[1]].created <= lastRead'[p]
      <4>1. CASE p = row
        <5>1. chats[p[1]].created \in Nat
          BY <3>1 DEF IndInv, TypeOK
        <5> QED
          BY <2>1, <2>2, <3>1, <4>1, <5>1
      <4>2. CASE p # row
        BY <2>2, <3>1, <4>2 DEF IndInv, StoreInv, FreshChatUnread
      <4> QED
        BY <4>1, <4>2
    <3> QED
      BY <1>1, <2>2, <3>1 DEF IndInv, StoreInv, FreshChatUnread
  <2>7. IdsAndStamps' /\ RequestsSound'
    <3>1. \A p \in DOMAIN lastRead' :
             \/ p \in DOMAIN lastRead /\ lastRead'[p] = lastRead[p]
             \/ lastRead'[p] = req[r].at
      BY <2>2
    <3> HIDE DEF row
    <3> QED
      BY <1>1, <2>1, <2>3, <3>1, IdleTyped, OthersKeepTheirIds
  <2> QED
    BY <2>4, <2>5, <2>6, <2>7 DEF IndInv, StoreInv
<1> QED
  BY <1>2, <1>3, <1>4 DEF MarkCommit

-----------------------------------------------------------------------------
(* The invariant and what follows from it. *)

LEMMA StepIndInv == IndInv /\ [Next]_vars => IndInv'
<1> SUFFICES ASSUME IndInv, [Next]_vars PROVE IndInv'
  OBVIOUS
<1>1. ASSUME UNCHANGED vars PROVE IndInv'
  <2>1. TypeOK' /\ StoreInv'
    BY <1>1, TablesUntouched DEF IndInv, TypeOK, vars, db
  <2>2. IdsAndStamps'
    BY <1>1 DEF IndInv, IdsAndStamps, Idle, vars
  <2>3. RequestsSound'
    BY <1>1
    DEF IndInv, RequestsSound, CreateSound, SendSound, ChangeSound, MarkSound, At, vars
  <2> QED
    BY <2>1, <2>2, <2>3 DEF IndInv
<1>2. ASSUME NEW r \in Requests, NothingToDo(r) PROVE IndInv'
  BY <1>1, <1>2 DEF NothingToDo
<1>3. ASSUME NEW r \in Requests, AnswerError(r) PROVE IndInv'
  BY <1>3, AnswerStep DEF AnswerError
<1> QED
  BY <1>1, <1>2, <1>3, CreateLookupStep, CreateCommitStep, SendCheckStep, SendCommitStep,
     RereadStep, ChangeCheckStep, ChangeCommitStep, DeleteChatCheckStep,
     DeleteChatCommitStep, MarkLoadStep, MarkLatestStep, MarkCommitStep
  DEF Next

\* Everything the handlers rely on between their reads and their writes holds in
\* every reachable state.
THEOREM Invariance == Spec => []IndInv
<1>1. Init => IndInv
  BY InitIndInv
<1>2. IndInv /\ [Next]_vars => IndInv'
  BY StepIndInv
<1> QED
  BY <1>1, <1>2, PTL DEF Spec

\* The rows and the local variables of the handlers of src/chat/service.py keep
\* their types.
THEOREM TypeCorrect == Spec => []TypeOK
<1>1. IndInv => TypeOK
  BY DEF IndInv
<1> QED
  BY <1>1, Invariance, PTL

\* create_direct_chat never gives two users a second chat, however many requests
\* race between its select and its commit.
THEOREM PairsAreUnique == Spec => []OneChatPerPair
<1>1. IndInv => OneChatPerPair
  BY DEF IndInv, StoreInv
<1> QED
  BY <1>1, Invariance, PTL

\* Every chat has exactly the read markers of its two users, as the
\* scalar_one_or_none() of _get_participant and _get_companion expect.
THEOREM MarkersComplete == Spec => []TwoMarkersPerChat
<1>1. IndInv => TwoMarkersPerChat
  BY DEF IndInv, StoreInv
<1> QED
  BY <1>1, Invariance, PTL

\* No message outlives its chat or belongs to a stranger, although send_message
\* checks the membership long before it writes.
THEOREM NoOrphans == Spec => []MessagesHaveHome
<1>1. IndInv => MessagesHaveHome
  BY DEF IndInv, StoreInv
<1> QED
  BY <1>1, Invariance, PTL

\* Markers never fall behind the creation of their chat, nor messages before it.
THEOREM ChatsStartUnread == Spec => []FreshChatUnread
<1>1. IndInv => FreshChatUnread
  BY DEF IndInv, StoreInv
<1> QED
  BY <1>1, Invariance, PTL

(***************************************************************************)
(* What a step does to the messages.                                       *)
(***************************************************************************)
LEMMA MessageChanges ==
    ASSUME IndInv, NEW r \in Requests,
           SendCommit(r) \/ EditCommit(r) \/ DeleteCommit(r) \/ DeleteChatCommit(r),
           NEW m \in DOMAIN messages
    PROVE  /\ \/ m \in DOMAIN messages'
              \/ messages[m].chat \notin DOMAIN chats'
           /\ m \in DOMAIN messages' =>
                 /\ messages[m].deleted => messages'[m].deleted
                 /\ messages'[m] # messages[m] =>
                       /\ EditCommit(r) \/ DeleteCommit(r)
                       /\ req[r].msg = m
<1>1. CASE SendCommit(r)
  <2>1. req[r].msg \notin DOMAIN messages
    BY <1>1, PendingMessageIds DEF SendCommit
  <2> QED
    BY <1>1, <2>1 DEF SendCommit, Insert
<1>2. CASE EditCommit(r) \/ DeleteCommit(r)
  <2>1. CASE UNCHANGED messages
    BY <2>1
  <2>2. CASE /\ req[r].msg \in DOMAIN messages
             /\ \/ messages' = [messages EXCEPT ![req[r].msg].edited = TRUE]
                \/ messages' = [messages EXCEPT ![req[r].msg].deleted = TRUE]
    BY <1>2, <2>2, EditedRow DEF IndInv
  <2> QED
    BY <1>2, <2>1, <2>2 DEF EditCommit, DeleteCommit
<1>3. CASE DeleteChatCommit(r)
  BY <1>3 DEF DeleteChatCommit, Restrict
<1> QED
  BY <1>1, <1>2, <1>3

\* The steps of the other handlers do not touch the messages.
LEMMA MessagesUntouched ==
    ASSUME [Next]_vars,
           ~\E r \in Requests :
               SendCommit(r) \/ EditCommit(r) \/ DeleteCommit(r) \/ DeleteChatCommit(r)
    PROVE  UNCHANGED messages
BY DEF Next, vars, db, NothingToDo, CreateLookup, CreateCommit, SendCheck, Reread, EditCheck,
       DeleteCheck, DeleteChatCheck, MarkLoad, MarkLatest, MarkCommit, AnswerError

\* The deletion of a message is final: an update_message that passed its check
\* before delete_message committed does not bring the message back.
THEOREM DeletionIsFinal == Spec => SoftDeletion
<1>1. IndInv /\ [Next]_vars =>
         [\A m \in DOMAIN messages :
             messages[m].chat \in DOMAIN chats' =>
                m \in DOMAIN messages' /\ (messages[m].deleted => messages'[m].deleted)]_vars
  BY MessageChanges, MessagesUntouched
<1> QED
  BY <1>1, Invariance, PTL DEF Spec, SoftDeletion

\* A request that is about to write a marker and answers has done MarkCommit.
LEMMA OnlyMarkCommitAnswers ==
    ASSUME IndInv, Next, NEW r \in Requests, Marks(r)
    PROVE  MarkCommit(r)
<1>1. req[r].op = "mark" /\ req[r].step = "write" /\ req'[r].step = "idle"
  BY DEF Marks, At
<1>2. \A s \in Requests : \A q : s # r /\ req' = [req EXCEPT ![s] = q] => req'[r] = req[r]
  BY DEF IndInv, TypeOK
<1>3. \A s \in Requests : \A step : s # r /\ Goto(s, step) => req'[r] = req[r]
  BY DEF Goto, IndInv, TypeOK
<1>4. \A s \in Requests : \A t : s # r /\ Choose(s, t) => req'[r] = req[r]
  BY DEF Choose, IndInv, TypeOK
<1>5. ASSUME NEW s \in Requests, s # r
      PROVE  /\ \A u, v \in Users, c \in ChatIds : ~CreateLookup(s, u, v, c)
             /\ ~CreateCommit(s)
             /\ \A u \in Users, c \in ChatIds, m \in MessageIds : ~SendCheck(s, u, c, m)
             /\ ~SendCommit(s) /\ ~Reread(s)
             /\ \A u \in Users, m \in MessageIds : ~EditCheck(s, u, m) /\ ~DeleteCheck(s, u, m)
             /\ ~EditCommit(s) /\ ~DeleteCommit(s)
             /\ \A u \in Users, c \in ChatIds : ~DeleteChatCheck(s, u, c) /\ ~MarkLoad(s, u, c)
             /\ ~DeleteChatCommit(s) /\ ~MarkLatest(s) /\ ~MarkCommit(s)
             /\ ~AnswerError(s)
  BY <1>1, <1>2, <1>3, <1>4, <1>5
  DEF CreateLookup, CreateCommit, SendCheck, SendCommit, Reread, EditCheck, DeleteCheck,
      EditCommit, DeleteCommit, DeleteChatCheck, MarkLoad, DeleteChatCommit, MarkLatest,
      MarkCommit, AnswerError, Answer
<1>6. \A s \in Requests : ~NothingToDo(s)
  BY <1>1 DEF NothingToDo, vars
<1>7. /\ \A u, v \in Users, c \in ChatIds : ~CreateLookup(r, u, v, c)
      /\ ~CreateCommit(r)
      /\ \A u \in Users, c \in ChatIds, m \in MessageIds : ~SendCheck(r, u, c, m)
      /\ ~SendCommit(r) /\ ~Reread(r)
      /\ \A u \in Users, m \in MessageIds : ~EditCheck(r, u, m) /\ ~DeleteCheck(r, u, m)
      /\ ~EditCommit(r) /\ ~DeleteCommit(r)
      /\ \A u \in Users, c \in ChatIds : ~DeleteChatCheck(r, u, c) /\ ~MarkLoad(r, u, c)
      /\ ~DeleteChatCommit(r) /\ ~MarkLatest(r)
      /\ ~AnswerError(r)
  BY <1>1
  DEF CreateLookup, CreateCommit, SendCheck, SendCommit, Reread, EditCheck, DeleteCheck,
      EditCommit, DeleteCommit, DeleteChatCheck, MarkLoad, DeleteChatCommit, MarkLatest,
      AnswerError, At
<1> QED
  BY <1>5, <1>6, <1>7 DEF Next

\* A mark that nobody overtook leaves the marker at or beyond every message that
\* mark_chat_as_read found in the chat, and never moves it back.
THEOREM MarksCover == Spec => MarkCoversShown
<1>1. ASSUME IndInv, Next, NEW r \in Requests, Marks(r), Marker(r) \in DOMAIN lastRead,
             lastRead[Marker(r)] = req[r].seen
      PROVE  /\ lastRead'[Marker(r)] >= lastRead[Marker(r)]
             /\ \A m \in req[r].shown \cap DOMAIN messages :
                   messages[m].created <= lastRead'[Marker(r)]
  <2>1. MarkCommit(r)
    BY <1>1, OnlyMarkCommitAnswers
  <2>2. /\ req[r].seen \in Nat /\ req[r].at \in Nat /\ req[r].seen <= req[r].at
        /\ \A m \in req[r].shown \cap DOMAIN messages : messages[m].created <= req[r].at
    BY <1>1, <2>1
    DEF MarkCommit, IndInv, TypeOK, RequestState, RequestsSound, MarkSound, At
  <2>3. lastRead'[Marker(r)] = req[r].at
    BY <1>1, <2>1 DEF MarkCommit, Marker, IndInv, TypeOK
  <2> QED
    BY <1>1, <2>2, <2>3
<1>2. IndInv /\ [Next]_vars =>
         [\A r \in Requests :
             (Marks(r) /\ Marker(r) \in DOMAIN lastRead
                       /\ lastRead[Marker(r)] = req[r].seen) =>
                /\ lastRead'[Marker(r)] >= lastRead[Marker(r)]
                /\ \A m \in req[r].shown \cap DOMAIN messages :
                      messages[m].created <= lastRead'[Marker(r)]]_vars
  BY <1>1
<1> QED
  BY <1>2, Invariance, PTL DEF Spec, MarkCoversShown
-----------------------------------------------------------------------------
(***************************************************************************)
(* The refinement of DirectChats.  The values of its variables, and then   *)
(* the step that the users see: a check is the asking, a commit the taking *)
(* effect, a failure the giving up, and the rest is not to be seen.        *)
(***************************************************************************)
Talks == [c \in DOMAIN chats |-> chats[c].pair]
Said == [m \in DOMAIN messages |->
            [chat |-> messages[m].chat, author |-> messages[m].sender,
             state |-> State(messages[m])]]
Wishes == [r \in Requests |-> Wish(r)]

NothingSeen ==
    /\ Talks' = Talks /\ lastRead' = lastRead /\ Said' = Said
    /\ issued' = issued /\ Wishes' = Wishes

LEMMA SameView ==
    ASSUME UNCHANGED db
    PROVE  Talks' = Talks /\ Said' = Said /\ lastRead' = lastRead
BY DEF db, Talks, Said

\* The wish of a request whose local state is q.
WishOf(q) ==
    IF q.step \notin {"latest", "write"} THEN None
    ELSE [user |-> q.user,
          id |-> IF q.op = "create" THEN q.chat ELSE IF q.op = "send" THEN q.msg ELSE None]

LEMMA WishMoves ==
    ASSUME TypeOK, NEW r \in Requests, NEW q, req' = [req EXCEPT ![r] = q]
    PROVE  Wishes' = [Wishes EXCEPT ![r] = WishOf(q)]
<1>1. req'[r] = q /\ \A s \in Requests : s # r => req'[s] = req[s]
  BY DEF TypeOK
<1>2. Wish(r)' = WishOf(q)
  BY <1>1 DEF Wish, WishOf
<1>3. \A s \in Requests : s # r => Wish(s)' = Wish(s)
  BY <1>1 DEF Wish
<1> QED
  BY <1>2, <1>3 DEF Wishes

\* A request that has passed its checks has a wish.
LEMMA PendingWish ==
    ASSUME IndInv, NEW r \in Requests, req[r].step = "write"
    PROVE  Wish(r).user = req[r].user /\ Wishes[r] = Wish(r) /\ Wishes[r] # None
<1>1. req[r].user \in Users /\ req[r].chat \in ChatIds
  BY DEF IndInv, IdsAndStamps
<1>2. req[r].op = "send" => req[r].msg \in MessageIds
  BY PendingMessageIds DEF At
<1>3. Wish(r) \in [user : Users, id : ChatIds \cup MessageIds \cup {None}]
  BY <1>1, <1>2 DEF Wish
<1> QED
  BY <1>3, StoreConstants DEF Wish, Wishes

LEMMA Settles ==
    ASSUME IndInv, NEW r \in Requests, req[r].step = "write", issued' = issued,
           Answer(r) \/ Goto(r, "reread") \/ Goto(r, "failed")
    PROVE  Chats!Settle(r)
<1>1. PICK q : req' = [req EXCEPT ![r] = q] /\ q.step \in {"idle", "reread", "failed"}
  <2>1. CASE Answer(r)
    <3>1. req' = [req EXCEPT ![r] = Idle] /\ Idle.step = "idle"
      BY <2>1 DEF Answer, Idle
    <3> QED
      BY <3>1
  <2>2. ASSUME NEW step, Goto(r, step)
        PROVE  req' = [req EXCEPT ![r] = [req[r] EXCEPT !.step = step]]
    BY <2>2 DEF Goto
  <2>3. req[r] \in RequestState
    BY DEF IndInv, TypeOK
  <2>4. \A step : [req[r] EXCEPT !.step = step].step = step
    BY <2>3 DEF RequestState
  <2> QED
    BY <2>1, <2>2, <2>4
<1>2. Wishes' = [Wishes EXCEPT ![r] = None]
  BY <1>1, WishMoves DEF WishOf, IndInv
<1> QED
  BY <1>2, PendingWish DEF Chats!Settle, Wishes

\* A commit that fails, or has nothing to store.
LEMMA GivesUp ==
    ASSUME IndInv, NEW r \in Requests, req[r].step = "write", issued' = issued, UNCHANGED db,
           Answer(r) \/ Goto(r, "reread") \/ Goto(r, "failed")
    PROVE  Chats!GiveUp(r)
BY Settles, SameView DEF Chats!GiveUp, Talks, Said

(***************************************************************************)
(* The checks.                                                             *)
(***************************************************************************)
LEMMA Asks ==
    ASSUME IndInv, NEW r \in Requests, NEW u \in Users, NEW x, NEW q,
           req[r].step = "idle", req' = [req EXCEPT ![r] = q], UNCHANGED db,
           WishOf(q) = [user |-> u, id |-> x],
           \/ x = None /\ issued' = issued
           \/ x \in (ChatIds \cup MessageIds) \ issued /\ issued' = issued \cup {x}
    PROVE  Chats!ChatsNext
<1>1. Wishes[r] = None
  BY DEF Wishes, Wish
<1>2. x \notin issued /\ issued' = IF x = None THEN issued ELSE issued \cup {x}
  BY StoreConstants, IdsTyped
<1>3. Wishes' = [Wishes EXCEPT ![r] = [user |-> u, id |-> x]]
  BY WishMoves DEF IndInv
<1>4. Chats!Ask(r, u, x)
  BY <1>1, <1>2, <1>3, SameView DEF Chats!Ask, Wishes, Talks, Said
<1> QED
  BY <1>4 DEF Chats!ChatsNext

LEMMA CreateAsks ==
    ASSUME IndInv, NEW r \in Requests, NEW u \in Users, NEW v \in Users, NEW c \in ChatIds,
           CreateLookup(r, u, v, c)
    PROVE  Chats!ChatsNext
<1> DEFINE q == Begin("create", "write", u, c, {u, v}, None, Now, 0)
<1>1. WishOf(q) = [user |-> u, id |-> c]
  BY DEF Begin, WishOf
<1>2. /\ req[r].step = "idle" /\ req' = [req EXCEPT ![r] = q] /\ UNCHANGED db
      /\ c \notin issued /\ issued' = issued \cup {c}
  BY DEF CreateLookup
<1> HIDE DEF q
<1> QED
  BY <1>1, <1>2, Asks

LEMMA SendAsks ==
    ASSUME IndInv, NEW r \in Requests, NEW u \in Users, NEW c \in ChatIds,
           NEW m \in MessageIds, SendCheck(r, u, c, m)
    PROVE  Chats!ChatsNext
<1> DEFINE q == Begin("send", "write", u, c, {}, m, Now, 0)
<1>1. WishOf(q) = [user |-> u, id |-> m]
  BY DEF Begin, WishOf
<1>2. /\ req[r].step = "idle" /\ req' = [req EXCEPT ![r] = q] /\ UNCHANGED db
      /\ m \notin issued /\ issued' = issued \cup {m}
  BY DEF SendCheck
<1> HIDE DEF q
<1> QED
  BY <1>1, <1>2, Asks

\* The checks of the operations on what is there already draw no id.
LEMMA OthersAsk ==
    ASSUME IndInv, NEW r \in Requests, NEW u \in Users
    PROVE  /\ \A m \in MessageIds :
                 EditCheck(r, u, m) \/ DeleteCheck(r, u, m) => Chats!ChatsNext
           /\ \A c \in ChatIds :
                 DeleteChatCheck(r, u, c) \/ MarkLoad(r, u, c) => Chats!ChatsNext
<1>1. ASSUME NEW op \in {"edit", "delete", "deleteChat", "mark"},
             NEW step \in {"latest", "write"}, NEW d, NEW n, NEW seen,
             req[r].step = "idle", UNCHANGED <<db, issued>>,
             req' = [req EXCEPT ![r] = Begin(op, step, u, d, {}, n, 0, seen)]
      PROVE  Chats!ChatsNext
  <2> DEFINE q == Begin(op, step, u, d, {}, n, 0, seen)
  <2>1. WishOf(q) = [user |-> u, id |-> None]
    BY DEF Begin, WishOf
  <2>2. req' = [req EXCEPT ![r] = q] /\ UNCHANGED db /\ issued' = issued
    BY <1>1
  <2> HIDE DEF q
  <2> QED
    BY <1>1, <2>1, <2>2, Asks
<1> QED
  BY <1>1 DEF EditCheck, DeleteCheck, DeleteChatCheck, MarkLoad

(***************************************************************************)
(* The commits.                                                            *)
(***************************************************************************)
LEMMA CreateOpens ==
    ASSUME IndInv, NEW r \in Requests, Entitled(r), CreateCommit(r),
           NEW c, NEW u, c = req[r].chat, u = req[r].user
    PROVE  Chats!ChatsNext
<1> DEFINE pair == req[r].pair
<1>1. At(r, "create", "write") /\ req[r].step = "write" /\ UNCHANGED <<messages, issued>>
  BY DEF CreateCommit, At
<1>2. CASE Goto(r, "failed") /\ UNCHANGED <<chats, lastRead>>
  BY <1>1, <1>2, GivesUp DEF db, Chats!ChatsNext
<1>3. CASE /\ ~PairTaken(pair)
           /\ chats' = Insert(chats, c, [pair |-> pair, created |-> req[r].at])
           /\ lastRead' = [p \in DOMAIN lastRead \cup ({c} \X pair) |->
                              IF p[1] = c THEN req[r].at ELSE lastRead[p]]
           /\ Answer(r)
  <2>1. c \in ChatIds /\ c \notin DOMAIN chats /\ pair \in Pairs /\ u \in pair
    BY <1>1 DEF IndInv, IdsAndStamps, RequestsSound, CreateSound, Entitled, At
  <2>2. PICK v \in Users : u # v /\ pair = {u, v}
    BY <2>1 DEF Pairs
  <2>3. Chats!Settle(r)
    BY <1>1, <1>3, Settles
  <2>4. Wishes[r].user = u /\ Wishes[r].id = c
    BY <1>1 DEF Wishes, Wish, At
  <2>5. Talks' = Chats!Added(Talks, c, {u, v})
    BY <1>3, <2>2 DEF Talks, Insert, Chats!Added
  <2>6. \A d \in DOMAIN Talks : Talks[d] # {u, v}
    BY <1>3, <2>2 DEF Talks, PairTaken
  <2>7. \A p \in DOMAIN lastRead : p[1] # c
    BY <2>1 DEF IndInv, StoreInv, TwoMarkersPerChat
  <2>8. /\ DOMAIN lastRead' = DOMAIN lastRead \cup {<<c, u>>, <<c, v>>}
        /\ \A p \in DOMAIN lastRead : lastRead'[p] = lastRead[p]
        /\ lastRead'[<<c, u>>] = lastRead'[<<c, v>>]
    BY <1>3, <2>2, <2>7
  <2>9. Said' = Said
    BY <1>1 DEF Said
  <2>10. Chats!Open(r, v)
    BY <2>1, <2>2, <2>3, <2>4, <2>5, <2>6, <2>8, <2>9
    DEF Chats!Open, Chats!MarksKept, Wishes, Talks, Said
  <2> QED
    BY <2>10 DEF Chats!ChatsNext
<1> QED
  BY <1>2, <1>3 DEF CreateCommit

LEMMA SendSays ==
    ASSUME IndInv, NEW r \in Requests, SendCommit(r),
           NEW c, NEW u, NEW m, c = req[r].chat, u = req[r].user, m = req[r].msg
    PROVE  Chats!ChatsNext
<1>1. /\ At(r, "send", "write") /\ req[r].step = "write"
      /\ UNCHANGED <<chats, lastRead, issued>>
  BY DEF SendCommit, At
<1>2. CASE Goto(r, "failed") /\ UNCHANGED messages
  BY <1>1, <1>2, GivesUp DEF db, Chats!ChatsNext
<1>3. CASE /\ c \in DOMAIN chats /\ Goto(r, "reread")
           /\ messages' = Insert(messages, m, Sent(req[r]))
  <2>1. u \in chats[c].pair /\ m \in MessageIds /\ m \notin DOMAIN messages
    BY <1>1, <1>3 DEF IndInv, RequestsSound, SendSound
  <2>2. Chats!Settle(r)
    BY <1>1, <1>3, Settles
  <2>3. Wishes[r].user = u /\ Wishes[r].id = m
    BY <1>1 DEF Wishes, Wish, At
  <2>4. c \in DOMAIN Talks /\ u \in Talks[c] /\ Talks' = Talks
    BY <1>1, <1>3, <2>1 DEF Talks
  <2>5. Said' = Chats!Added(Said, m, [chat |-> c, author |-> u, state |-> "said"])
    <3>1. /\ DOMAIN messages' = DOMAIN messages \cup {m} /\ messages'[m] = Sent(req[r])
          /\ \A n \in DOMAIN messages : messages'[n] = messages[n]
      BY <1>3, <2>1 DEF Insert
    <3>2. /\ Sent(req[r]).chat = c /\ Sent(req[r]).sender = u
          /\ State(Sent(req[r])) = "said"
      BY DEF Sent, State
    <3> QED
      BY <2>1, <3>1, <3>2 DEF Said, Chats!Added
  <2>6. Chats!Say(r, c)
    BY <1>1, <2>1, <2>2, <2>3, <2>4, <2>5 DEF Chats!Say, Wishes, Talks, Said
  <2> QED
    BY <2>4, <2>6 DEF Chats!ChatsNext, Talks
<1> QED
  BY <1>2, <1>3 DEF SendCommit

\* An edit or a deletion of a message that is deleted by then is not to be seen.
LEMMA ChangeShows ==
    ASSUME IndInv, NEW r \in Requests, EditCommit(r) \/ DeleteCommit(r),
           NEW m, m = req[r].msg
    PROVE  Chats!ChatsNext
<1>1. /\ req[r].step = "write" /\ req[r].op \in {"edit", "delete"}
      /\ UNCHANGED <<chats, lastRead, issued>>
  BY DEF EditCommit, DeleteCommit, At
<1>2. CASE Goto(r, "failed") /\ UNCHANGED messages
  BY <1>1, <1>2, GivesUp DEF db, Chats!ChatsNext
<1>3. CASE /\ m \in DOMAIN messages
           /\ Answer(r) \/ Goto(r, "reread")
           /\ \/ messages' = [messages EXCEPT ![m].edited = TRUE]
              \/ messages' = [messages EXCEPT ![m].deleted = TRUE]
  <2>1. Chats!Settle(r)
    BY <1>1, <1>3, Settles
  <2>2. /\ DOMAIN messages' = DOMAIN messages
        /\ \A n \in DOMAIN messages : n # m => messages'[n] = messages[n]
        /\ messages'[m].chat = messages[m].chat /\ messages'[m].sender = messages[m].sender
        /\ messages[m].deleted => messages'[m].deleted
    BY <1>3, EditedRow DEF IndInv
  <2>3. messages[m].sender = req[r].user
    BY <1>1, <1>3 DEF IndInv, RequestsSound, ChangeSound, At
  <2>4. Talks' = Talks
    BY <1>1 DEF Talks
  <2>5. \A n \in DOMAIN messages : n # m => Said'[n] = Said[n]
    BY <2>2 DEF Said
  <2>6. Said'[m] = [Said[m] EXCEPT !.state = State(messages[m])']
    BY <1>3, <2>2 DEF Said
  <2>7. CASE messages[m].deleted
    <3>1. State(messages[m])' = State(messages[m])
      BY <2>2, <2>7 DEF State
    <3>2. Said' = Said
      BY <1>3, <2>2, <2>5, <2>6, <3>1 DEF Said
    <3> QED
      BY <1>1, <2>1, <2>4, <3>2 DEF Chats!GiveUp, Chats!ChatsNext, Talks, Said
  <2>8. CASE ~messages[m].deleted
    <3>1. State(messages[m])' \in {"revised", "withdrawn"}
      BY <1>3, <2>8 DEF State, IndInv, TypeOK
    <3>2. /\ m \in DOMAIN Said /\ Said[m].author = req[r].user
          /\ Said[m].state # "withdrawn"
      BY <1>3, <2>3, <2>8 DEF Said, State
    <3>3. Said' = [Said EXCEPT ![m].state = State(messages[m])']
      <4>1. /\ Said' = [n \in DOMAIN messages |-> Said'[n]]
            /\ Said = [n \in DOMAIN messages |-> Said[n]]
        BY <2>2 DEF Said
      <4> QED
        BY <1>3, <2>5, <2>6, <4>1
    <3>4. Wishes[r].user = req[r].user
      BY <1>1, PendingWish
    <3>5. \E state \in {"revised", "withdrawn"} : Chats!Change(r, m, state)
      BY <1>1, <2>1, <2>4, <3>1, <3>2, <3>3, <3>4 DEF Chats!Change, Wishes, Talks, Said
    <3> QED
      BY <3>2, <3>5 DEF Chats!ChatsNext, Said
  <2> QED
    BY <2>7, <2>8
<1> QED
  BY <1>2, <1>3 DEF EditCommit, DeleteCommit

LEMMA DeleteCloses ==
    ASSUME IndInv, NEW r \in Requests, Entitled(r), DeleteChatCommit(r),
           NEW c, c = req[r].chat
    PROVE  Chats!ChatsNext
<1>1. /\ At(r, "deleteChat", "write") /\ req[r].step = "write" /\ issued' = issued
      /\ chats' = Restrict(chats, DOMAIN chats \ {c})
      /\ lastRead' = Restrict(lastRead, {p \in DOMAIN lastRead : p[1] # c})
      /\ messages' = Restrict(messages, {m \in DOMAIN messages : messages[m].chat # c})
      /\ Answer(r)
  BY DEF DeleteChatCommit, At
<1>2. CASE c \notin DOMAIN chats
  <2>1. /\ \A p \in DOMAIN lastRead : p[1] # c
        /\ \A m \in DOMAIN messages : messages[m].chat # c
    BY <1>2 DEF IndInv, StoreInv, TwoMarkersPerChat, MessagesHaveHome
  <2>2. UNCHANGED db
    BY <1>1, <1>2, <2>1 DEF Restrict, IndInv, TypeOK, db
  <2> QED
    BY <1>1, <2>2, GivesUp DEF Chats!ChatsNext
<1>3. CASE c \in DOMAIN chats
  <2>1. Chats!Settle(r)
    BY <1>1, Settles
  <2>2. c \in DOMAIN Talks /\ Wishes[r].user \in Talks[c]
    BY <1>1, <1>3, PendingWish DEF Entitled, Talks
  <2>3. Talks' = Restrict(Talks, DOMAIN Talks \ {c})
    BY <1>1 DEF Talks, Restrict
  <2>4. Said' = Restrict(Said, {m \in DOMAIN Said : Said[m].chat # c})
    <3>1. {m \in DOMAIN Said : Said[m].chat # c} = {m \in DOMAIN messages : messages[m].chat # c}
      BY DEF Said
    <3> QED
      BY <1>1, <3>1 DEF Said, Restrict
  <2>5. Chats!Close(r, c)
    BY <1>1, <2>1, <2>2, <2>3, <2>4 DEF Chats!Close, Chats!Restrict, Restrict, Wishes, Talks, Said
  <2> QED
    BY <2>2, <2>5 DEF Chats!ChatsNext, Talks
<1> QED
  BY <1>2, <1>3

LEMMA MarkReads ==
    ASSUME IndInv, NEW r \in Requests, MarkCommit(r),
           NEW c, NEW u, c = req[r].chat, u = req[r].user
    PROVE  Chats!ChatsNext
<1>1. /\ At(r, "mark", "write") /\ req[r].step = "write"
      /\ UNCHANGED <<chats, messages, issued>>
  BY DEF MarkCommit, At
<1>2. CASE UNCHANGED lastRead /\ (Answer(r) \/ Goto(r, "failed"))
  BY <1>1, <1>2, GivesUp DEF MarkCommit, db, Chats!ChatsNext
<1>3. CASE /\ <<c, u>> \in DOMAIN lastRead /\ Answer(r)
           /\ lastRead' = [lastRead EXCEPT ![<<c, u>>] = req[r].at]
  <2>1. c \in DOMAIN chats /\ u \in chats[c].pair
    BY <1>3 DEF IndInv, StoreInv, TwoMarkersPerChat
  <2>2. Chats!Settle(r)
    BY <1>1, <1>3, Settles
  <2>3. /\ c \in DOMAIN Talks /\ u \in Talks[c] /\ Wishes[r].user = u
        /\ Talks' = Talks /\ Said' = Said
    BY <1>1, <2>1, PendingWish DEF Talks, Said
  <2>4. /\ DOMAIN lastRead' = DOMAIN lastRead
        /\ \A p \in DOMAIN lastRead : p # <<c, u>> => lastRead'[p] = lastRead[p]
    BY <1>3
  <2>5. Chats!Read(r, c)
    BY <2>2, <2>3, <2>4 DEF Chats!Read, Chats!MarksKept, Wishes, Talks, Said
  <2> QED
    BY <2>3, <2>5 DEF Chats!ChatsNext, Talks
<1> QED
  BY <1>1, <1>2, <1>3 DEF MarkCommit

(***************************************************************************)
(* The users' rights at the commit, and the refinement.                    *)
(***************************************************************************)

LEMMA StayEntitled ==
    ASSUME IndInv, RequestsEntitled, NEW r \in Requests, NEW q, req' = [req EXCEPT ![r] = q],
           \A d \in DOMAIN chats' : \/ d \in DOMAIN chats /\ chats'[d] = chats[d]
                                    \/ At(r, "create", "write") /\ d = req[r].chat,
           (q.op = "create" /\ q.step = "write") => q.user \in q.pair,
           (q.op = "deleteChat" /\ q.step = "write") =>
               (q.chat \in DOMAIN chats' => q.user \in chats'[q.chat].pair)
    PROVE  RequestsEntitled'
<1>1. req'[r] = q /\ \A s \in Requests : s # r => req'[s] = req[s]
  BY DEF IndInv, TypeOK
<1>2. Entitled(r)'
  BY <1>1 DEF Entitled, At
<1>3. ASSUME NEW s \in Requests, s # r PROVE Entitled(s)'
  <2>1. req'[s] = req[s] /\ Entitled(s)
    BY <1>1, <1>3 DEF RequestsEntitled
  <2>2. At(r, "create", "write") => req[s].chat # req[r].chat
    BY <1>3 DEF IndInv, RequestsSound, CreateSound
  <2> QED
    BY <2>1, <2>2 DEF Entitled, At
<1> QED
  BY <1>2, <1>3 DEF RequestsEntitled

\* Requests that do not enter a write step of their own.
LEMMA MovesEntitled ==
    ASSUME IndInv, RequestsEntitled, NEW r \in Requests,
           \/ Answer(r) \/ Goto(r, "reread") \/ Goto(r, "failed")
           \/ req[r].op = "mark" /\ \E t : Choose(r, t),
           \A d \in DOMAIN chats' : \/ d \in DOMAIN chats /\ chats'[d] = chats[d]
                                    \/ At(r, "create", "write") /\ d = req[r].chat
    PROVE  RequestsEntitled'
<1>1. req[r] \in RequestState
  BY DEF IndInv, TypeOK
<1>2. CASE Answer(r)
  <2>1. req' = [req EXCEPT ![r] = Idle] /\ Idle.step = "idle"
    BY <1>2 DEF Answer, Idle
  <2> QED
    BY <2>1, StayEntitled
<1>3. ASSUME NEW step \in {"reread", "failed"}, Goto(r, step) PROVE RequestsEntitled'
  <2> DEFINE q == [req[r] EXCEPT !.step = step]
  <2>1. req' = [req EXCEPT ![r] = q]
    BY <1>3 DEF Goto
  <2>2. q.step = step
    BY <1>1 DEF RequestState
  <2> HIDE DEF q
  <2> QED
    BY <2>1, <2>2, StayEntitled
<1>4. ASSUME NEW t, Choose(r, t), req[r].op = "mark" PROVE RequestsEntitled'
  <2> DEFINE q == [req[r] EXCEPT !.step = "write", !.at = t,
                                 !.shown = VisibleMessages(req[r].chat)]
  <2>1. req' = [req EXCEPT ![r] = q]
    BY <1>4 DEF Choose
  <2>2. q.op = "mark"
    BY <1>1, <1>4 DEF RequestState
  <2> HIDE DEF q
  <2> QED
    BY <2>1, <2>2, StayEntitled
<1> QED
  BY <1>2, <1>3, <1>4

LEMMA StepEntitled == IndInv /\ RequestsEntitled /\ [Next]_vars => RequestsEntitled'
<1> SUFFICES ASSUME IndInv, RequestsEntitled, [Next]_vars PROVE RequestsEntitled'
  OBVIOUS
<1>1. CASE UNCHANGED vars
  BY <1>1 DEF RequestsEntitled, Entitled, At, vars
<1>2. ASSUME NEW r \in Requests, NEW q, req' = [req EXCEPT ![r] = q], chats' = chats,
             q.op = "create" => q.user \in q.pair,
             q.op = "deleteChat" => q.user \in chats[q.chat].pair
      PROVE  RequestsEntitled'
  BY <1>2, StayEntitled
<1>3. ASSUME NEW r \in Requests, CreateCommit(r) PROVE RequestsEntitled'
  BY <1>3, MovesEntitled DEF CreateCommit, Insert
<1>4. ASSUME NEW r \in Requests, SendCommit(r) \/ EditCommit(r) \/ DeleteCommit(r)
      PROVE  RequestsEntitled'
  BY <1>4, MovesEntitled DEF SendCommit, EditCommit, DeleteCommit
<1>5. ASSUME NEW r \in Requests, DeleteChatCommit(r) PROVE RequestsEntitled'
  BY <1>5, MovesEntitled DEF DeleteChatCommit, Restrict
<1>6. ASSUME NEW r \in Requests, Reread(r) \/ AnswerError(r) PROVE RequestsEntitled'
  BY <1>6, MovesEntitled DEF Reread, AnswerError, db
<1>7. ASSUME NEW r \in Requests, MarkLatest(r) \/ MarkCommit(r) PROVE RequestsEntitled'
  BY <1>7, MovesEntitled DEF MarkLatest, MarkCommit, At, db
<1>8. ASSUME NEW r \in Requests, NothingToDo(r) PROVE RequestsEntitled'
  BY <1>1, <1>8 DEF NothingToDo
<1>9. ASSUME NEW r \in Requests, NEW u \in Users, NEW v \in Users, NEW c \in ChatIds,
             CreateLookup(r, u, v, c)
      PROVE  RequestsEntitled'
  <2> DEFINE q == Begin("create", "write", u, c, {u, v}, None, Now, 0)
  <2>1. req' = [req EXCEPT ![r] = q] /\ chats' = chats
    BY <1>9 DEF CreateLookup, db
  <2>2. q.op = "create" /\ q.user \in q.pair
    BY DEF Begin
  <2> HIDE DEF q
  <2> QED
    BY <1>2, <2>1, <2>2
<1>10. ASSUME NEW r \in Requests, NEW u \in Users, NEW c \in ChatIds, NEW m \in MessageIds,
              SendCheck(r, u, c, m)
       PROVE  RequestsEntitled'
  <2> DEFINE q == Begin("send", "write", u, c, {}, m, Now, 0)
  <2>1. req' = [req EXCEPT ![r] = q] /\ chats' = chats
    BY <1>10 DEF SendCheck, db
  <2>2. q.op = "send"
    BY DEF Begin
  <2> HIDE DEF q
  <2> QED
    BY <1>2, <2>1, <2>2
<1>11. ASSUME NEW r \in Requests, NEW u \in Users, NEW m \in MessageIds,
              NEW op \in {"edit", "delete"}, UNCHANGED db,
              req' = [req EXCEPT ![r] =
                        Begin(op, "write", u, messages[m].chat, {}, m, 0, 0)]
       PROVE  RequestsEntitled'
  <2> DEFINE q == Begin(op, "write", u, messages[m].chat, {}, m, 0, 0)
  <2>1. req' = [req EXCEPT ![r] = q] /\ chats' = chats
    BY <1>11 DEF db
  <2>2. q.op = op
    BY DEF Begin
  <2> HIDE DEF q
  <2> QED
    BY <1>2, <2>1, <2>2
<1>12. ASSUME NEW r \in Requests, NEW u \in Users, NEW c \in ChatIds,
              DeleteChatCheck(r, u, c)
       PROVE  RequestsEntitled'
  <2> DEFINE q == Begin("deleteChat", "write", u, c, {}, None, 0, 0)
  <2>1. req' = [req EXCEPT ![r] = q] /\ chats' = chats
    BY <1>12 DEF DeleteChatCheck, db
  <2>2. q.op = "deleteChat" /\ q.user = u /\ q.chat = c
    BY DEF Begin
  <2>3. u \in chats[c].pair
    BY <1>12, ParticipantOfChat DEF DeleteChatCheck
  <2> HIDE DEF q
  <2> QED
    BY <1>2, <2>1, <2>2, <2>3
<1>13. ASSUME NEW r \in Requests, NEW u \in Users, NEW c \in ChatIds, MarkLoad(r, u, c)
       PROVE  RequestsEntitled'
  <2> DEFINE q == Begin("mark", "latest", u, c, {}, None, 0, lastRead[<<c, u>>])
  <2>1. req' = [req EXCEPT ![r] = q] /\ chats' = chats
    BY <1>13 DEF MarkLoad, db
  <2>2. q.op = "mark"
    BY DEF Begin
  <2> HIDE DEF q
  <2> QED
    BY <1>2, <2>1, <2>2
<1>14. ASSUME NEW r \in Requests, NEW u \in Users, NEW m \in MessageIds,
              EditCheck(r, u, m) \/ DeleteCheck(r, u, m)
       PROVE  RequestsEntitled'
  BY <1>11, <1>14 DEF EditCheck, DeleteCheck
<1> QED
  BY <1>1, <1>3, <1>4, <1>5, <1>6, <1>7, <1>8, <1>9, <1>10, <1>12, <1>13, <1>14
  DEF Next

LEMMA StepInChats ==
    IndInv /\ RequestsEntitled /\ [Next]_vars => [Chats!ChatsNext]_(Chats!chatVars)
<1> SUFFICES ASSUME IndInv, RequestsEntitled, [Next]_vars
             PROVE  Chats!ChatsNext \/ NothingSeen
  BY DEF Chats!chatVars, NothingSeen, Talks, Said, Wishes
<1>1. CASE UNCHANGED vars
  BY <1>1 DEF vars, NothingSeen, Talks, Said, Wishes, Wish
<1>2. ASSUME NEW r \in Requests, UNCHANGED db, issued' = issued,
             NEW q, req' = [req EXCEPT ![r] = q], WishOf(q) = WishOf(req[r])
      PROVE  NothingSeen
  <2>1. Wishes' = [Wishes EXCEPT ![r] = WishOf(req[r])]
    BY <1>2, WishMoves DEF IndInv
  <2>2. Wishes[r] = WishOf(req[r])
    BY DEF Wishes, Wish, WishOf
  <2>3. Wishes' = Wishes
    BY <2>1, <2>2 DEF Wishes
  <2> QED
    BY <1>2, <2>3, SameView DEF NothingSeen
<1>3. ASSUME NEW r \in Requests, Reread(r) \/ AnswerError(r) PROVE NothingSeen
  <2>1. req[r].step \notin {"latest", "write"} /\ UNCHANGED db /\ issued' = issued
    BY <1>3 DEF Reread, AnswerError
  <2>2. CASE Answer(r)
    <3>1. req' = [req EXCEPT ![r] = Idle] /\ Idle.step = "idle"
      BY <2>2 DEF Answer, Idle
    <3> QED
      BY <1>2, <2>1, <3>1 DEF WishOf
  <2>3. CASE Goto(r, "failed")
    <3>1. req[r] \in RequestState
      BY DEF IndInv, TypeOK
    <3>2. [req[r] EXCEPT !.step = "failed"].step = "failed"
      BY <3>1 DEF RequestState
    <3> QED
      BY <1>2, <2>1, <2>3, <3>2 DEF Goto, WishOf
  <2> QED
    BY <1>3, <2>2, <2>3 DEF Reread, AnswerError
<1>4. ASSUME NEW r \in Requests, MarkLatest(r) PROVE NothingSeen
  <2>1. PICK t : Choose(r, t)
    BY <1>4 DEF MarkLatest
  <2> DEFINE q == [req[r] EXCEPT !.step = "write", !.at = t,
                                 !.shown = VisibleMessages(req[r].chat)]
  <2>2. req[r] \in RequestState
    BY DEF IndInv, TypeOK
  <2>3. q.step = "write" /\ q.op = req[r].op /\ q.user = req[r].user
    BY <2>2 DEF RequestState
  <2>4. req[r].op = "mark" /\ req[r].step = "latest" /\ UNCHANGED db /\ issued' = issued
    BY <1>4 DEF MarkLatest, At
  <2>5. req' = [req EXCEPT ![r] = q]
    BY <2>1 DEF Choose
  <2> HIDE DEF q
  <2>6. WishOf(q) = WishOf(req[r])
    BY <2>3, <2>4 DEF WishOf
  <2> QED
    BY <1>2, <2>4, <2>5, <2>6
<1>5. ASSUME NEW r \in Requests, NothingToDo(r) PROVE NothingSeen
  BY <1>1, <1>5 DEF NothingToDo, vars, NothingSeen, Talks, Said, Wishes, Wish
<1>6. ASSUME NEW r \in Requests, CreateCommit(r) \/ DeleteChatCommit(r)
      PROVE  Chats!ChatsNext
  BY <1>6, CreateOpens, DeleteCloses DEF RequestsEntitled
<1>7. ASSUME NEW r \in Requests,
             SendCommit(r) \/ EditCommit(r) \/ DeleteCommit(r) \/ MarkCommit(r)
      PROVE  Chats!ChatsNext
  BY <1>7, SendSays, ChangeShows, MarkReads
<1> QED
  BY <1>1, <1>3, <1>4, <1>5, <1>6, <1>7, CreateAsks, SendAsks, OthersAsk DEF Next

(***************************************************************************)
(* However requests overlap between their checks and their commits, to the *)
(* users every handler of service.py that writes is one step, taken while  *)
(* its user had the right to it, or no step at all.                        *)
(***************************************************************************)
THEOREM ChatsRefinement == Spec => ImplementsChats
<1>1. Init => Chats!ChatsInit
  <2> SUFFICES ASSUME Init PROVE Chats!ChatsInit
    OBVIOUS
  <2>1. \A r \in Requests : Wish(r) = None
    BY DEF Init, Wish, Idle
  <2> QED
    BY <2>1 DEF Init, Chats!ChatsInit
<1>2. Init => RequestsEntitled
  BY DEF Init, RequestsEntitled, Entitled, At, Idle
<1>3. Spec => []RequestsEntitled
  BY <1>2, StepEntitled, Invariance, PTL DEF Spec
<1> QED
  BY <1>1, <1>3, StepInChats, Invariance, PTL DEF Spec, ImplementsChats, Chats!ChatsSpec
=============================================================================
