------------------------- MODULE MigratedStoreProofs -------------------------
(***************************************************************************)
(* The chat tables stay sound across the upgrade, for every set of         *)
(* requests and readers and every old database that the schema admits and  *)
(* the old application has filled as Trusted says: an upgrade that goes    *)
(* through establishes the inductive invariant of ChatStore, which         *)
(* ChatStoreProofs shows the requests to keep, and readers change nothing. *)
(* With it a reader finds the companion of every chat that has not been    *)
(* deleted.  That no two chats have the same users needs no trust.         *)
(***************************************************************************)
EXTENDS MigratedStore, ChatStoreProofs, FiniteSetTheorems

(***************************************************************************)
(* What IndInv asks of a database that no request is working on.           *)
(***************************************************************************)
AtRest ==
    /\ TypeOK
    /\ StoreInv
    /\ DOMAIN chats \subseteq issued /\ DOMAIN messages \subseteq issued
    /\ \A c \in DOMAIN chats : chats[c].created <= clock
    /\ \A m \in DOMAIN messages : messages[m].created <= clock
    /\ \A p \in DOMAIN lastRead : lastRead[p] <= clock
    /\ \A r \in Requests : req[r] = Idle

LEMMA RestIsSound == AtRest => IndInv
<1> SUFFICES ASSUME AtRest PROVE IndInv
  OBVIOUS
<1>1. \A r \in Requests : req[r] = Idle
  BY DEF AtRest
<1>2. IdsAndStamps
  BY <1>1 DEF AtRest, IdsAndStamps, Idle, TypeOK
<1>3. RequestsSound
  BY <1>1 DEF RequestsSound, CreateSound, SendSound, ChangeSound, MarkSound, At, Idle
<1> QED
  BY <1>2, <1>3 DEF AtRest, IndInv

LEMMA MigrationInitInv == Trusted /\ MigrationInit => MigrationInv
<1> SUFFICES ASSUME Trusted, MigrationInit PROVE MigrationInv
  OBVIOUS
<1>1. DOMAIN chats = {} /\ DOMAIN lastRead = {} /\ DOMAIN messages = {}
  BY DEF MigrationInit, BeforeUpgrade
<1>2. \A r \in Requests : req[r] = Idle
  BY DEF MigrationInit, BeforeUpgrade
<1>3. TypeOK
  BY <1>1, IdleTyped, MigrationConstants DEF MigrationInit, BeforeUpgrade, TypeOK
<1>4. StoreInv
  BY <1>1 DEF StoreInv, OneChatPerPair, TwoMarkersPerChat, MessagesHaveHome, FreshChatUnread
<1>5. AtRest
  BY <1>1, <1>2, <1>3, <1>4 DEF AtRest
<1>6. ReadersTypeOK
  BY DEF MigrationInit, BeforeUpgrade, ReadInit, ReadersTypeOK
<1>7. OldSound(old)
  BY MigrationConstants DEF MigrationInit, Trusted, OldSound
<1> QED
  BY <1>5, <1>6, <1>7, RestIsSound DEF MigrationInit, MigrationInv

-----------------------------------------------------------------------------
(* The upgrade. *)

(***************************************************************************)
(* The rows of the old database, for the steps below.                      *)
(***************************************************************************)
LEMMA OldRows ==
    ASSUME OldSound(old)
    PROVE  /\ \A c \in DOMAIN old.chats :
                 /\ c \in ChatIds
                 /\ old.chats[c].user1 \in Users /\ old.chats[c].user2 \in Users
                 /\ DirectKey(old.chats[c]) \in Pairs
                 /\ old.chats[c].created \in Nat /\ old.chats[c].created <= OldClock
           /\ \A m \in DOMAIN old.messages :
                 /\ m \in MessageIds
                 /\ old.messages[m].chat \in DOMAIN old.chats
                 /\ old.messages[m].user \in Users
                 /\ old.messages[m].user \in DirectKey(old.chats[old.messages[m].chat])
                 /\ old.messages[m].created \in Nat
                 /\ old.messages[m].created <= OldClock
                 /\ old.chats[old.messages[m].chat].created < old.messages[m].created
<1>1. ASSUME NEW c \in DOMAIN old.chats
      PROVE  /\ c \in ChatIds
             /\ old.chats[c].user1 \in Users /\ old.chats[c].user2 \in Users
             /\ old.chats[c].user1 # old.chats[c].user2
             /\ old.chats[c].created \in Nat /\ old.chats[c].created <= OldClock
  BY DEF OldSound, OldSchema, OldTrusted
<1>2. \A c \in DOMAIN old.chats : DirectKey(old.chats[c]) \in Pairs
  BY <1>1 DEF DirectKey, Pairs
<1>3. ASSUME NEW m \in DOMAIN old.messages
      PROVE  /\ m \in MessageIds
             /\ old.messages[m].chat \in DOMAIN old.chats
             /\ old.messages[m].user \in Users
             /\ old.messages[m].user \in DirectKey(old.chats[old.messages[m].chat])
             /\ old.messages[m].created \in Nat /\ old.messages[m].created <= OldClock
             /\ old.chats[old.messages[m].chat].created < old.messages[m].created
  BY DEF OldSound, OldSchema, OldTrusted, DirectKey
<1> QED
  BY <1>1, <1>2, <1>3

LEMMA UpgradeStep ==
    ASSUME MigrationInv, Upgrade PROVE MigrationInv'
<1>1. OldSound(old) /\ BeforeUpgrade
  BY DEF MigrationInv, Upgrade
<1>2. /\ \A c \in DOMAIN old.chats :
            /\ c \in ChatIds
            /\ DirectKey(old.chats[c]) \in Pairs
            /\ old.chats[c].created \in Nat /\ old.chats[c].created <= OldClock
      /\ \A m \in DOMAIN old.messages :
            /\ m \in MessageIds
            /\ old.messages[m].chat \in DOMAIN old.chats
            /\ old.messages[m].user \in Users
            /\ old.messages[m].user \in DirectKey(old.chats[old.messages[m].chat])
            /\ old.messages[m].created \in Nat
            /\ old.messages[m].created <= OldClock
            /\ old.chats[old.messages[m].chat].created < old.messages[m].created
  BY <1>1, OldRows
<1>3. /\ DOMAIN chats' = DOMAIN old.chats
      /\ chats' \in [DOMAIN chats' -> [pair : Pairs, created : Nat]]
      /\ \A c \in DOMAIN old.chats : /\ chats'[c].pair = DirectKey(old.chats[c])
                                     /\ chats'[c].created = old.chats[c].created
  <2>1. chats' = MigratedChats
    BY DEF Upgrade
  <2>2. \A c \in DOMAIN old.chats :
           [pair |-> DirectKey(old.chats[c]), created |-> old.chats[c].created]
              \in [pair : Pairs, created : Nat]
    BY <1>2
  <2> QED
    BY <2>1, <2>2 DEF MigratedChats
<1>4. /\ DOMAIN messages' = DOMAIN old.messages
      /\ messages' \in [DOMAIN messages' -> [chat : ChatIds, sender : Users, created : Nat,
                                             edited : BOOLEAN, deleted : BOOLEAN]]
      /\ \A m \in DOMAIN old.messages : /\ messages'[m].chat = old.messages[m].chat
                                        /\ messages'[m].sender = old.messages[m].user
                                        /\ messages'[m].created = old.messages[m].created
  <2>1. messages' = MigratedMessages
    BY DEF Upgrade
  <2>2. \A m \in DOMAIN old.messages :
           [chat |-> old.messages[m].chat, sender |-> old.messages[m].user,
            created |-> old.messages[m].created, edited |-> FALSE, deleted |-> FALSE]
              \in [chat : ChatIds, sender : Users, created : Nat,
                   edited : BOOLEAN, deleted : BOOLEAN]
    BY <1>2
  <2> QED
    BY <2>1, <2>2 DEF MigratedMessages
<1>5. \A p : p \in MarkerRows <=> /\ p \in ChatIds \X Users
                                  /\ p[1] \in DOMAIN old.chats
                                  /\ p[2] \in DirectKey(old.chats[p[1]])
  BY <1>2 DEF MarkerRows
<1>6. /\ DOMAIN lastRead' = MarkerRows
      /\ lastRead' \in [DOMAIN lastRead' -> Nat]
      /\ \A p \in MarkerRows : lastRead'[p] = old.chats[p[1]].created
  <2>1. lastRead' = [p \in MarkerRows |-> old.chats[p[1]].created]
    BY DEF Upgrade
  <2> QED
    BY <1>2, <1>5, <2>1
<1>7. /\ issued' = DOMAIN old.chats \cup DOMAIN old.messages
      /\ clock' = OldClock /\ OldClock \in Nat
      /\ req' = req /\ req \in [Requests -> RequestState]
      /\ \A r \in Requests : req'[r] = Idle
  BY <1>1, MigrationConstants DEF Upgrade, BeforeUpgrade, MigrationInv, IndInv, TypeOK
<1>8. TypeOK'
  <2>1. DOMAIN chats' \subseteq ChatIds /\ DOMAIN messages' \subseteq MessageIds
    BY <1>2, <1>3, <1>4
  <2>2. DOMAIN lastRead' \subseteq ChatIds \X Users
    BY <1>5, <1>6
  <2>3. issued' \subseteq ChatIds \cup MessageIds
    BY <1>2, <1>7
  <2> QED
    BY <1>3, <1>4, <1>6, <1>7, <2>1, <2>2, <2>3 DEF TypeOK
<1>9. OneChatPerPair'
  <2>1. \A c, e \in DOMAIN old.chats :
           DirectKey(old.chats[c]) = DirectKey(old.chats[e]) => c = e
    BY DEF Upgrade, KeysUnique
  <2> QED
    BY <1>3, <2>1 DEF OneChatPerPair
<1>10. TwoMarkersPerChat'
  <2>1. \A p \in (DOMAIN chats') \X Users :
           p[2] \in chats'[p[1]].pair <=> p[2] \in DirectKey(old.chats[p[1]])
    BY <1>3
  <2> QED
    BY <1>3, <1>6, <2>1 DEF TwoMarkersPerChat, MarkerRows
<1>11. MessagesHaveHome'
  BY <1>2, <1>3, <1>4 DEF MessagesHaveHome
<1>12. FreshChatUnread'
  <2>1. \A p \in DOMAIN lastRead' : chats'[p[1]].created <= lastRead'[p]
    BY <1>2, <1>3, <1>5, <1>6
  <2>2. \A m \in DOMAIN messages' : chats'[messages'[m].chat].created < messages'[m].created
    BY <1>2, <1>3, <1>4
  <2> QED
    BY <2>1, <2>2 DEF FreshChatUnread
<1>13. AtRest'
  <2>1. /\ DOMAIN chats' \subseteq issued' /\ DOMAIN messages' \subseteq issued'
        /\ \A c \in DOMAIN chats' : chats'[c].created <= clock'
        /\ \A m \in DOMAIN messages' : messages'[m].created <= clock'
    BY <1>2, <1>3, <1>4, <1>7
  <2>2. \A p \in DOMAIN lastRead' : lastRead'[p] <= clock'
    BY <1>2, <1>5, <1>6, <1>7
  <2>3. StoreInv'
    BY <1>9, <1>10, <1>11, <1>12 DEF StoreInv
  <2> QED
    BY <1>7, <1>8, <2>1, <2>2, <2>3 DEF AtRest
<1>14. IndInv'
  <2>1. AtRest' => IndInv'
    BY RestIsSound, PTL
  <2> QED
    BY <1>13, <2>1
<1>15. ReadersTypeOK' /\ OldSound(old)' /\ revision' = "head"
  BY <1>1 DEF Upgrade, ReadersTypeOK, OldSound, MigrationInv
<1> QED
  BY <1>14, <1>15 DEF MigrationInv

-----------------------------------------------------------------------------
(* The readers. *)

(***************************************************************************)
(* One reader changes its local state to q.                                *)
(***************************************************************************)
LEMMA ReaderMoves ==
    ASSUME ReadersTypeOK, NEW d \in Readers, NEW q, ReadGoto(d, q),
           q = ReadIdle \/ ItemTyped(q) \/ PagesTyped(q)
    PROVE  ReadersTypeOK'
<1>1. DOMAIN reading' = Readers
  BY DEF ReadGoto, ReadersTypeOK
<1>2. \A e \in Readers : reading'[e] = IF e = d THEN q ELSE reading[e]
  BY DEF ReadGoto, ReadersTypeOK
<1> QED
  BY <1>1, <1>2 DEF ReadersTypeOK

LEMMA NotFoundKeeps ==
    ASSUME ReadersTypeOK, NEW d \in Readers, NotFound(d) PROVE ReadersTypeOK'
BY ReaderMoves DEF NotFound

(***************************************************************************)
(* The local state of a reader, by its step.                               *)
(***************************************************************************)
LEMMA ItemSteps ==
    ASSUME ReadersTypeOK, NEW d \in Readers,
           reading[d].step \in {"companion", "last", "marker", "count", "built"}
    PROVE  ItemTyped(reading[d])
BY DEF ReadersTypeOK, ReadIdle, PagesTyped

LEMMA PageSteps ==
    ASSUME ReadersTypeOK, NEW d \in Readers,
           reading[d].step \in {"page", "pageMarker", "paged"}
    PROVE  PagesTyped(reading[d])
BY DEF ReadersTypeOK, ReadIdle, ItemTyped

LEMMA BeginItemStep ==
    ASSUME TypeOK, ReadersTypeOK, NEW d \in Readers, NEW op \in {"list", "details", "update"},
           NEW u \in Users, NEW cs \in SUBSET ChatIds,
           \A c \in cs : <<c, u>> \in DOMAIN lastRead,
           ReadGoto(d, Building(op, u, cs))
    PROVE  ReadersTypeOK'
<1> DEFINE q == Building(op, u, cs)
<1>1. DOMAIN q = ItemFields
  BY DEF Building, ItemFields
<1>2. /\ q.rows \in [DOMAIN q.rows -> Nat] /\ DOMAIN q.rows \subseteq ChatIds
  BY DEF Building, TypeOK
<1>3. /\ q.step = "companion" /\ q.op = op /\ q.user = u /\ q.chat = None
      /\ q.unread \in Nat /\ q.read \in BOOLEAN
  BY DEF Building
<1> HIDE DEF q
<1>4. ItemTyped(q)
  BY <1>1, <1>2, <1>3 DEF ItemTyped
<1> QED
  BY <1>4, ReaderMoves DEF q

LEMMA CompanionStep ==
    ASSUME ReadersTypeOK, NEW d \in Readers, ReadCompanion(d) PROVE ReadersTypeOK'
<1>1. ItemTyped(reading[d])
  BY ItemSteps DEF ReadCompanion
<1>2. PICK c \in DOMAIN reading[d].rows :
           \/ ReadGoto(d, [reading[d] EXCEPT !.step = "last", !.chat = c])
           \/ NotFound(d)
  BY DEF ReadCompanion
<1>3. ItemTyped([reading[d] EXCEPT !.step = "last", !.chat = c])
  BY <1>1 DEF ItemTyped, ItemFields
<1> QED
  BY <1>2, <1>3, NotFoundKeeps, ReaderMoves

LEMMA LastStep ==
    ASSUME ReadersTypeOK, NEW d \in Readers, ReadLast(d) PROVE ReadersTypeOK'
<1>1. ItemTyped(reading[d]) /\ reading[d].step = "last"
  BY ItemSteps DEF ReadLast
<1>2. PICK next \in {"count", "marker"} :
           \/ \E last : ReadGoto(d, [reading[d] EXCEPT !.step = next, !.last = last])
           \/ ReadGoto(d, [reading[d] EXCEPT !.step = next])
  BY DEF ReadLast
<1>3. ItemTyped([reading[d] EXCEPT !.step = next])
  BY <1>1 DEF ItemTyped, ItemFields
<1>4. \A last : ItemTyped([reading[d] EXCEPT !.step = next, !.last = last])
  BY <1>1 DEF ItemTyped, ItemFields
<1> QED
  BY <1>2, <1>3, <1>4, ReaderMoves

LEMMA MarkerStep ==
    ASSUME ReadersTypeOK, NEW d \in Readers, ReadMarker(d) PROVE ReadersTypeOK'
<1>1. ItemTyped(reading[d]) /\ reading[d].step = "marker"
  BY ItemSteps DEF ReadMarker
<1>2. CASE NotFound(d)
  BY <1>2, NotFoundKeeps
<1>3. CASE \E next \in {"count", "built"}, read \in BOOLEAN :
              ReadGoto(d, [reading[d] EXCEPT !.step = next, !.read = read])
  <2>1. PICK next \in {"count", "built"}, read \in BOOLEAN :
              ReadGoto(d, [reading[d] EXCEPT !.step = next, !.read = read])
    BY <1>3
  <2>2. ItemTyped([reading[d] EXCEPT !.step = next, !.read = read])
    BY <1>1 DEF ItemTyped, ItemFields
  <2> QED
    BY <2>1, <2>2, ReaderMoves
<1> QED
  BY <1>2, <1>3 DEF ReadMarker

(***************************************************************************)
(* The counts are numbers, because the table is finite.                    *)
(***************************************************************************)
LEMMA MessagesCounted ==
    ASSUME NEW S \in SUBSET MessageIds PROVE Cardinality(S) \in Nat
BY FS_Subset, FS_CardinalityType, ReaderConstants

LEMMA CountStep ==
    ASSUME TypeOK, ReadersTypeOK, NEW d \in Readers, CountUnread(d) PROVE ReadersTypeOK'
<1>1. ItemTyped(reading[d]) /\ reading[d].step = "count"
  BY ItemSteps DEF CountUnread
<1>2. PICK next \in {"marker", "built"}, n \in Nat :
           ReadGoto(d, [reading[d] EXCEPT !.step = next, !.unread = n])
  <2>1. Unread(reading[d].user, reading[d].chat, reading[d].rows[reading[d].chat])
           \subseteq MessageIds
    BY DEF Unread, VisibleMessages, TypeOK
  <2> QED
    BY <2>1, MessagesCounted DEF CountUnread, Counted
<1>3. ItemTyped([reading[d] EXCEPT !.step = next, !.unread = n])
  <2>1. reading[d].chat \in DOMAIN reading[d].rows
    BY <1>1 DEF ItemTyped
  <2> QED
    BY <1>1, <2>1 DEF ItemTyped, ItemFields
<1> QED
  BY <1>2, <1>3, ReaderMoves

LEMMA NextItemStep ==
    ASSUME ReadersTypeOK, NEW d \in Readers, NextItem(d) PROVE ReadersTypeOK'
<1> DEFINE q == reading[d]
           rest == DOMAIN q.rows \ {q.chat}
           next == [q EXCEPT !.step = "companion", !.rows = Restrict(@, rest),
                             !.before = Restrict(@, rest),
                             !.chat = None, !.last = None, !.unread = 0, !.read = FALSE]
<1>1. ItemTyped(q)
  BY ItemSteps DEF NextItem
<1>2. /\ DOMAIN Restrict(q.rows, rest) \subseteq ChatIds
      /\ Restrict(q.rows, rest) \in [DOMAIN Restrict(q.rows, rest) -> Nat]
  BY <1>1 DEF ItemTyped, Restrict
<1>3. ItemTyped(next)
  BY <1>1, <1>2 DEF ItemTyped, ItemFields
<1>4. ReadGoto(d, ReadIdle) \/ ReadGoto(d, next)
  BY DEF NextItem
<1> HIDE DEF next
<1> QED
  BY <1>3, <1>4, ReaderMoves

LEMMA PageStep ==
    ASSUME TypeOK, ReadersTypeOK, NEW d \in Readers,
           ReadPage(d) \/ ReadPageMarker(d) \/ EndPages(d)
    PROVE  ReadersTypeOK'
<1>1. CASE EndPages(d)
  BY <1>1, ReaderMoves DEF EndPages
<1>2. CASE ReadPage(d)
  <2>1. PagesTyped(reading[d])
    BY <1>2, PageSteps DEF ReadPage
  <2>2. CASE NotFound(d)
    BY <2>2, NotFoundKeeps
  <2>3. CASE \E p \in SUBSET MessageIds :
                ReadGoto(d, [reading[d] EXCEPT !.step = "pageMarker", !.page = p])
    <3>1. PICK p \in SUBSET MessageIds :
                ReadGoto(d, [reading[d] EXCEPT !.step = "pageMarker", !.page = p])
      BY <2>3
    <3>2. PagesTyped([reading[d] EXCEPT !.step = "pageMarker", !.page = p])
      BY <2>1 DEF PagesTyped, PageFields
    <3> QED
      BY <3>1, <3>2, ReaderMoves
  <2>4. VisibleMessages(reading[d].chat) \subseteq MessageIds
    BY DEF VisibleMessages, TypeOK
  <2> QED
    BY <1>2, <2>2, <2>3, <2>4 DEF ReadPage
<1>3. CASE ReadPageMarker(d)
  <2>1. PagesTyped(reading[d])
    BY <1>3, PageSteps DEF ReadPageMarker
  <2>2. CASE NotFound(d)
    BY <2>2, NotFoundKeeps
  <2>3. CASE \E s \in {"page", "paged"} :
                ReadGoto(d, [reading[d] EXCEPT !.step = s, !.offset = @ + reading[d].limit,
                                               !.page = {}, !.got = @ \cup reading[d].page])
    <3>1. PICK s \in {"page", "paged"} :
                ReadGoto(d, [reading[d] EXCEPT !.step = s, !.offset = @ + reading[d].limit,
                                               !.page = {}, !.got = @ \cup reading[d].page])
      BY <2>3
    <3>2. reading[d].offset + reading[d].limit \in Nat
      <4>1. reading[d].offset \in Nat /\ reading[d].limit \in Nat
        BY <2>1, ReaderConstants DEF PagesTyped
      <4> QED
        BY <4>1
    <3>3. PagesTyped([reading[d] EXCEPT !.step = s, !.offset = @ + reading[d].limit,
                                        !.page = {}, !.got = @ \cup reading[d].page])
      BY <2>1, <3>2 DEF PagesTyped, PageFields
    <3> QED
      BY <3>1, <3>3, ReaderMoves
  <2> QED
    BY <1>3, <2>2, <2>3 DEF ReadPageMarker
<1> QED
  BY <1>1, <1>2, <1>3

LEMMA BeginPagesStep ==
    ASSUME ReadersTypeOK, NEW d \in Readers, NEW u \in Users, NEW c \in ChatIds,
           NEW l \in Limits, BeginPages(d, u, c, l)
    PROVE  ReadersTypeOK'
<1> DEFINE q == [step |-> "page", user |-> u, chat |-> c, limit |-> l,
                 offset |-> 0, page |-> {}, got |-> {}, before |-> History(c)]
<1>1. PagesTyped(q)
  BY DEF PagesTyped, PageFields
<1>2. ReadGoto(d, q)
  BY DEF BeginPages
<1> HIDE DEF q
<1> QED
  BY <1>1, <1>2, ReaderMoves

LEMMA ReadStep ==
    ASSUME IndInv, ReadersTypeOK, ReadNext PROVE ReadersTypeOK'
<1>1. TypeOK
  BY DEF IndInv
<1>2. ASSUME NEW d \in Readers, NEW u \in Users, BeginList(d, u) PROVE ReadersTypeOK'
  <2> DEFINE cs == {c \in DOMAIN chats : IsParticipant(u, c)}
  <2>1. cs \in SUBSET ChatIds /\ \A c \in cs : <<c, u>> \in DOMAIN lastRead
    BY <1>1 DEF TypeOK, IsParticipant
  <2>2. ReadGoto(d, Building("list", u, cs))
    BY <1>2 DEF BeginList
  <2> HIDE DEF cs
  <2> QED
    BY <1>1, <2>1, <2>2, BeginItemStep
<1>3. ASSUME NEW d \in Readers, NEW op \in {"details", "update"}, NEW u \in Users,
             NEW c \in ChatIds, BeginItem(d, op, u, c)
      PROVE  ReadersTypeOK'
  BY <1>1, <1>3, BeginItemStep DEF BeginItem, IsParticipant
<1> QED
  BY <1>1, <1>2, <1>3, CompanionStep, LastStep, MarkerStep, CountStep, NextItemStep,
     BeginPagesStep, PageStep
  DEF ReadNext

-----------------------------------------------------------------------------
(* The theorems. *)

LEMMA MigrationStepInv == MigrationInv /\ [MigrationNext]_migrationVars => MigrationInv'
<1> SUFFICES ASSUME MigrationInv, [MigrationNext]_migrationVars PROVE MigrationInv'
  OBVIOUS
<1>1. [Next]_vars => IndInv'
  BY StepIndInv DEF MigrationInv
<1>2. UNCHANGED reading => ReadersTypeOK'
  BY DEF MigrationInv, ReadersTypeOK
<1>3. UNCHANGED old => OldSound(old)'
  BY DEF MigrationInv, OldSound
<1>4. CASE UNCHANGED migrationVars
  <2>1. UNCHANGED vars /\ UNCHANGED <<reading, old, revision>>
    BY <1>4 DEF migrationVars
  <2>2. BeforeUpgrade => BeforeUpgrade'
    BY <2>1 DEF vars, BeforeUpgrade, ReadInit
  <2> QED
    BY <1>1, <1>2, <1>3, <2>1, <2>2 DEF MigrationInv
<1>5. CASE Serve
  <2>1. [Next]_vars /\ revision' = "head" /\ UNCHANGED old
    BY <1>5 DEF Serve, ReadersNext
  <2>2. ReadersTypeOK'
    BY <1>2, <1>5, ReadStep DEF Serve, ReadersNext, MigrationInv
  <2> QED
    BY <1>1, <1>3, <2>1, <2>2 DEF MigrationInv
<1> QED
  BY <1>4, <1>5, UpgradeStep DEF MigrationNext, UpgradeRefused

(***************************************************************************)
(* The inductive invariant holds in every reachable state, if in every old *)
(* database nobody has a chat with himself, authors belong to their chat,  *)
(* messages are stamped after it, and nothing is stamped after the upgrade.*)
(***************************************************************************)
THEOREM MigrationInvariance == Trusted /\ MigrationSpec => []MigrationInv
BY MigrationInitInv, MigrationStepInv, PTL DEF MigrationSpec

(***************************************************************************)
(* From such a database the tables of chats, markers and messages satisfy  *)
(* StoreInv after every upgrade that goes through and every request since. *)
(***************************************************************************)
THEOREM UpgradeSound == Trusted /\ MigrationSpec => []StoreInv
<1>1. MigrationInv => StoreInv
  BY DEF MigrationInv, IndInv
<1> QED
  BY <1>1, MigrationInvariance, PTL

(***************************************************************************)
(* The local variables of the reading handlers have their types.           *)
(***************************************************************************)
THEOREM ReadersTyped == Trusted /\ MigrationSpec => []ReadersTypeOK
<1>1. MigrationInv => ReadersTypeOK
  BY DEF MigrationInv
<1> QED
  BY <1>1, MigrationInvariance, PTL

(***************************************************************************)
(* Whoever looks for the companion in a chat that exists finds one.        *)
(***************************************************************************)
LEMMA CompanionFound ==
    ASSUME IndInv, NEW c \in DOMAIN chats, NEW u PROVE Companions(u, c) # {}
<1>1. chats[c].pair \in Pairs
  BY DEF IndInv, TypeOK
<1>2. PICK v, w \in Users : v # w /\ chats[c].pair = {v, w}
  BY <1>1 DEF Pairs
<1>3. <<c, v>> \in DOMAIN lastRead /\ <<c, w>> \in DOMAIN lastRead
  BY <1>2 DEF IndInv, StoreInv, TwoMarkersPerChat
<1> QED
  BY <1>2, <1>3 DEF Companions

(***************************************************************************)
(* A reader that is told there is no companion has met a deletion.         *)
(***************************************************************************)
THEOREM NotFoundMeansDeleted == Trusted /\ MigrationSpec => NotFoundOnlyAfterDeletion
<1> DEFINE Met == \A d \in Readers :
              ListFails(d) => \E c \in DOMAIN reading[d].rows : c \notin DOMAIN chats
<1>1. ASSUME MigrationInv, [MigrationNext]_migrationVars PROVE Met
  <2> SUFFICES ASSUME NEW d \in Readers, ListFails(d)
               PROVE  \E c \in DOMAIN reading[d].rows : c \notin DOMAIN chats
    OBVIOUS
  <2>1. reading[d].step \in {"companion", "marker"} /\ reading'[d].step = "idle"
    BY DEF ListFails
  <2>2. ReadersTypeOK /\ IndInv
    BY <1>1 DEF MigrationInv
  <2>3. reading' # reading
    BY <2>1
  <2>4. ReadNext
    BY <1>1, <2>3 DEF MigrationNext, migrationVars, Upgrade, UpgradeRefused, Serve, ReadersNext
  <2>5. \A e \in Readers : \A q : ReadGoto(e, q) => e = d /\ q.step = "idle"
    BY <2>1, <2>2 DEF ReadGoto, ReadersTypeOK
  <2>6. ReadCompanion(d) \/ ReadMarker(d)
    BY <2>1, <2>4, <2>5
    DEF ReadNext, BeginList, BeginItem, ReadCompanion, ReadLast, ReadMarker, CountUnread,
        Counted, NextItem, NotFound, BeginPages, ReadPage, ReadPageMarker, EndPages
  <2>7. ItemTyped(reading[d])
    BY <2>1, <2>2, ItemSteps
  <2>8. CASE ReadCompanion(d)
    <3>1. ASSUME NEW c \in ChatIds
          PROVE  ~ReadGoto(d, [reading[d] EXCEPT !.step = "last", !.chat = c])
      <4>1. [reading[d] EXCEPT !.step = "last", !.chat = c].step = "last"
        BY <2>7 DEF ItemTyped, ItemFields
      <4> QED
        BY <2>5, <4>1
    <3>2. PICK c \in DOMAIN reading[d].rows : Companions(reading[d].user, c) = {}
      BY <2>7, <2>8, <3>1 DEF ReadCompanion, ItemTyped
    <3> QED
      BY <2>2, <3>2, CompanionFound
  <2>9. CASE ReadMarker(d)
    <3>1. ASSUME NEW next \in {"built", "count"}, NEW read
          PROVE  ~ReadGoto(d, [reading[d] EXCEPT !.step = next, !.read = read])
      <4>1. [reading[d] EXCEPT !.step = next, !.read = read].step = next
        BY <2>7 DEF ItemTyped, ItemFields
      <4> QED
        BY <2>5, <4>1
    <3>2. Companions(reading[d].user, reading[d].chat) = {}
      BY <2>9, <3>1 DEF ReadMarker
    <3>3. reading[d].chat \in DOMAIN reading[d].rows
      BY <2>7, <2>9 DEF ItemTyped, ReadMarker
    <3> QED
      BY <2>2, <3>2, <3>3, CompanionFound
  <2> QED
    BY <2>6, <2>8, <2>9
<1>2. Trusted /\ MigrationSpec => [][Met]_<<vars, reading>>
  BY <1>1, MigrationInvariance, PTL DEF MigrationSpec
<1> QED
  BY <1>2 DEF NotFoundOnlyAfterDeletion

(***************************************************************************)
(* Without Trusted: from any database of the old schema, also one that     *)
(* holds a chat with oneself or a stranger's message, no two chats ever    *)
(* have the same users.  The upgrade goes through only if uq_chats_        *)
(* direct_key can be created, and that constraint checks every commit.     *)
(***************************************************************************)
THEOREM PairsUniqueAfterUpgrade == MigrationSpec => []OneChatPerPair
<1>1. MigrationInit => OneChatPerPair
  BY DEF MigrationInit, BeforeUpgrade, OneChatPerPair
<1>2. OneChatPerPair /\ [MigrationNext]_migrationVars => OneChatPerPair'
  <2> SUFFICES ASSUME OneChatPerPair, [MigrationNext]_migrationVars PROVE OneChatPerPair'
    OBVIOUS
  <2>1. ASSUME chats' = chats PROVE OneChatPerPair'
    BY <2>1 DEF OneChatPerPair
  <2>2. CASE Upgrade
    BY <2>2 DEF Upgrade, KeysUnique, MigratedChats, OneChatPerPair
  <2>3. ASSUME NEW r \in Requests, CreateCommit(r) PROVE OneChatPerPair'
    BY <2>1, <2>3 DEF CreateCommit, Insert, PairTaken, OneChatPerPair
  <2>4. ASSUME NEW r \in Requests, DeleteChatCommit(r) PROVE OneChatPerPair'
    BY <2>4 DEF DeleteChatCommit, Restrict, OneChatPerPair
  <2>5. ASSUME NEW r \in Requests,
               \/ NothingToDo(r) \/ SendCommit(r) \/ Reread(r) \/ EditCommit(r)
               \/ DeleteCommit(r) \/ MarkLatest(r) \/ MarkCommit(r) \/ AnswerError(r)
        PROVE  chats' = chats
    BY <2>5 DEF NothingToDo, SendCommit, Reread, EditCommit, DeleteCommit, MarkLatest,
                MarkCommit, AnswerError, vars, db
  <2>6. ASSUME NEW r \in Requests, NEW u \in Users,
               \/ \E v \in Users, c \in ChatIds : CreateLookup(r, u, v, c)
               \/ \E c \in ChatIds, m \in MessageIds : SendCheck(r, u, c, m)
               \/ \E m \in MessageIds : EditCheck(r, u, m) \/ DeleteCheck(r, u, m)
               \/ \E c \in ChatIds : DeleteChatCheck(r, u, c) \/ MarkLoad(r, u, c)
        PROVE  chats' = chats
    BY <2>6 DEF CreateLookup, SendCheck, EditCheck, DeleteCheck, DeleteChatCheck, MarkLoad, db
  <2>7. CASE Next
    BY <2>1, <2>3, <2>4, <2>5, <2>6, <2>7 DEF Next
  <2>8. CASE Serve /\ ~Next
    BY <2>1, <2>8 DEF Serve, ReadersNext, vars
  <2>9. CASE UpgradeRefused \/ UNCHANGED migrationVars
    BY <2>1, <2>9 DEF UpgradeRefused, migrationVars, vars
  <2> QED
    BY <2>2, <2>7, <2>8, <2>9 DEF MigrationNext, Serve
<1> QED
  BY <1>1, <1>2, PTL DEF MigrationSpec
=============================================================================
