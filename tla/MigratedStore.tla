---------------------------- MODULE MigratedStore ----------------------------
(***************************************************************************)
(* The chat tables across an upgrade of the deployment: the migrations of  *)
(* src/alembic/versions after 443ec278cab1, which the entrypoint of the    *)
(* container runs before it starts the server, and then the requests of    *)
(* ReadChats on what they leave behind.                                    *)
(*                                                                         *)
(* The old schema keeps a chat's two users in an ordered pair of columns.  *)
(* The migrations give each chat a direct_key and each of its users a row  *)
(* with a read marker.  They run in one transaction, which PostgreSQL      *)
(* applies to the schema as well: all of them or none.                     *)
(***************************************************************************)
EXTENDS ReadChats

CONSTANTS
    OldDatabases,   \* what may be stored under the old schema
    OldClock        \* the time of the upgrade

\* What the old schema enforces: its columns, foreign keys and uq_chats_user1_user2.
OldSchema(d) ==
    /\ DOMAIN d.chats \subseteq ChatIds
    /\ d.chats \in [DOMAIN d.chats -> [user1 : Users, user2 : Users, created : Nat]]
    /\ \A c, e \in DOMAIN d.chats :
          (d.chats[c].user1 = d.chats[e].user1 /\ d.chats[c].user2 = d.chats[e].user2)
             => c = e
    /\ DOMAIN d.messages \subseteq MessageIds
    /\ d.messages \in [DOMAIN d.messages ->
                          [chat : DOMAIN d.chats, user : Users, created : Nat]]

\* What it leaves to the application that filled it: nobody has a chat with himself,
\* authors belong to their chat, and every message was written after the chat's
\* creation and before the upgrade.
OldTrusted(d) ==
    /\ \A c \in DOMAIN d.chats : /\ d.chats[c].user1 # d.chats[c].user2
                                 /\ d.chats[c].created <= OldClock
    /\ \A m \in DOMAIN d.messages :
          LET home == d.chats[d.messages[m].chat] IN
          /\ d.messages[m].user \in {home.user1, home.user2}
          /\ home.created < d.messages[m].created
          /\ d.messages[m].created <= OldClock

OldSound(d) == OldSchema(d) /\ OldTrusted(d)

ASSUME MigrationConstants ==
    /\ OldClock \in Nat
    /\ \A d \in OldDatabases : OldSchema(d)

\* The old application has kept to what the schema does not enforce.  No migration
\* checks it.
Trusted == \A d \in OldDatabases : OldTrusted(d)

VARIABLES
    old,        \* chats and messages under the old schema
    revision    \* of the database: alembic_version

migrationVars == <<vars, reading, old, revision>>

\* The two ids sorted: one key for both orders of the pair.
DirectKey(chat) == {chat.user1, chat.user2}

\* uq_chats_direct_key can be created.
KeysUnique ==
    \A c, d \in DOMAIN old.chats :
        DirectKey(old.chats[c]) = DirectKey(old.chats[d]) => c = d

\* Nothing has been served yet.
BeforeUpgrade ==
    /\ chats = <<>> /\ lastRead = <<>> /\ messages = <<>>
    /\ issued = {} /\ clock = OldClock
    /\ req = [r \in Requests |-> Idle]
    /\ ReadInit

MigrationInit ==
    /\ BeforeUpgrade
    /\ old \in OldDatabases
    /\ revision = "443ec278cab1"

MigratedChats == [c \in DOMAIN old.chats |->
                     [pair |-> DirectKey(old.chats[c]), created |-> old.chats[c].created]]

MigratedMessages == [m \in DOMAIN old.messages |->
                        [chat |-> old.messages[m].chat, sender |-> old.messages[m].user,
                         created |-> old.messages[m].created,
                         edited |-> FALSE, deleted |-> FALSE]]

\* A row for either user of each chat.
MarkerRows == {p \in (DOMAIN old.chats) \X Users : p[2] \in DirectKey(old.chats[p[1]])}

\* Faulty variant: the second INSERT into chat_participants left out.
UpgradeOneSided ==
    /\ revision = "443ec278cab1"
    /\ KeysUnique
    /\ chats' = MigratedChats
    /\ lastRead' = [p \in {q \in MarkerRows : q[2] = old.chats[q[1]].user1} |->
                       old.chats[p[1]].created]
    /\ messages' = MigratedMessages
    /\ issued' = DOMAIN old.chats \cup DOMAIN old.messages
    /\ revision' = "head"
    /\ UNCHANGED <<clock, req, reading, old>>

\* alembic upgrade head.  Each user of a chat gets a marker at the chat's creation,
\* so that all of its messages are unread again; none of them is edited or deleted.
Upgrade ==
    /\ revision = "443ec278cab1"
    /\ KeysUnique
    /\ chats' = MigratedChats
    /\ lastRead' = [p \in MarkerRows |-> old.chats[p[1]].created]
    /\ messages' = MigratedMessages
    /\ issued' = DOMAIN old.chats \cup DOMAIN old.messages
    /\ revision' = "head"
    /\ UNCHANGED <<clock, req, reading, old>>

\* The old schema admits a chat (a, b) beside a chat (b, a).  The constraint on
\* direct_key then fails, everything is rolled back, the entrypoint ends, and the
\* container is started anew, only to fail again.
UpgradeRefused ==
    /\ revision = "443ec278cab1"
    /\ ~KeysUnique
    /\ UNCHANGED migrationVars

\* The server runs on the migrated database only.
Serve ==
    /\ revision = "head"
    /\ ReadersNext
    /\ UNCHANGED <<old, revision>>

MigrationNext == Upgrade \/ UpgradeRefused \/ Serve

MigrationSpec == MigrationInit /\ [][MigrationNext]_migrationVars

-----------------------------------------------------------------------------
(* The inductive invariant behind the properties. *)

MigrationInv ==
    /\ IndInv
    /\ ReadersTypeOK
    /\ OldSound(old)
    /\ revision \in {"443ec278cab1", "head"}
    /\ revision # "head" => BeforeUpgrade
=============================================================================
