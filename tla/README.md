# depended-chat in TLA+

TLA+ modules, TLC runs and TLAPS proofs for the backend of depended-chat: a
FastAPI service with direct chats, WebSocket events, rotating refresh tokens and
a push fallback, over PostgreSQL. One uvicorn worker serves everything
(`docker/entrypoint.sh`), so all concurrency is that of coroutines on one event
loop and of transactions in the database. Paths below are relative to the
repository's root.

## The system

| part | code | state | operations |
|---|---|---|---|
| connection registry | `src/chat/ws_manager.py` | four dictionaries under one `asyncio.Lock` | connect, disconnect, presence check, send to a user, broadcast to a chat |
| WebSocket endpoints | `src/chat/ws_router.py`, `src/auth/ws_auth.py` | one coroutine per socket | authenticate, register, greet, receive, typing events, clean up |
| chat service | `src/chat/service.py`, `src/chat/models.py` | tables `chats`, `chat_participants`, `messages` | create chat, send, edit, delete message, delete chat, mark as read, lists and pages |
| chat endpoints | `src/chat/router.py` | none | the service call, then the broadcast |
| delivery and push | `src/chat/ws_router.py` 117-221, `src/notifications/` | none of its own | fan-out after the commit, push to users who are not in the chat |
| sessions | `src/auth/` | table `auth_refresh_tokens` | login, refresh with rotation, logout |
| push tokens | `src/devices/` | table `firebase_device_tokens` | upsert, delete, invalidate |
| users | `src/users/`, `src/auth/router.py` | table `users` | register, bio, avatar, last seen |
| access checks | `src/core/security/` | none | signature, claims, user lookup |
| migrations | `alembic/` | the schema and its revision | upgrade, before the server starts |
| wiring, deployment | `src/main.py`, `docker/` | none | |

An HTTP request runs with a session of its own. A chat request first commits
through the chat service, then calls a `broadcast_*` function, which goes to the
registry for the open sockets, reads the database again for the per-user
`chat.list.updated` event and, for a new message, asks the registry whether the
recipient has the chat open before it pushes through Firebase. A WebSocket
coroutine registers its socket, receives until the client leaves and deregisters
in its `finally` clause; typing events broadcast from within it.

What is hard about it:

* every `await` lets other coroutines run: sockets come and go between the
  snapshot of a broadcast, its sends and the pruning of dead sockets;
* handlers check, read and write in separate statements at READ COMMITTED, and
  SQLAlchemy writes back what changed against the values it loaded;
* an answer is put together from several selects, each of which sees a newer
  database;
* stamps are taken before the commit that makes them visible;
* answers get lost after a commit, and the process may die between two commits;
* nothing is retried and `IntegrityError` is handled nowhere.

What makes each part correct: the registry's four dictionaries agree and a live
socket is never lost from them; a dead socket costs nobody else an event; each
pair of users has one chat with two read markers; read markers cover what was
shown; deletion is final; a list's counters and last messages agree; a client that
pages gets everything; a refresh token is spent once, in one piece, and a login
never has two active tokens; requests about one account keep each other's columns;
a push token has one row and reaches one user; an upgrade leaves tables that the
handlers can rely on.

## The modules

| module | models | about |
|---|---|---|
| `ConnectionManager` | `ws_manager.py`, the endpoints of `ws_router.py` | registry, endpoint coroutines and broadcasts |
| `LiveRooms` | | what the registry promises to connected clients |
| `ConnectionManagerProofs` | | theorems about it and the refinement of `LiveRooms` |
| `ChatStore` | `chat/service.py`, `chat/models.py` | requests over the three tables |
| `DirectChats` | | what the chat service promises its users |
| `ChatStoreProofs` | | theorems about it and the refinement of `DirectChats` |
| `ReadChats` | the reading handlers of `chat/service.py` | lists, items and pages beside the requests of `ChatStore` |
| `MigratedStore` | `alembic/versions`, `alembic/env.py`, `docker/entrypoint.sh` | an upgrade, then `ReadChats` on what it leaves |
| `MigratedStoreProofs` | | theorems about the two, on top of `ChatStoreProofs` |
| `ReadChatsProofs` | | that an item's counter and last message agree, and that pages are complete |
| `MessageDelivery` | the `broadcast_*` functions of `chat/ws_router.py`, `chat/router.py`, `notifications/firebase_service.py` | what a request does after its commit, over `ConnectionManager` |
| `MessageDeliveryProofs` | | theorems about it and that it uses the registry as `ConnectionManager` allows |
| `LoginSessions` | | what refresh tokens promise: one thread per login |
| `RefreshTokens` | `auth/service.py`, `auth/router.py` | login, refresh, logout with crashes, lost answers, time |
| `RefreshTokensProofs` | | theorems about it and the refinement of `LoginSessions` |
| `UserAccounts` | `users/service.py`, `users/router.py`, `auth/router.py` | requests over the table of users |
| `UserAccountsProofs` | | theorems about it |
| `DeviceTokens` | `devices/service.py`, `devices/models.py` | requests over the table of push tokens |
| `DeviceTokensProofs` | | theorems about it |
| `MC*` | | the small instances |

### ConnectionManager

`conns` is `_user_connections` and `_chat_connections` together (user ids and chat
ids are disjoint), `connUser` and `connChat` are the two reverse maps. `handler`
is how far the endpoint coroutine of a socket has come, `peer` whether the
transport knows the connection to be closed, `cast` the `send_to_user` or
`broadcast_to_chat` that a task is inside of.

A section under the lock contains no `await`, so each is one action: `Register`,
`Disconnect`, `StartCast` (the snapshot), `Finish` (the pruning). The sends lie
outside the lock and are one action each; the loop's order over a list made from
a set is any order. A send raises exactly when the transport knows the
connection is closed. `connection.ready` (`Greet`) is sent outside the `try`: when
it raises, the coroutine ends without deregistering. Invalid payloads, unsupported
events and received texts without effect leave no trace. Requests may broadcast to
any key at any time, which includes all that `broadcast_*` does.

`LiveRooms` states the promise: a connection enters its room (that of its user or of
its chat) once and is inside until it is closed; an event announced in a room is owed
to those inside, each gets it once or leaves, and then the announcement is over. The
refinement (`Rooms`) takes a socket whose transport is closed to have left, whatever
the dictionaries say of it, and one that is registered and open to be inside; what a
broadcast owes is the open part of the list it took. Pruning, late deregistration and
sends that raise are stutters.

### ChatStore

The three tables are functions from ids to rows; `req` holds the local variables
of the requests under way. A request is a check (with the stamp, if it takes one),
for `mark_chat_as_read` the query for the latest message, the write with its
commit, and for send and edit the reads after the commit. A flush keeps its rows
locked until the commit, so the two are one step. Constraint violations, UPDATEs
that match no row and rows gone at the last read lead to `failed`, the 500. A
DELETE that matches no row is only a warning. An attribute that is set to the
value it was loaded with causes no UPDATE (`MarkCommit`).

Ids come from `uuid4` and are never drawn twice (`issued`). Time is a counter that
every `datetime.now()` advances. Texts, `edited_at`, `deleted_at` and `updated_at` are
left out: no guard depends on them. A request that is refused is `NothingToDo`, and
so is one that only reads: those are in `ReadChats`.

`DirectChats` states the promise: what a request wants happens at one moment or never,
for the user who asked; two users have one chat at a time, only they say things in it,
read and close it, only the author revises or withdraws a message, and what is withdrawn
stays so. Nothing in it is checked at one time and done at another. The refinement (`Chats`) lets a
request want something (`Wish`) from the end of its checks to its commit or failure. A row that
is both edited and deleted is a withdrawn message (`State`), so an edit that commits after
the deletion is a request given up; so are a deletion of what is gone, a
mark that changes nothing and every 500 before a commit. The reads after a commit are stutters.

### ReadChats

It extends `ChatStore` by `reading`, the local variables of the requests that only
read. `list_chats` selects the user's chats with their markers (`BeginList`) and then,
chat by chat, the companion, the last message, the companion's marker and the number
of unread messages; `get_chat_details` and the payload of `chat.list.updated` do the
same for one chat, the payload in another order. Each select is an action, since at
READ COMMITTED it sees what has been committed by then; the marker of the first
select is used by the last. `get_chat_messages` is a client that asks for page after
page by offset until one is not full; the participant is checked anew for each. A
participant or companion that is not found is the 404. OFFSET and LIMIT choose a set to
skip and a set to return, each in front of the rest by `created_at`: messages of one stamp
come in any order, anew for each select, as the query names no second key. The order of the list, by
`updated_at`, is left out. `before` records for the properties what a chat held when the
reader began.

### MigratedStore

`old` is a database under the schema of revision 443ec278cab1, in which a chat has an
ordered pair of users. `Upgrade` is the rest of the migrations, one transaction for the
schema and the rows: a `direct_key` for each chat, a marker at the chat's creation for
each of its users, messages neither edited nor deleted. `UpgradeRefused` is what happens
when the unique constraint on `direct_key` fails. After that `Serve` runs the requests of
`ReadChats`. `OldSchema` is what the old constraints admit, and all that is assumed of the
constants. `OldTrusted` is what no constraint enforces and the application that filled the old
database, which is not in the repository, is trusted with: nobody has a chat with
himself, authors belong to their chat, and they write after its creation and before the
upgrade. The run's databases have it, and so do all of them under `Trusted`, the hypothesis of every theorem
about the store and its readers after the upgrade but `PairsUniqueAfterUpgrade`.

### MessageDelivery

The composition: it extends `ConnectionManager`, whose sockets come and go, and
replaces its arbitrary broadcasts by requests that go through the endpoints of
`chat/router.py`. `req[r].step` is where the request is: its commit, the reading of the
message again, the broadcast to the chat (`cast`, `casting`), the list of participants
(`lookup`), and for each of them (`next`) the presence check, the push (`tokens`,
`invalidate`), the payload of `chat.list.updated` (`payload`) and the broadcast to the
user (`update`, `updating`). Between any two of these, and between two sends, other
requests and sockets run.

Of the tables it keeps whether a chat exists and a version number per chat that each
commit raises, `ChatStore` having the rest; a payload is the version it was read at.
Its selects are one step, and so are those of the access check and of the endpoints'
own check. `update_message`, `delete_message` and `mark_chat_as_read` are one
operation, "change": they differ only in whether the message is read again and
whether there may be nothing to commit. What a user registers as push tokens does
not change except through invalidation. A Firebase call blocks the event loop, may
raise, and may report tokens as invalid. `at`, `audience` and `told` of a request and the
variable `shown` record what happened, for the properties: the version it committed, who was
connected then, which sockets were sent its event (`chat.deleted` on event sockets included),
and the newest version of each chat that each event socket has been sent.

### UserAccounts

`accounts` is the table, `areq` the requests. Registration looks for the name and
inserts; the constraint decides. Every other request loads the row, changes the
object and commits, and the UPDATE names the columns whose value differs from the
loaded one (`Updated`), whatever the row holds by then. Login and the last seen endpoint
force the stamp, `whoami` stamps only when the loaded one is a throttle old. An upload is
read after the row is loaded, so its request may be the oldest of all. Two tests say
whether there is an avatar: `HasAvatar` for the profile, `AvatarFound` for the endpoint
that serves it.

Three things happen in this model that no property forbids, because neither code
nor documents say they should not: an upload that keeps the type it has loaded leaves its
bytes with the type of another one that overlaps it, a last seen time can move back,
and a registration that loses a race is answered with 500.

### DeviceTokens

A registration finds the row of its token, or the row of the user's device, or
none, and stores (`UpsertUpdate`, `UpsertInsert`) under the two unique constraints (`Clash`);
then the row is refreshed, and may be gone. A deletion and the invalidation of a
token that Firebase refused look up and store in the same two steps. Row ids are
uuids (`Fresh`). An invalidation that commits after its token has been registered again
still deactivates it; which of the two should win is written nowhere.

### RefreshTokens

A token stands for its `jti`, hash and JWT. `rotate_refresh` and
`revoke_refresh_by_raw` hold the row's lock from their select to their commit and
read the row under it, so each is one step; `ensure_refresh_valid` is an earlier
one, and other requests run between. `Crash` loses every request under way but
nothing committed; `LoseAnswer` loses an answer after its commit. `known` is what the
client has received and may present. The field `login` of a row is not in the
code, which keeps `rotated_from_id` only: it names the first token of the chain and
lets the properties speak of a login.

`LoginSessions` states the promise: a login has one token at a time, each renewal
replaces it while it is still good, a logout ends the thread for good. The
refinement maps a login to its active token and expiry.

## What is checked

| run | instance | shows |
|---|---|---|
| `registry` | two users, one chat, three sockets (one of events, two of the chat), one request | the four dictionaries agree (`RegistryConsistent`), live sockets stay (`LiveSocketsRegistered`), presence is right up to sockets whose deregistration is due (`PresenceExact`), a finished broadcast has unfiled the targets it found dead (`DeadTargetsPruned`), and the registry implements `LiveRooms` (`ImplementsRooms`) |
| `registry_live` | two chat sockets, one request, fair | broadcasts end, a served socket that is left gets deregistered |
| `registry_leak` | the same, not fair | refuted: a socket whose coroutine has ended is not registered |
| `store` | two users, two chat ids, two message ids, two requests, clock to 5 | uniqueness of chats and markers, no orphans, stamps in order, final deletion, marks that cover what they showed, and that every request is one step of `DirectChats` at its commit, by someone entitled to it there (`ImplementsChats`) |
| `store_markers` | the same | refuted: a read marker never moves back |
| `store_unread` | the same | refuted: a message is unread by the companion when it appears |
| `migrated` | three users, two chat ids, two message ids, one writing request, one reader, pages of one, four old databases | what the upgrade leaves satisfies `StoreInv` and keeps it, counters and last messages agree (`ItemCoherent`), pages lose nothing but to deletions and equal stamps (`PagesComplete`), and 404 is for deleted chats only (`NotFoundOnlyAfterDeletion`) |
| `delivery` | two users, two chats, an event socket of one user and their socket of one chat, one request to either chat | a committed change reaches every socket of the chat that stays (`RoomHears`), no push goes to someone present, and one is withheld only from someone with a socket that is registered in the chat and was told, came later or is dead (`PushUnlessPresent`) |
| `delivery_pair` | the same users and chats, the event socket, two requests, to one chat or to both | when a request is answered, every event socket of both users that stayed has been sent its chat's entry at its commit or a later one, or the chat's deletion (`ListCatchesUp`) |
| `tokens` | four tokens, two requests, lifetime 2, clock to 3 | tokens rotate once and whole, one active per login, the client knows stored tokens only, `LoginSessions` is implemented |
| `accounts` | one name, a bio, three uploads of two types and an empty one, throttle 2, clock to 3; two users, two push tokens, a device and an empty device name; two requests | overlapping requests keep each other's columns (`NoLostColumn`), advertised avatars are served (`AdvertisedAvatarServed`) and whole unless raced (`AvatarWholeUnlessRaced`), last seen stays fresh (`SeenKeptFresh`), rows of push tokens are unique (`PushRowsUnique`) and a registration brings its token the pushes of its user (`RegistrationReaches`) |
| `accounts_device` | the push tokens of the same, one request | refuted: registering a token succeeds |

`accounts` checks two modules in one run, which share nothing: a behaviour is one of
either while the other rests.

Why the bounds are enough. Registry: two sockets under one key and one under
another are what it takes for pruning to leave a set, to empty it, and to race a
disconnect and a typing broadcast of the socket itself. Store: every hazard is a
race of two requests; a chat can be deleted and created again under a second id,
and two messages can be committed in the order opposite to their stamps. The
clock bound only keeps requests that read it from beginning. Tokens: four tokens
are two logins with a renewal each or one login renewed three times; the clock
passes the end of a token's life. Accounts: rows do not interact, and every
hazard is a race of two requests about one row; two uploads of one type and one of
another are what it takes to tear an avatar; the throttle of two is passed before
the clock ends. Push tokens: two tokens of two users over one device and no device
meet every combination of the two constraints. Migration and readers: the old
databases are a chat with messages of both users, the same with one stamp for both, a
user with two chats, and a pair with a chat in either order, which is refused; pages of one message make every
shift of the offset matter. With one writing request no stamp is committed late while
a reader is under way; the commits come between the selects all the same, and
the late ones are exercised in `store`. Delivery: whether someone hears depends on the
sockets of their own key only, and the events of two requests can overtake each other
with one socket; with two chats an entry of one must not pass for an entry of the other, and
someone who follows the event stream, or has only the other chat open, must not pass for present; each HTTP request is made once, so the system stops when all are
answered and all sockets closed, and deadlock is not checked there; every other run
checks it. Sockets are never reused in the code, and uuids are not in practice.
Interchangeable ids are symmetric where only safety is checked.

Fairness (`registry_live` only). The event loop resumes every coroutine that can go
on: weak fairness of `Register`, `Greet`, `Disconnect`, of each broadcast's sends and
of `Finish`. That a send ends rests on uvicorn's keepalive, which closes a
connection whose client stopped reading. `Hangup` is strongly fair: a client may
have sent finitely many frames before it left, and each may start one more typing
broadcast before the receive reports the end. Nothing makes a client connect, type
or leave.

The refuted statements come from the repository's own tests and comments:

* `NoSocketOutlivesHandler`: `tests/test_websockets_broadcast.py:154` expects a closed
  connection to be out of the registry; a client that leaves before
  `connection.ready` is sent stays in it (`src/chat/ws_router.py:43` and `:74`).
* `MarkersNeverMoveBack`: `tests/test_chat.py:206` expects a message to stay read after
  the mark; `max()` is taken against a value loaded earlier (`src/chat/service.py:403`).
* `BornUnread`: `tests/test_chat.py:194` expects a message just sent to be unread; its
  stamp precedes its commit (`src/chat/service.py:313`).
* `RegistrationSucceeds`: `tests/test_push_fallback.py:15` expects a registration to be
  answered with 200; the second token with an empty `device_id` never is
  (`src/devices/service.py:33`), nor is a known token that moves to a device with a row
  (`:23`), even with no other request under way.

Three more disagreements of this kind show in the models without a run of their
own: two creations of one chat at once end in an `IntegrityError`
(`src/chat/service.py:198`), the last event sent may carry a payload read before another
request's commit (`src/chat/ws_router.py:154`), and a lost answer to a refresh ends the
client's session (`src/auth/service.py:121`).

## What is proved

All theorems hold for every value of the constants under the `ASSUME` of their
module: `ConnectionConstants` (ids are disjoint, every socket has an owner and a room),
`DeliveryConstants` (the members of a chat are users), `StoreConstants` (ids are disjoint, `None` is neither
a user, an id nor a wish, the bound is a number), `RefreshConstants` (times
are numbers, `None` is neither a token nor a session), `AccountConstants` (NULL is neither a
time nor an upload, times are numbers), `DeviceConstants` (NULL is not a device),
`ReaderConstants` (page sizes are positive, the messages that can ever be stored are
finitely many, `None` is not a last message), `MigrationConstants` (the old databases satisfy `OldSchema`).

* `ConnectionManagerProofs`: `Invariance`, hence every safety and action property of
  the run `registry`. The dictionaries' agreement is not inductive alone: pruning is
  sound because a broadcast holds sockets of its own key only and gives up on gone ones
  only (`BroadcastsSound`), and registration is sound because only a coroutine
  between `Register` and `Disconnect` has its socket filed (`RegisteredHandlers`).
  `RoomsRefinement`: `Spec => ImplementsRooms`, every step being a step of `LiveRooms` or a
  stutter. It needs that the list a broadcast takes is exactly the registered sockets
  of its key (`RegistryConsistent`), that the tail of a broadcast unfiles only closed ones
  (`FinishPrunes`), and that a coroutine that takes its socket out closes with it.
* `ChatStoreProofs`: `Invariance`, hence every invariant and action property of the
  run `store`. It strengthens the table constraints by what each request may rely on
  between its steps (`CreateSound`, `SendSound`, `ChangeSound`, `MarkSound`) and by
  freshness of ids and stamps (`IdsAndStamps`): uniqueness of uuids is what keeps a
  request's own row from appearing under another request's check. `ChatsRefinement`:
  `Spec => ImplementsChats`. That a check still stands at the commit, although
  others committed in between, rests on `SendSound` and `ChangeSound` and on one more invariant
  (`RequestsEntitled`): a chat keeps its pair while it exists and its id is never used
  again, so whoever was in it is in it or it is gone.
* `MessageDeliveryProofs`: `DeliveryInvariance` joins the registry's invariant to the
  requests' (`RequestsTyped`, `Addressed`, `InStep`). With `RoomInv` it gives the theorem
  `RoomAlwaysHears`: nobody returns on a socket that was closed,
  a connected socket is in the registry when the broadcast takes its list, and while
  it runs everyone still there has been told or is next. `PushesSound` adds that a
  recipient registered at the commit whose end nobody has noticed is on the list too,
  so that the presence check is wrong only about someone told, late or gone: the socket
  that excuses it is one filed under this chat, never one of another chat, of the event
  stream, or one not opened.
  `ListsCatchUp` has an invariant of its own, `ListInv`: versions grow, a payload is read
  after the commit it follows (`Prepared`), and at the turn of one user each of their sockets
  has had this chat's entry, or the deletion, or is on the list of the broadcast.
  `DeliveryKeepsRooms` carries the refinement of `LiveRooms` over to the composition, whose
  steps are steps of the registry or leave it alone (the lemma `Composition`).
* `RefreshTokensProofs`: `Invariance`, hence every invariant of the run `tokens`, and
  `Refinement`: `Spec => ImplementsSessions`. The chains of rotated tokens
  (`ChainsSound`) tie every token to the first of its login, which is what makes "one
  active token" inductive; the refinement then needs that `CHOOSE` over the active
  tokens of a login has one candidate.
* `UserAccountsProofs`: `AccountsInvariance`, hence every property of the accounts in the
  run `accounts`. What a request stores depends on a row it loaded long ago, so the
  invariant remembers how the wanted row may differ from the loaded one (`StoreSound`):
  in its own columns only, with an avatar of one upload, a time not before the loaded
  one and none in the future.
* `DeviceTokensProofs`: `DevicesInvariance`, hence every property of the push tokens. The
  lookups prove nothing, the constraints carry `PushRowsUnique`; the invariant adds that a
  refusal wants no other change than its own (`KeepingSound`).
* `MigratedStoreProofs`: `MigrationInvariance`. An upgrade that goes through establishes
  `IndInv` of `ChatStore` from `OldSchema`, `Trusted` and the uniqueness of keys, and
  `ChatStoreProofs` shows that it stays. `Trusted` is a hypothesis because no migration
  checks what it says. `PairsUniqueAfterUpgrade` does without it: whatever the old database
  holds, an upgrade goes through only if no two chats get the same users, and the
  constraint keeps it so. From the invariant `UpgradeSound`, and `NotFoundMeansDeleted`: a chat that exists
  has two markers, so someone other than the reader has one.
* `ReadChatsProofs`: `ItemsCoherent`. The selects of an item see different states, and
  `ItemsInv` says what each result is worth later: ids are drawn once, messages stay in
  their chat and no deletion is taken back (`RowsSound`), so a chat that looks at the end
  as it did at the first select has been the same in between, and what was read of it
  (`LastSound`, `CountSound`) still holds. `PagesAreComplete`, by `PagesInv`: without
  deletions a message has ever more before it (`PositionGrows`), whatever stamps are
  committed late, so one that was there at the start is in the pages read so far or
  lies at the offset of the next one or behind it (`PagesSound`), and a page that is not
  full leaves nothing behind it (`PageOrBehind`). With a chat's stamps distinct
  `Position` is an order; without that the statement is false, as TLC shows on the old
  database with one stamp for two messages: `ORDER BY created_at`
  (`src/chat/service.py:284`) lets them change places between two pages, and one is shown
  twice and the other not at all.

Each step lemma takes one action and proves the invariant's parts that it can
disturb. Every property of the passing runs is proved but the two of liveness
(`BroadcastsTerminate`, `HangupCleansUp`), which are out of the prover's reach and
model-checked only.

## What is not modelled, and the plan

1. `updated_at` and the order of the list: the stamp is that of the request that
   commits last, not the latest.
2. Chats of a user with himself, which the old schema admits and the new handlers
   cannot show, and downgrades. Whether such chats exist is not in the repository.
3. The sockets of a chat that has been deleted: they stay open and may type, and what
   they should do is written nowhere.

Left out for good: password hashing and JWT cryptography (a token the code did not
make is refused), request schemas, logging, configuration, nginx, and the
deadlocks PostgreSQL resolves inside a flush by failing one transaction.
