-------------------------- MODULE ConnectionManager --------------------------
(***************************************************************************)
(* The in-memory WebSocket registry (src/chat/ws_manager.py) together with *)
(* the endpoint handlers that own a socket (src/chat/ws_router.py).        *)
(*                                                                         *)
(* Every coroutine of the one event loop is interleaved at its awaits.     *)
(* The manager's asyncio.Lock is held only over code without an await, so  *)
(* each locked section is one action here; what happens between two locked *)
(* sections - a send that takes long, a client that leaves, a socket that  *)
(* joins - is what the module explores.                                    *)
(*                                                                         *)
(* A WebSocket object lives through one connection.  Its user and, for     *)
(* /ws/chats/{chat_id}, its chat are fixed when it is opened; they are the *)
(* constants Owner and Room.  The two dictionaries of sockets, one keyed   *)
(* by user and one by chat, are the one function conns: user ids and chat  *)
(* ids are different, and every method uses one of the two.                *)
(***************************************************************************)
EXTENDS Functions

CONSTANTS
    Users, Chats,       \* the keys of the two registries
    Sockets,            \* WebSocket objects, one per connection ever opened
    Requests,           \* HTTP handlers that broadcast after their commit
    Events,             \* the room of a socket of /ws/events: no chat
    Owner,              \* the authenticated user of a socket
    Room,               \* the chat of a socket, or Events
    NoKey               \* the key of a task that is not broadcasting

ASSUME ConnectionConstants ==
    /\ Users \cap Chats = {}
    /\ Sockets \cap Requests = {}
    /\ Events \notin Chats
    /\ Owner \in [Sockets -> Users]
    /\ Room \in [Sockets -> Chats \cup {Events}]

VARIABLES
    conns,      \* _user_connections and _chat_connections, absent keys absent
    connUser,   \* _connection_users
    connChat,   \* _connection_chats
    handler,    \* how far the endpoint coroutine of each socket has come
    peer,       \* "up" until the transport of the socket knows it is closed
    cast        \* the send_to_user or broadcast_to_chat a task is inside of

registry == <<conns, connUser, connChat>>
vars == <<conns, connUser, connChat, handler, peer, cast>>

Keys == Users \cup Chats

\* A broadcast runs inside the HTTP handler, or, for typing events, inside the
\* endpoint coroutine of the socket that sent them.
Tasks == Requests \cup Sockets

EventSockets == {s \in Sockets : Room[s] = Events}
ChatSockets == Sockets \ EventSockets

\* The registry key a socket is filed under.
Key(s) == IF s \in EventSockets THEN Owner[s] ELSE Room[s]

-----------------------------------------------------------------------------
(* Dictionary operations. *)

Bind(f, x, v) == [y \in DOMAIN f \cup {x} |-> IF y = x THEN v ELSE f[y]]

Pop(f, S) == Restrict(f, DOMAIN f \ S)

\* dict.get(key, set())
Lookup(k) == IF k \in DOMAIN conns THEN conns[k] ELSE {}

Registered(s) == s \in Lookup(Key(s))

\* Discards the sockets S from the set of a key, and the key with the last one.
Discard(k, S) ==
    IF Lookup(k) \subseteq S THEN Pop(conns, {k})
                             ELSE [conns EXCEPT ![k] = @ \ S]

Idle == [phase |-> "idle", key |-> NoKey, todo |-> {}, sent |-> {}, stale |-> {}]

\* targets = list(self._..._connections.get(key, set())); the loop is at todo.  The
\* field sent records for the properties who has been sent the event.
Snapshot(k) == [phase |-> "sending", key |-> k, todo |-> Lookup(k),
                sent |-> {}, stale |-> {}]

-----------------------------------------------------------------------------
Init ==
    /\ conns = <<>> /\ connUser = <<>> /\ connChat = <<>>
    /\ handler = [s \in Sockets |-> "new"]
    /\ peer = [s \in Sockets |-> "up"]
    /\ cast = [t \in Tasks |-> Idle]

(* The life of a socket. *)

\* No valid token, no access to the chat, or a client gone before accept().
Refuse(s) ==
    /\ handler[s] = "new"
    /\ handler' = [handler EXCEPT ![s] = "done"]
    /\ peer' = [peer EXCEPT ![s] = "gone"]
    /\ UNCHANGED <<registry, cast>>

\* Authenticated, access granted, and websocket.accept() has returned.
Accept(s) ==
    /\ handler[s] = "new"
    /\ peer[s] = "up"
    /\ handler' = [handler EXCEPT ![s] = "accepted"]
    /\ UNCHANGED <<registry, peer, cast>>

\* Faulty variants used to test the properties: the set of the key replaced
\* instead of extended, and a room recorded for a socket that has none.
RegisterReplacing(s) ==
    /\ handler[s] = "accepted"
    /\ handler' = [handler EXCEPT ![s] = "greeting"]
    /\ conns' = Bind(conns, Key(s), {s})
    /\ connUser' = Bind(connUser, s, Owner[s])
    /\ connChat' = IF s \in ChatSockets THEN Bind(connChat, s, Room[s]) ELSE connChat
    /\ UNCHANGED <<peer, cast>>

RegisterAnyRoom(s) ==
    /\ handler[s] = "accepted"
    /\ handler' = [handler EXCEPT ![s] = "greeting"]
    /\ conns' = Bind(conns, Key(s), Lookup(Key(s)) \cup {s})
    /\ connUser' = Bind(connUser, s, Owner[s])
    /\ connChat' = Bind(connChat, s, Room[s])
    /\ UNCHANGED <<peer, cast>>

\* The locked half of connect_user and connect_chat.
Register(s) ==
    /\ handler[s] = "accepted"
    /\ handler' = [handler EXCEPT ![s] = "greeting"]
    /\ conns' = Bind(conns, Key(s), Lookup(Key(s)) \cup {s})
    /\ connUser' = Bind(connUser, s, Owner[s])
    /\ connChat' = IF s \in ChatSockets THEN Bind(connChat, s, Room[s]) ELSE connChat
    /\ UNCHANGED <<peer, cast>>

\* connection.ready is sent outside the try block: when the send raises, the
\* coroutine ends and no finally clause runs.
Greet(s) ==
    /\ handler[s] = "greeting"
    /\ handler' = [handler EXCEPT ![s] = IF peer[s] = "up" THEN "open" ELSE "crashed"]
    /\ UNCHANGED <<registry, peer, cast>>

\* The client leaves, or the server's transport finds it gone.
Drop(s) ==
    /\ handler[s] # "done"
    /\ peer[s] = "up"
    /\ peer' = [peer EXCEPT ![s] = "gone"]
    /\ UNCHANGED <<registry, handler, cast>>

HangupWithoutFinally(s) ==
    /\ handler[s] = "open"
    /\ peer[s] = "gone"
    /\ handler' = [handler EXCEPT ![s] = "crashed"]
    /\ UNCHANGED <<registry, peer, cast>>

\* The receive (or the reply to a bad payload) raises: control is in finally.
Hangup(s) ==
    /\ handler[s] = "open"
    /\ peer[s] = "gone"
    /\ handler' = [handler EXCEPT ![s] = "closing"]
    /\ UNCHANGED <<registry, peer, cast>>

\* A frame that is no text, or no JSON: an exception other than
\* WebSocketDisconnect leaves the loop while the client is still there.
BadFrame(s) ==
    /\ handler[s] = "open"
    /\ peer[s] = "up"
    /\ handler' = [handler EXCEPT ![s] = "closing"]
    /\ UNCHANGED <<registry, peer, cast>>

\* typing.start and typing.stop: the endpoint coroutine broadcasts and receives
\* nothing until it is through.
Typing(s) ==
    /\ handler[s] = "open"
    /\ s \in ChatSockets
    /\ handler' = [handler EXCEPT ![s] = "typing"]
    /\ cast' = [cast EXCEPT ![s] = Snapshot(Room[s])]
    /\ UNCHANGED <<registry, peer>>

\* disconnect_user and disconnect_chat, with their early return.  The server
\* closes what is left of the connection when the coroutine ends.
Disconnect(s) ==
    /\ handler[s] = "closing"
    /\ handler' = [handler EXCEPT ![s] = "done"]
    /\ peer' = [peer EXCEPT ![s] = "gone"]
    /\ \/ /\ Lookup(Key(s)) = {}
          /\ UNCHANGED registry
       \/ /\ Lookup(Key(s)) # {}
          /\ conns' = Discard(Key(s), {s})
          /\ connUser' = Pop(connUser, {s})
          /\ connChat' = IF s \in ChatSockets THEN Pop(connChat, {s}) ELSE connChat
    /\ UNCHANGED cast

(* A broadcast: snapshot under the lock, sends outside it, pruning under it. *)

StartCast(t, k) ==
    /\ cast[t].phase = "idle"
    /\ cast' = [cast EXCEPT ![t] = Snapshot(k)]
    /\ UNCHANGED <<registry, handler, peer>>

\* Faulty variants: the first failed send ends the loop; a send to a client
\* that is gone never returns.
SendAborting(t, s) ==
    /\ cast[t].phase = "sending"
    /\ s \in cast[t].todo
    /\ cast' = IF peer[s] = "up"
               THEN [cast EXCEPT ![t].todo = @ \ {s}, ![t].sent = @ \cup {s}]
               ELSE [cast EXCEPT ![t].todo = {}, ![t].stale = @ \cup {s}]
    /\ UNCHANGED <<registry, handler, peer>>

SendHanging(t, s) ==
    /\ cast[t].phase = "sending"
    /\ s \in cast[t].todo
    /\ peer[s] = "up"
    /\ cast' = [cast EXCEPT ![t].todo = @ \ {s}, ![t].sent = @ \cup {s}]
    /\ UNCHANGED <<registry, handler, peer>>

\* One websocket.send_json: it raises when the connection is known closed.
Send(t, s) ==
    /\ cast[t].phase = "sending"
    /\ s \in cast[t].todo
    /\ cast' = IF peer[s] = "up"
               THEN [cast EXCEPT ![t].todo = @ \ {s}, ![t].sent = @ \cup {s}]
               ELSE [cast EXCEPT ![t].todo = @ \ {s}, ![t].stale = @ \cup {s}]
    /\ UNCHANGED <<registry, handler, peer>>

\* The task leaves the broadcast; a socket's own coroutine receives again.
Return(t) ==
    /\ cast' = [cast EXCEPT ![t] = Idle]
    /\ handler' = IF t \in Sockets THEN [handler EXCEPT ![t] = "open"] ELSE handler
    /\ UNCHANGED peer

\* Faulty variants: the stale sockets are forgotten, or removed from the key's
\* set but not from the two reverse maps.
FinishWithoutPruning(t) ==
    /\ cast[t].phase = "sending"
    /\ cast[t].todo = {}
    /\ UNCHANGED registry
    /\ Return(t)

FinishHalfPruned(t) ==
    /\ cast[t].phase = "sending"
    /\ cast[t].todo = {}
    /\ conns' = IF Lookup(cast[t].key) = {} THEN conns
                                            ELSE Discard(cast[t].key, cast[t].stale)
    /\ UNCHANGED <<connUser, connChat>>
    /\ Return(t)

\* The tail of send_to_user and broadcast_to_chat.
Finish(t) ==
    LET stale == cast[t].stale  k == cast[t].key IN
    /\ cast[t].phase = "sending"
    /\ cast[t].todo = {}
    /\ \/ /\ stale = {} \/ Lookup(k) = {}
          /\ UNCHANGED registry
       \/ /\ stale # {} /\ Lookup(k) # {}
          /\ conns' = Discard(k, stale)
          /\ connUser' = Pop(connUser, stale)
          /\ connChat' = Pop(connChat, stale)
    /\ Return(t)

\* is_user_active_in_chat
IsUserActiveInChat(u, c) ==
    \E s \in Lookup(c) : s \in DOMAIN connUser /\ connUser[s] = u

-----------------------------------------------------------------------------
Next ==
    \/ \E s \in Sockets :
          \/ Refuse(s) \/ Accept(s) \/ Register(s) \/ Greet(s) \/ Drop(s)
          \/ Hangup(s) \/ BadFrame(s) \/ Typing(s) \/ Disconnect(s)
    \/ \E t \in Requests, k \in Keys : StartCast(t, k)
    \/ \E t \in Tasks, s \in Sockets : Send(t, s)
    \/ \E t \in Tasks : Finish(t)

Spec == Init /\ [][Next]_vars

\* The event loop resumes every coroutine that can go on, and a send ends: the
\* server's keepalive closes a connection whose client stopped reading.  The
\* receive of a closed connection is reached after the finitely many frames the
\* client sent before it left, hence the strong fairness of Hangup.  Nothing
\* obliges a client to connect, to type or to leave.
Fairness ==
    /\ \A s \in Sockets : /\ WF_vars(Register(s)) /\ WF_vars(Greet(s))
                          /\ SF_vars(Hangup(s)) /\ WF_vars(Disconnect(s))
    /\ \A t \in Tasks : /\ WF_vars(\E s \in Sockets : Send(t, s))
                        /\ WF_vars(Finish(t))

FairSpec == Spec /\ Fairness

-----------------------------------------------------------------------------
(* Properties. *)

HandlerStates == {"new", "accepted", "greeting", "open", "typing", "closing",
                  "crashed", "done"}

\* The registry maps known keys to known sockets, and every coroutine is at a
\* point of its code.
TypeOK ==
    /\ DOMAIN conns \subseteq Keys
    /\ conns \in [DOMAIN conns -> SUBSET Sockets]
    /\ DOMAIN connUser \subseteq Sockets
    /\ connUser \in [DOMAIN connUser -> Users]
    /\ DOMAIN connChat \subseteq Sockets
    /\ connChat \in [DOMAIN connChat -> Chats]
    /\ handler \in [Sockets -> HandlerStates]
    /\ peer \in [Sockets -> {"up", "gone"}]
    /\ cast \in [Tasks -> [phase : {"idle", "sending"}, key : Keys \cup {NoKey},
                           todo : SUBSET Sockets, sent : SUBSET Sockets,
                           stale : SUBSET Sockets]]

\* The three views of who is connected agree, whatever order handlers leave and
\* broadcasts prune in: a socket has a user exactly while it is in the set of its
\* key, a chat exactly while that key is a chat, and no empty set is kept (the
\* early return of disconnect_* and of pruning relies on all three).
RegistryConsistent ==
    /\ \A k \in DOMAIN conns :
          conns[k] # {} /\ \A s \in conns[k] : Key(s) = k
    /\ DOMAIN connUser = {s \in Sockets : Registered(s)}
    /\ DOMAIN connChat = {s \in ChatSockets : Registered(s)}
    /\ \A s \in DOMAIN connUser : connUser[s] = Owner[s]
    /\ \A s \in DOMAIN connChat : connChat[s] = Room[s]

Connected == {s \in Sockets :
                 peer[s] = "up" /\ handler[s] \in {"greeting", "open", "typing"}}

\* Pruning and other sockets' disconnects never unfile a connection that works:
\* from its registration until its transport is known to be closed every socket is
\* in the set of its key, also while its own coroutine is on its way out.
LiveSocketsRegistered ==
    \A s \in Sockets :
        (peer[s] = "up" /\ handler[s] \notin {"new", "accepted"}) => Registered(s)

\* is_user_active_in_chat, which decides whether a push is sent, says yes for
\* every user with a working socket in the chat, and for no user that has not at
\* least a socket there whose deregistration is still to come or was lost.
PresenceExact ==
    \A u \in Users, c \in Chats :
        LET here == {s \in ChatSockets : Owner[s] = u /\ Room[s] = c} IN
        /\ (here \cap Connected # {}) => IsUserActiveInChat(u, c)
        /\ IsUserActiveInChat(u, c) =>
              \E s \in here : handler[s] \in {"greeting", "open", "typing",
                                              "closing", "crashed"}

Finishes(t) == cast[t].phase = "sending" /\ cast'[t].phase = "idle"

\* A socket on which the broadcast failed is unfiled when the broadcast ends,
\* also when other broadcasts or the socket's own handler got there first.
DeadTargetsPruned ==
    [][\A t \in Tasks : Finishes(t) =>
          \A s \in cast[t].stale : ~Registered(s)']_vars

\* Every send_to_user and broadcast_to_chat comes to an end.
BroadcastsTerminate ==
    \A t \in Tasks : cast[t].phase = "sending" ~> cast[t].phase = "idle"

\* A client that leaves a served connection is eventually out of the registry,
\* even when it leaves while its own typing event is being broadcast.
HangupCleansUp ==
    \A s \in Sockets :
        (handler[s] \in {"open", "typing"} /\ peer[s] = "gone") ~> ~Registered(s)

(* The registry, seen by the clients, is that of LiveRooms. *)

\* A client whose connection is closed has left, whatever the registry says; one
\* that is there is inside from its registration on.
Place(s) == IF peer[s] = "gone" THEN "left"
            ELSE IF Registered(s) THEN "inside" ELSE "outside"

Rooms == INSTANCE LiveRooms
         WITH Home <- [s \in Sockets |-> Key(s)],
              place <- [s \in Sockets |-> Place(s)],
              busy <- {t \in Tasks : cast[t].phase = "sending"},
              owed <- [t \in Tasks |-> {s \in cast[t].todo : peer[s] = "up"}],
              heard <- [t \in Tasks |-> cast[t].sent]

\* Pruning, early returns, failed sends and handlers that end in any order make no
\* difference that a connected client could tell: it is not lost from its room, does
\* not come back to it, and gets each event announced there once, whoever else is
\* dead.
ImplementsRooms == Rooms!RoomSpec

-----------------------------------------------------------------------------
(* The inductive invariant behind the safety properties. *)

\* A broadcast holds sockets of its own key only, gives up only on sockets that
\* are gone, and one inside a socket's own coroutine keeps that coroutine busy.
BroadcastsSound ==
    \A t \in Tasks :
        /\ cast[t].phase = "sending" => cast[t].key \in Keys
        /\ cast[t].phase = "idle" => cast[t].todo = {} /\ cast[t].sent = {}
        /\ \A s \in cast[t].todo \cup cast[t].stale : Key(s) = cast[t].key
        /\ \A s \in cast[t].stale : peer[s] = "gone"
        /\ (t \in Sockets /\ cast[t].phase = "sending") => handler[t] = "typing"

\* Only a coroutine that has passed Register and has not passed Disconnect can
\* have its socket in the registry.
RegisteredHandlers ==
    \A s \in Sockets :
        Registered(s) =>
            handler[s] \in {"greeting", "open", "typing", "closing", "crashed"}

IndInv ==
    /\ TypeOK
    /\ RegistryConsistent
    /\ LiveSocketsRegistered
    /\ RegisteredHandlers
    /\ BroadcastsSound

-----------------------------------------------------------------------------
(* A statement of the tests that the code does not live up to. *)

\* What tests/test_websockets_broadcast.py says of a closed connection: once the
\* endpoint's coroutine has ended its socket is not registered.  Greet breaks it.
NoSocketOutlivesHandler ==
    \A s \in Sockets : handler[s] \in {"done", "crashed"} => ~Registered(s)
=============================================================================
