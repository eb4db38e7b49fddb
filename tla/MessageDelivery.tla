--------------------------- MODULE MessageDelivery ---------------------------
(***************************************************************************)
(* What a chat request does after its commit: the broadcast_* functions of *)
(* src/chat/ws_router.py, called by src/chat/router.py, over the registry  *)
(* of ConnectionManager, whose sockets come and go meanwhile.              *)
(*                                                                         *)
(* Of the tables only what the events depend on is kept: a chat exists or  *)
(* not, and each commit to it makes a new version of what its members see. *)
(* ChatStore has the rest.  A request sends a message ("send"), changes    *)
(* something (update_message, delete_message, mark_chat_as_read: "change") *)
(* or deletes the chat ("remove").  Each request of the model is one HTTP  *)
(* request.  The payload of chat.list.updated is read by several selects   *)
(* in a row; here they are one.                                            *)
(***************************************************************************)
EXTENDS ConnectionManager, Naturals

CONSTANTS
    Members,    \* the two participants of each chat
    NoUser

ASSUME DeliveryConstants ==
    /\ Members \in [Chats -> SUBSET Users]
    /\ NoUser \notin Users

VARIABLES
    version,    \* of each chat that exists
    devices,    \* the users with an active push token
    req,        \* the local state of each request
    shown       \* the newest version of each chat that each event socket has been
                \* sent in a chat.list.updated, 0 before the first

delivery == <<version, devices, req, shown>>
deliveryVars == <<vars, delivery>>

\* A request at its beginning or at its end.
Nothing(step) == [step |-> step, op |-> "none", user |-> NoUser, chat |-> NoKey, at |-> 0,
                  audience |-> {}, told |-> {}, left |-> {}, who |-> NoUser, seen |-> 0]

\* user_has_chat_access, and the check that every request begins with.
HasAccess(u, c) == c \in DOMAIN version /\ u \in Members[c]

Goto(r, step) == req' = [req EXCEPT ![r].step = step]

\* step is "done" or "failed".
Answer(r, step) == req' = [req EXCEPT ![r] = Nothing(step)]

DeliveryInit ==
    /\ Init
    /\ version = [c \in Chats |-> 1]
    /\ devices \in SUBSET Users
    /\ req = [r \in Requests |-> Nothing("idle")]
    /\ shown = [s \in EventSockets |-> [c \in Chats |-> 0]]

(* The service call: its check and its commit. *)

\* The checks of src/chat/service.py passed.  Who made the request matters later
\* for the author of a message only.
Begin(r, op, u, c) ==
    /\ req[r].step = "idle"
    /\ HasAccess(u, c)
    /\ req' = [req EXCEPT ![r].step = "commit", ![r].op = op, ![r].chat = c,
                          ![r].user = IF op = "send" THEN u ELSE NoUser]
    /\ UNCHANGED <<vars, version, devices, shown>>

\* The request goes on to announce what it has committed at version n.  The
\* field audience is there for the properties: who is connected at this moment.
\* So is told: the sockets that are sent the event.
Announce(r, n, step) ==
    req' = [req EXCEPT ![r].step = step, ![r].at = n, ![r].audience = Connected]

Commit(r) ==
    LET c == req[r].chat IN
    /\ req[r].step = "commit"
    /\ req[r].op # "remove"
    /\ c \in DOMAIN version
    /\ version' = [version EXCEPT ![c] = @ + 1]
    /\ Announce(r, version[c] + 1, "reread")
    /\ UNCHANGED <<vars, devices, shown>>

\* A message sent or edited is read again, with 500 if it is gone with its chat by
\* then.  A deletion and a marker are not.
Reread(r) ==
    /\ req[r].step = "reread"
    /\ \/ /\ req[r].op = "change" \/ req[r].chat \in DOMAIN version
          /\ Goto(r, "cast")
       \/ /\ req[r].chat \notin DOMAIN version
          /\ Answer(r, "failed")
    /\ UNCHANGED <<vars, version, devices, shown>>

\* Faulty variant: a change that is none is not announced to the chat.
CommitNothingQuietly(r) ==
    /\ req[r].step = "commit"
    /\ req[r].op = "change"
    /\ req' = [req EXCEPT ![r].step = "lookup", ![r].audience = Connected]
    /\ UNCHANGED <<vars, version, devices, shown>>

\* The message was deleted already, or the marker is where it should be: there
\* is nothing to commit, also when the chat is gone, and an event all the same.
CommitNothing(r) ==
    /\ req[r].step = "commit"
    /\ req[r].op = "change"
    /\ Announce(r, 0, "cast")
    /\ UNCHANGED <<vars, version, devices, shown>>

\* The chat is gone since the check: 404 or 500.
CommitFails(r) ==
    /\ req[r].step = "commit"
    /\ req[r].op # "remove"
    /\ req[r].chat \notin DOMAIN version
    /\ Answer(r, "failed")
    /\ UNCHANGED <<vars, version, devices, shown>>

\* delete_chat has read the participants before; deleting twice is no error.
CommitRemoval(r) ==
    LET c == req[r].chat IN
    /\ req[r].step = "commit"
    /\ req[r].op = "remove"
    /\ version' = Restrict(version, DOMAIN version \ {c})
    /\ req' = [req EXCEPT ![r].step = "cast", ![r].audience = Connected,
                          ![r].left = Members[c]]
    /\ UNCHANGED <<vars, devices, shown>>

(* The broadcasts. *)

\* To the chat's sockets.
StartRoomCast(r) ==
    /\ req[r].step = "cast"
    /\ StartCast(r, req[r].chat)
    /\ Goto(r, "casting")
    /\ UNCHANGED <<version, devices, shown>>

\* To the event sockets of the participant whose turn it is.
StartUserCast(r) ==
    /\ req[r].step = "update"
    /\ StartCast(r, req[r].who)
    /\ Goto(r, "updating")
    /\ UNCHANGED <<version, devices, shown>>

\* message.created and the like to the chat, chat.list.updated to the users, or
\* chat.deleted to both.
Deliver(r, s) ==
    /\ Send(r, s)
    /\ \/ /\ peer[s] = "gone"
          /\ UNCHANGED <<req, shown>>
       \/ /\ peer[s] = "up"
          /\ req[r].step = "casting" \/ req[r].op = "remove"
          /\ req' = [req EXCEPT ![r].told = @ \cup {s}]
          /\ UNCHANGED shown
       \/ /\ peer[s] = "up"
          /\ req[r].step = "updating"
          /\ req[r].op # "remove"
          /\ shown' = [shown EXCEPT ![s][req[r].chat] =
                          IF req[r].seen > @ THEN req[r].seen ELSE @]
          /\ UNCHANGED req
    /\ UNCHANGED <<version, devices>>

\* After a user's sockets comes the next participant, after the chat's the list
\* of participants, which a removal has already.
AfterCast(r) ==
    IF req[r].step = "updating"
    THEN req' = [req EXCEPT ![r].step = "next", ![r].left = @ \ {req[r].who},
                            ![r].who = NoUser, ![r].seen = 0]
    ELSE Goto(r, IF req[r].op = "remove" THEN "next" ELSE "lookup")

EndCast(r) ==
    /\ Finish(r)
    /\ AfterCast(r)
    /\ UNCHANGED <<version, devices, shown>>

(* The loop over the participants. *)

\* get_chat_participant_ids: empty when the chat is gone.
ReadParticipants(r) ==
    LET c == req[r].chat IN
    /\ req[r].step = "lookup"
    /\ req' = [req EXCEPT ![r].step = "next",
                          ![r].left = IF c \in DOMAIN version THEN Members[c] ELSE {}]
    /\ UNCHANGED <<vars, version, devices, shown>>

\* The recipient of a new message, as opposed to its sender.
Recipient(r, p) == req[r].op = "send" /\ p # req[r].user

\* Faulty variants: who follows their event stream counts as present as well; the
\* sender is left out of the whole loop; the loop variable is never set.
NextUserOnline(r, p) ==
    /\ req[r].step = "next"
    /\ p \in req[r].left
    /\ req' = [req EXCEPT
                 ![r].who = p,
                 ![r].step = IF req[r].op = "remove" THEN "update"
                             ELSE IF Recipient(r, p) /\ Lookup(p) = {}
                                     /\ ~IsUserActiveInChat(p, req[r].chat) THEN "tokens"
                             ELSE "payload"]
    /\ UNCHANGED <<vars, version, devices, shown>>

NextUserOther(r, p) ==
    /\ req[r].step = "next"
    /\ p \in req[r].left
    /\ req' = IF p = req[r].user THEN [req EXCEPT ![r].left = @ \ {p}]
              ELSE [req EXCEPT ![r].who = p, ![r].step = "payload"]
    /\ UNCHANGED <<vars, version, devices, shown>>

NextUserUnset(r, p) ==
    /\ req[r].step = "next"
    /\ p \in req[r].left
    /\ Goto(r, "payload")
    /\ UNCHANGED <<vars, version, devices, shown>>

\* The recipient of a message is pushed it if no socket of theirs is in the chat.
NextUser(r, p) ==
    /\ req[r].step = "next"
    /\ p \in req[r].left
    /\ req' = [req EXCEPT
                 ![r].who = p,
                 ![r].step = IF req[r].op = "remove" THEN "update"
                             ELSE IF Recipient(r, p)
                                     /\ ~IsUserActiveInChat(p, req[r].chat) THEN "tokens"
                             ELSE "payload"]
    /\ UNCHANGED <<vars, version, devices, shown>>

\* send_to_tokens calls Firebase, which blocks the event loop, and returns the
\* tokens that Firebase says are invalid.  Without credentials it returns none;
\* when the call raises, so does the request.
SendToTokens(tokens) == {{}} \cup {tokens}

\* get_active_tokens, one token standing for all that a user has.
Push(r) ==
    LET tokens == devices \cap {req[r].who} IN
    /\ req[r].step = "tokens"
    /\ \/ \E invalid \in SendToTokens(tokens) :
              Goto(r, IF invalid = {} THEN "payload" ELSE "invalidate")
       \/ tokens # {} /\ Answer(r, "failed")
    /\ UNCHANGED <<vars, version, devices, shown>>

\* invalidate_token: the user may have other tokens; a row deleted in the
\* meantime makes the request fail.
Invalidate(r) ==
    /\ req[r].step = "invalidate"
    /\ \/ Goto(r, "payload") /\ devices' \in {devices, devices \ {req[r].who}}
       \/ Answer(r, "failed") /\ UNCHANGED devices
    /\ UNCHANGED <<vars, version, shown>>

\* get_chat_list_update_payload, which answers 404 when the chat is gone.
ReadPayload(r) ==
    LET c == req[r].chat IN
    /\ req[r].step = "payload"
    /\ IF c \in DOMAIN version
       THEN req' = [req EXCEPT ![r].step = "update", ![r].seen = version[c]]
       ELSE Answer(r, "failed")
    /\ UNCHANGED <<vars, version, devices, shown>>

AnswerOk(r) ==
    /\ req[r].step = "next"
    /\ req[r].left = {}
    /\ Answer(r, "done")
    /\ UNCHANGED <<vars, version, devices, shown>>

(* The sockets. *)

\* A socket of a chat is accepted if the user has access to it.
AcceptMember(s) ==
    /\ s \in ChatSockets => HasAccess(Owner[s], Room[s])
    /\ Accept(s)

SocketStep ==
    /\ \/ \E s \in Sockets :
             \/ Refuse(s) \/ AcceptMember(s) \/ Register(s) \/ Greet(s) \/ Drop(s)
             \/ Hangup(s) \/ BadFrame(s) \/ Typing(s) \/ Disconnect(s)
       \/ \E t \in Sockets : Finish(t) \/ \E s \in Sockets : Send(t, s)
    /\ UNCHANGED delivery

RequestStep(r) ==
    \/ \E op \in {"send", "change", "remove"}, u \in Users, c \in Chats :
          Begin(r, op, u, c)
    \/ Commit(r) \/ Reread(r) \/ CommitNothing(r) \/ CommitFails(r) \/ CommitRemoval(r)
    \/ StartRoomCast(r) \/ StartUserCast(r) \/ EndCast(r)
    \/ \E s \in Sockets : Deliver(r, s)
    \/ ReadParticipants(r) \/ Push(r) \/ Invalidate(r) \/ ReadPayload(r) \/ AnswerOk(r)
    \/ \E p \in Users : NextUser(r, p)

DeliveryNext == SocketStep \/ \E r \in Requests : RequestStep(r)

DeliverySpec == DeliveryInit /\ [][DeliveryNext]_deliveryVars

-----------------------------------------------------------------------------
(* Properties. *)

RequestStates ==
    [step : {"idle", "commit", "reread", "cast", "casting", "lookup", "next", "tokens",
             "invalidate", "payload", "update", "updating", "done", "failed"},
     op : {"none", "send", "change", "remove"}, user : Users \cup {NoUser},
     chat : Chats \cup {NoKey}, at : Nat, audience : SUBSET Sockets,
     told : SUBSET Sockets, left : SUBSET Users, who : Users \cup {NoUser}, seen : Nat]

RequestsTyped ==
    /\ DOMAIN version \subseteq Chats /\ version \in [DOMAIN version -> Nat]
    /\ devices \subseteq Users
    /\ req \in [Requests -> RequestStates]
    /\ shown \in [EventSockets -> [Chats -> Nat]]

\* A request under way knows its chat, and in the loop over the participants whose
\* turn it is: no broadcast is addressed to nobody.
Addressed ==
    \A r \in Requests :
        /\ req[r].step \notin {"idle", "done", "failed"} => req[r].chat \in Chats
        /\ req[r].step \in {"tokens", "invalidate", "payload", "update", "updating"} =>
               req[r].who \in Users

\* A request and its task agree on whether a broadcast is running.
InStep ==
    \A r \in Requests :
        cast[r].phase = "sending" <=> req[r].step \in {"casting", "updating"}

\* The local variables of the requests, the events and the pushes have their
\* types, and what the requests do to the registry keeps its types.
DeliveryTypeOK == TypeOK /\ RequestsTyped /\ Addressed /\ InStep

\* Those in the audience of r whose connection is open still, and has been all along.
Stayed(r) == {s \in req[r].audience : peer[s] = "up"}

Heard(r, among) == \A s \in Stayed(r) : Room[s] = req[r].chat => s \in among

\* Whatever becomes of the rest of the request: once the broadcast to the chat
\* is through, every socket of the chat that was connected when the change was
\* committed, and is open still, has been sent it.
RoomHears ==
    \A r \in Requests :
        req[r].step \notin {"idle", "commit", "reread", "cast", "casting"} =>
            Heard(r, req[r].told)

\* Why it holds: nobody who was in the audience and has left can come back on the
\* same socket, and while the broadcast runs everyone still there has been sent
\* the event or is next in its list.
RoomInv ==
    /\ RoomHears
    /\ \A r \in Requests :
          /\ \A s \in req[r].audience : handler[s] \notin {"new", "accepted"}
          /\ req[r].step = "casting" => Heard(r, req[r].told \cup cast[r].todo)

\* The event sockets of both participants, those of the sender included.
Followers(r) == {s \in Stayed(r) \cap EventSockets : Owner[s] \in Members[req[r].chat]}

\* Socket s has been sent, of this chat, what r has committed or something newer:
\* the deletion itself, or an entry of the list.
CaughtUp(r, s) ==
    IF req[r].op = "remove"
    THEN s \in req[r].told
    ELSE shown[s][req[r].chat] > 0 /\ shown[s][req[r].chat] >= req[r].at

\* There is something to bring to the lists: a chat deleted, or still there.
Brings(r) == req[r].op = "remove" \/ req[r].chat \in DOMAIN version

\* A request that is answered has brought the list of chats up to date on every
\* event socket of both participants, the sender's own included: this chat's entry
\* shows what it has committed or something newer, or the chat's deletion has been
\* sent, however other requests to this chat and to others interleave.
ListCatchesUp ==
    [][\A r \in Requests :
          (req[r].step # "done" /\ req'[r].step = "done" /\ Brings(r)) =>
              \A s \in Followers(r) : CaughtUp(r, s)]_deliveryVars

\* A deletion has read its participants before it starts; what a change has to show
\* is there, and in the payload that it has read.
Prepared(r) ==
    IF req[r].op = "remove"
    THEN /\ req[r].step \notin {"reread", "lookup"}
         /\ req[r].step \in {"cast", "casting"} => req[r].left = Members[req[r].chat]
    ELSE /\ req[r].at <= version[req[r].chat]
         /\ req[r].step \in {"update", "updating"} =>
               req[r].seen > 0 /\ req[r].seen >= req[r].at

\* Why it holds: versions only grow, the payload is read after the commit, and
\* whoever is not left in the loop has had it on every socket.  While it is the
\* turn of one user, each of their sockets has had it or is next in the list.
ListInv ==
    /\ \A c \in DOMAIN version : version[c] > 0
    /\ \A r \in Requests :
          (req[r].step \notin {"idle", "commit", "done", "failed"} /\ Brings(r)) =>
              /\ Prepared(r)
              /\ req[r].step \in {"next", "tokens", "invalidate", "payload", "update",
                                  "updating"} =>
                    \A s \in Followers(r) : Owner[s] \in req[r].left \/ CaughtUp(r, s)
              /\ req[r].step = "updating" =>
                    \A s \in Followers(r) :
                        Owner[s] = req[r].who => s \in cast[r].todo \/ CaughtUp(r, s)

\* The presence check decides about p, the recipient of r.
Decides(r, p) ==
    req[r].step = "next" /\ req'[r].who = p /\ Recipient(r, p)
        /\ req'[r].step \in {"tokens", "payload"}

SocketsOf(p, c) == {s \in ChatSockets : Owner[s] = p /\ Room[s] = c}

\* A push goes to no one who has the chat open, and is left out only for someone
\* with a socket that is filed under the chat and was sent the message, has come
\* after the commit, or is gone without its end having been noticed.
RightlyDecided(r, p) ==
    IF req'[r].step = "tokens"
    THEN SocketsOf(p, req[r].chat) \cap Connected = {}
    ELSE \E s \in SocketsOf(p, req[r].chat) :
            /\ Registered(s)
            /\ \/ s \in req[r].told
               \/ s \notin req[r].audience
               \/ peer[s] = "gone"

\* Whenever the presence check decides about a push, it decides rightly.
PushUnlessPresent ==
    [][\A r \in Requests, p \in Users :
          Decides(r, p) => RightlyDecided(r, p)]_deliveryVars
=============================================================================
