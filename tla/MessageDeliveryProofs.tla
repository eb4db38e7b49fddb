----------------------- MODULE MessageDeliveryProofs -----------------------
(***************************************************************************)
(* Theorems of MessageDelivery for every set of users, chats, sockets and  *)
(* requests: a committed change reaches every socket of the chat that      *)
(* stays connected, a push is left out only for someone with a socket of   *)
(* the chat in the registry, and the lists of both participants catch up   *)
(* with every request that is answered.                                    *)
(***************************************************************************)
EXTENDS MessageDelivery, ConnectionManagerProofs

LocalInv == RequestsTyped /\ Addressed

-----------------------------------------------------------------------------
(***************************************************************************)
(* The local state of the requests.                                        *)
(***************************************************************************)
LEMMA InitLocal == DeliveryInit => LocalInv
BY DEF DeliveryInit, LocalInv, RequestsTyped, Addressed, Nothing, RequestStates

LEMMA NothingTyped ==
    ASSUME NEW step \in {"idle", "done", "failed"}
    PROVE  Nothing(step) \in RequestStates /\ Nothing(step).step = step
BY DEF Nothing, RequestStates

\* What a request has to do for the invariant when the rest stays.
LEMMA RequestMoves ==
    ASSUME LocalInv, NEW r \in Requests, NEW q \in RequestStates,
           req' = [req EXCEPT ![r] = q],
           q.step \notin {"idle", "done", "failed"} => q.chat \in Chats,
           q.step \in {"tokens", "invalidate", "payload", "update", "updating"} =>
               q.who \in Users,
           DOMAIN version' \subseteq Chats, version' \in [DOMAIN version' -> Nat],
           devices' \subseteq Users, shown' = shown
    PROVE  LocalInv'
<1>1. RequestsTyped'
  BY DEF LocalInv, RequestsTyped
<1>2. Addressed'
  <2> SUFFICES ASSUME NEW p \in Requests
               PROVE  /\ req'[p].step \notin {"idle", "done", "failed"} =>
                             req'[p].chat \in Chats
                      /\ req'[p].step \in
                            {"tokens", "invalidate", "payload", "update", "updating"} =>
                             req'[p].who \in Users
    BY DEF Addressed
  <2>1. req'[p] = IF p = r THEN q ELSE req[p]
    BY DEF LocalInv, RequestsTyped
  <2> QED
    BY <2>1 DEF LocalInv, Addressed
<1> QED
  BY <1>1, <1>2 DEF LocalInv

LEMMA AnswerMoves ==
    ASSUME LocalInv, NEW r \in Requests, NEW step \in {"done", "failed"},
           Answer(r, step), version' = version, devices' \subseteq Users, shown' = shown
    PROVE  LocalInv'
<1>1. req' = [req EXCEPT ![r] = Nothing(step)]
  BY DEF Answer
<1>2. DOMAIN version' \subseteq Chats /\ version' \in [DOMAIN version' -> Nat]
  BY DEF LocalInv, RequestsTyped
<1> QED
  BY <1>1, <1>2, NothingTyped, RequestMoves

LEMMA GotoMoves ==
    ASSUME LocalInv, NEW r \in Requests,
           NEW step \in {"cast", "casting", "lookup", "next", "invalidate", "payload",
                         "update", "updating"},
           req[r].step \notin {"idle", "done", "failed"},
           step \in {"invalidate", "payload", "update", "updating"} =>
               req[r].who \in Users,
           Goto(r, step), version' = version, devices' \subseteq Users, shown' = shown
    PROVE  LocalInv'
<1> DEFINE q == [req[r] EXCEPT !.step = step]
<1>1. q \in RequestStates /\ q.step = step /\ q.chat = req[r].chat /\ q.who = req[r].who
  BY DEF LocalInv, RequestsTyped, RequestStates
<1>2. req' = [req EXCEPT ![r] = q]
  BY DEF Goto, LocalInv, RequestsTyped
<1>3. DOMAIN version' \subseteq Chats /\ version' \in [DOMAIN version' -> Nat]
  BY DEF LocalInv, RequestsTyped
<1>4. req[r].chat \in Chats
  BY DEF LocalInv, Addressed
<1> HIDE DEF q
<1> QED
  BY <1>1, <1>2, <1>3, <1>4, RequestMoves

\* Begin, the commits and the second reading.
LEMMA CommitSteps ==
    ASSUME LocalInv, NEW r \in Requests,
           \/ \E op \in {"send", "change", "remove"}, u \in Users, c \in Chats :
                 Begin(r, op, u, c)
           \/ Commit(r) \/ CommitNothing(r) \/ CommitRemoval(r)
    PROVE  LocalInv'
<1>1. ASSUME NEW op \in {"send", "change", "remove"}, NEW u \in Users, NEW c \in Chats,
             Begin(r, op, u, c)
      PROVE  LocalInv'
  <2> DEFINE q == [req[r] EXCEPT !.step = "commit", !.op = op, !.chat = c,
                                 !.user = IF op = "send" THEN u ELSE NoUser]
  <2>1. q \in RequestStates /\ q.step = "commit" /\ q.chat = c
    BY DEF LocalInv, RequestsTyped, RequestStates
  <2>2. req' = [req EXCEPT ![r] = q]
    BY <1>1 DEF Begin, LocalInv, RequestsTyped
  <2>3. /\ DOMAIN version' \subseteq Chats /\ version' \in [DOMAIN version' -> Nat]
        /\ devices' \subseteq Users /\ shown' = shown
    BY <1>1 DEF Begin, LocalInv, RequestsTyped
  <2> HIDE DEF q
  <2> QED
    BY <2>1, <2>2, <2>3, RequestMoves
<1>2. ASSUME NEW n \in Nat, NEW step \in {"cast", "reread"}, Announce(r, n, step),
             req[r].step = "commit",
             DOMAIN version' \subseteq Chats, version' \in [DOMAIN version' -> Nat],
             devices' = devices, shown' = shown
      PROVE  LocalInv'
  <2> DEFINE q == [req[r] EXCEPT !.step = step, !.at = n, !.audience = Connected]
  <2>1. q \in RequestStates /\ q.step = step /\ q.chat = req[r].chat
    BY DEF LocalInv, RequestsTyped, RequestStates, Connected
  <2>2. req' = [req EXCEPT ![r] = q]
    BY <1>2 DEF Announce, LocalInv, RequestsTyped
  <2>3. req[r].chat \in Chats /\ devices' \subseteq Users
    BY <1>2 DEF LocalInv, Addressed, RequestsTyped
  <2> HIDE DEF q
  <2> QED
    BY <1>2, <2>1, <2>2, <2>3, RequestMoves
<1>3. CASE Commit(r)
  <2>1. /\ version[req[r].chat] + 1 \in Nat
        /\ DOMAIN version' \subseteq Chats /\ version' \in [DOMAIN version' -> Nat]
    BY <1>3 DEF Commit, LocalInv, RequestsTyped
  <2> QED
    BY <1>2, <1>3, <2>1 DEF Commit
<1>4. CASE CommitNothing(r)
  BY <1>2, <1>4 DEF CommitNothing, LocalInv, RequestsTyped
<1>5. CASE CommitRemoval(r)
  <2> DEFINE q == [req[r] EXCEPT !.step = "cast", !.audience = Connected,
                                 !.left = Members[req[r].chat]]
  <2>1. req[r].chat \in Chats
    BY <1>5 DEF CommitRemoval, LocalInv, Addressed
  <2>2. q \in RequestStates /\ q.step = "cast" /\ q.chat = req[r].chat
    <3>1. Members[req[r].chat] \in SUBSET Users /\ Connected \in SUBSET Sockets
      BY <2>1, DeliveryConstants DEF Connected
    <3>2. req[r] \in RequestStates
      BY DEF LocalInv, RequestsTyped
    <3> QED
      BY <3>1, <3>2 DEF RequestStates
  <2>3. req' = [req EXCEPT ![r] = q]
    BY <1>5 DEF CommitRemoval, LocalInv, RequestsTyped
  <2>4. /\ DOMAIN version' \subseteq Chats /\ version' \in [DOMAIN version' -> Nat]
        /\ devices' \subseteq Users /\ shown' = shown
    BY <1>5 DEF CommitRemoval, LocalInv, RequestsTyped, Restrict
  <2> HIDE DEF q
  <2> QED
    BY <2>1, <2>2, <2>3, <2>4, RequestMoves
<1> QED
  BY <1>1, <1>3, <1>4, <1>5

\* The answers, and the steps that change no more than where the request is.
LEMMA ControlSteps ==
    ASSUME LocalInv, NEW r \in Requests,
           \/ CommitFails(r) \/ Reread(r) \/ AnswerOk(r) \/ Push(r) \/ Invalidate(r)
           \/ StartRoomCast(r) \/ StartUserCast(r)
    PROVE  LocalInv'
<1>1. devices \subseteq Users
  BY DEF LocalInv, RequestsTyped
<1>2. req[r].step \in {"tokens", "invalidate", "payload", "update", "updating"} =>
         req[r].who \in Users
  BY DEF LocalInv, Addressed
<1>3. CASE CommitFails(r) \/ AnswerOk(r)
  BY <1>1, <1>3, AnswerMoves DEF CommitFails, AnswerOk
<1>4. CASE Reread(r)
  BY <1>1, <1>4, AnswerMoves, GotoMoves DEF Reread
<1>5. CASE Push(r)
  <2>1. CASE Answer(r, "failed")
    BY <1>1, <1>5, <2>1, AnswerMoves DEF Push
  <2>2. CASE \E step \in {"payload", "invalidate"} : Goto(r, step)
    BY <1>1, <1>2, <1>5, <2>2, GotoMoves DEF Push
  <2> QED
    BY <1>5, <2>1, <2>2 DEF Push
<1>6. CASE Invalidate(r)
  <2>1. devices' \subseteq Users /\ version' = version /\ shown' = shown
    BY <1>1, <1>6 DEF Invalidate
  <2> QED
    BY <1>2, <1>6, <2>1, AnswerMoves, GotoMoves DEF Invalidate
<1>7. CASE StartRoomCast(r) \/ StartUserCast(r)
  BY <1>1, <1>2, <1>7, GotoMoves DEF StartRoomCast, StartUserCast
<1> QED
  BY <1>3, <1>4, <1>5, <1>6, <1>7

\* The loop over the participants.
LEMMA LoopSteps ==
    ASSUME LocalInv, NEW r \in Requests,
           \/ ReadParticipants(r) \/ ReadPayload(r)
           \/ \E p \in Users : NextUser(r, p)
    PROVE  LocalInv'
<1>1. /\ DOMAIN version \subseteq Chats /\ version \in [DOMAIN version -> Nat]
      /\ devices \subseteq Users
  BY DEF LocalInv, RequestsTyped
<1>2. CASE ReadParticipants(r)
  <2> DEFINE q == [req[r] EXCEPT !.step = "next",
                      !.left = IF req[r].chat \in DOMAIN version
                               THEN Members[req[r].chat] ELSE {}]
  <2>1. q \in RequestStates /\ q.step = "next" /\ q.chat = req[r].chat
    <3>1. (IF req[r].chat \in DOMAIN version THEN Members[req[r].chat] ELSE {})
              \in SUBSET Users
      BY <1>1, DeliveryConstants
    <3>2. req[r] \in RequestStates
      BY DEF LocalInv, RequestsTyped
    <3> QED
      BY <3>1, <3>2 DEF RequestStates
  <2>2. req' = [req EXCEPT ![r] = q]
    BY <1>2 DEF ReadParticipants, LocalInv, RequestsTyped
  <2>3. req[r].chat \in Chats
    BY <1>2 DEF ReadParticipants, LocalInv, Addressed
  <2>4. version' = version /\ devices' = devices /\ shown' = shown
    BY <1>2 DEF ReadParticipants
  <2> HIDE DEF q
  <2> QED
    BY <1>1, <2>1, <2>2, <2>3, <2>4, RequestMoves
<1>3. CASE ReadPayload(r)
  <2>1. CASE req[r].chat \notin DOMAIN version
    BY <1>1, <1>3, <2>1, AnswerMoves DEF ReadPayload
  <2>2. CASE req[r].chat \in DOMAIN version
    <3> DEFINE q == [req[r] EXCEPT !.step = "update", !.seen = version[req[r].chat]]
    <3>1. q \in RequestStates /\ q.step = "update" /\ q.chat = req[r].chat
          /\ q.who = req[r].who
      BY <1>1, <2>2 DEF LocalInv, RequestsTyped, RequestStates
    <3>2. req' = [req EXCEPT ![r] = q]
      BY <1>3, <2>2 DEF ReadPayload, LocalInv, RequestsTyped
    <3>3. req[r].chat \in Chats /\ req[r].who \in Users
      BY <1>3 DEF ReadPayload, LocalInv, Addressed
    <3>4. version' = version /\ devices' = devices /\ shown' = shown
      BY <1>3 DEF ReadPayload
    <3> HIDE DEF q
    <3> QED
      BY <1>1, <3>1, <3>2, <3>3, <3>4, RequestMoves
  <2> QED
    BY <2>1, <2>2
<1>4. ASSUME NEW p \in Users, NextUser(r, p) PROVE LocalInv'
  <2>1. PICK step \in {"update", "tokens", "payload"} :
           req' = [req EXCEPT ![r].who = p, ![r].step = step]
    BY <1>4 DEF NextUser
  <2> DEFINE q == [req[r] EXCEPT !.who = p, !.step = step]
  <2>2. q \in RequestStates /\ q.step = step /\ q.chat = req[r].chat /\ q.who = p
    BY DEF LocalInv, RequestsTyped, RequestStates
  <2>3. req' = [req EXCEPT ![r] = q]
    BY <2>1 DEF LocalInv, RequestsTyped
  <2>4. req[r].chat \in Chats
    BY <1>4 DEF NextUser, LocalInv, Addressed
  <2>5. version' = version /\ devices' = devices /\ shown' = shown
    BY <1>4 DEF NextUser
  <2> HIDE DEF q
  <2> QED
    BY <1>1, <2>2, <2>3, <2>4, <2>5, RequestMoves
<1> QED
  BY <1>2, <1>3, <1>4

\* The end of a broadcast.
LEMMA EndStep ==
    ASSUME LocalInv, NEW r \in Requests, EndCast(r),
           req[r].step \in {"casting", "updating"}
    PROVE  LocalInv'
<1>1. version' = version /\ devices' = devices /\ shown' = shown /\ devices \subseteq Users
  BY DEF EndCast, LocalInv, RequestsTyped
<1>2. CASE req[r].step = "updating"
  <2> DEFINE q == [req[r] EXCEPT !.step = "next", !.left = @ \ {req[r].who},
                                 !.who = NoUser, !.seen = 0]
  <2>1. q \in RequestStates /\ q.step = "next" /\ q.chat = req[r].chat
    BY DEF LocalInv, RequestsTyped, RequestStates
  <2>2. req' = [req EXCEPT ![r] = q]
    BY <1>2 DEF EndCast, AfterCast, LocalInv, RequestsTyped
  <2>3. req[r].chat \in Chats
    BY <1>2 DEF LocalInv, Addressed
  <2>4. DOMAIN version' \subseteq Chats /\ version' \in [DOMAIN version' -> Nat]
    BY <1>1 DEF LocalInv, RequestsTyped
  <2> HIDE DEF q
  <2> QED
    BY <1>1, <2>1, <2>2, <2>3, <2>4, RequestMoves
<1>3. CASE req[r].step = "casting"
  <2>1. PICK step \in {"next", "lookup"} : Goto(r, step)
    BY <1>3 DEF EndCast, AfterCast
  <2> QED
    BY <1>1, <1>3, <2>1, GotoMoves
<1> QED
  BY <1>2, <1>3

\* One event sent.
LEMMA DeliverStep ==
    ASSUME LocalInv, NEW r \in Requests, NEW s \in Sockets, Deliver(r, s)
    PROVE  LocalInv'
<1>1. version' = version /\ devices' = devices
  BY DEF Deliver
<1>2. CASE peer[s] = "gone"
  BY <1>1, <1>2 DEF Deliver, LocalInv, RequestsTyped, Addressed
<1>3. CASE req' = [req EXCEPT ![r].told = @ \cup {s}] /\ shown' = shown
  <2> DEFINE q == [req[r] EXCEPT !.told = @ \cup {s}]
  <2>1. q \in RequestStates /\ q.step = req[r].step /\ q.chat = req[r].chat
        /\ q.who = req[r].who
    BY DEF LocalInv, RequestsTyped, RequestStates
  <2>2. req' = [req EXCEPT ![r] = q]
    BY <1>3 DEF LocalInv, RequestsTyped
  <2>3. /\ req[r].step \notin {"idle", "done", "failed"} => req[r].chat \in Chats
        /\ req[r].step \in {"tokens", "invalidate", "payload", "update", "updating"} =>
               req[r].who \in Users
    BY DEF LocalInv, Addressed
  <2>4. /\ DOMAIN version' \subseteq Chats /\ version' \in [DOMAIN version' -> Nat]
        /\ devices' \subseteq Users
    BY <1>1 DEF LocalInv, RequestsTyped
  <2> HIDE DEF q
  <2> QED
    BY <1>3, <2>1, <2>2, <2>3, <2>4, RequestMoves
<1>4. CASE /\ req' = req
           /\ shown' = [shown EXCEPT ![s][req[r].chat] =
                           IF req[r].seen > @ THEN req[r].seen ELSE @]
  <2>1. req[r].seen \in Nat
    BY DEF LocalInv, RequestsTyped, RequestStates
  <2>2. shown' \in [EventSockets -> [Chats -> Nat]]
    BY <1>4, <2>1 DEF LocalInv, RequestsTyped
  <2> QED
    BY <1>1, <1>4, <2>2 DEF LocalInv, RequestsTyped, Addressed
<1> QED
  BY <1>2, <1>3, <1>4 DEF Deliver

-----------------------------------------------------------------------------
(***************************************************************************)
(* The requests as the callers of the registry.                            *)
(***************************************************************************)
LEMMA StepsAreRegistrySteps ==
    LocalInv /\ [DeliveryNext]_deliveryVars => [Next]_vars
<1> SUFFICES ASSUME LocalInv, [DeliveryNext]_deliveryVars PROVE [Next]_vars
  OBVIOUS
<1>1. CASE SocketStep
  BY <1>1 DEF SocketStep, AcceptMember, Next, Tasks
<1>2. ASSUME NEW r \in Requests, RequestStep(r) PROVE [Next]_vars
  <2>1. CASE StartRoomCast(r)
    <3>1. req[r].chat \in Keys
      BY <2>1 DEF StartRoomCast, LocalInv, Addressed, Keys
    <3> QED
      BY <2>1, <3>1 DEF StartRoomCast, Next
  <2>2. CASE StartUserCast(r)
    <3>1. req[r].who \in Keys
      BY <2>2 DEF StartUserCast, LocalInv, Addressed, Keys
    <3> QED
      BY <2>2, <3>1 DEF StartUserCast, Next
  <2>3. CASE EndCast(r) \/ \E s \in Sockets : Deliver(r, s)
    BY <2>3 DEF EndCast, Deliver, Next, Tasks
  <2>4. CASE \/ \E op \in {"send", "change", "remove"}, u \in Users, c \in Chats :
                   Begin(r, op, u, c)
             \/ Commit(r) \/ Reread(r) \/ CommitNothing(r) \/ CommitFails(r)
             \/ CommitRemoval(r)
    BY <2>4 DEF Begin, Commit, Reread, CommitNothing, CommitFails, CommitRemoval
  <2>5. CASE \/ ReadParticipants(r) \/ Push(r) \/ Invalidate(r) \/ ReadPayload(r)
             \/ AnswerOk(r) \/ \E p \in Users : NextUser(r, p)
    BY <2>5 DEF ReadParticipants, Push, Invalidate, ReadPayload, AnswerOk, NextUser
  <2> QED
    BY <1>2, <2>1, <2>2, <2>3, <2>4, <2>5 DEF RequestStep
<1>3. CASE UNCHANGED deliveryVars
  BY <1>3 DEF deliveryVars
<1> QED
  BY <1>1, <1>2, <1>3 DEF DeliveryNext

\* Whatever a socket or its coroutine does, it leaves the tasks of the requests.
LEMMA SocketsKeepTasks ==
    ASSUME TypeOK, SocketStep, NEW r \in Requests
    PROVE  cast'[r] = cast[r]
<1>2. ASSUME NEW s \in Sockets,
             \/ Refuse(s) \/ AcceptMember(s) \/ Register(s) \/ Greet(s) \/ Drop(s)
             \/ Hangup(s) \/ BadFrame(s) \/ Disconnect(s)
      PROVE  cast' = cast
  <2>1. CASE Refuse(s) \/ AcceptMember(s) \/ Register(s) \/ Greet(s) \/ Drop(s)
    BY <2>1 DEF Refuse, AcceptMember, Accept, Register, Greet, Drop
  <2>2. CASE Hangup(s) \/ BadFrame(s) \/ Disconnect(s)
    BY <2>2 DEF Hangup, BadFrame, Disconnect
  <2> QED
    BY <1>2, <2>1, <2>2
<1>3. ASSUME NEW s \in Sockets, Typing(s) PROVE cast'[r] = cast[r]
  BY <1>3, ConnectionConstants DEF Typing, TypeOK, Tasks
<1>4. ASSUME NEW t \in Sockets, Finish(t) PROVE cast'[r] = cast[r]
  <2>1. cast' = [cast EXCEPT ![t] = Idle]
    BY <1>4 DEF Finish, Return
  <2> QED
    BY <2>1, ConnectionConstants DEF TypeOK, Tasks
<1>5. ASSUME NEW t \in Sockets, NEW s \in Sockets, Send(t, s) PROVE cast'[r] = cast[r]
  BY <1>5, ConnectionConstants DEF Send, TypeOK, Tasks
<1> QED
  BY <1>2, <1>3, <1>4, <1>5 DEF SocketStep

\* Nor does a request touch the task, or the local state, of another.
LEMMA RequestsKeepTasks ==
    ASSUME TypeOK, RequestsTyped, NEW r \in Requests, NEW p \in Requests, p # r,
           RequestStep(r)
    PROVE  cast'[p] = cast[p] /\ req'[p] = req[p]
<1>1. /\ req \in [Requests -> RequestStates] /\ p \in DOMAIN req
      /\ DOMAIN cast = Tasks /\ p \in DOMAIN cast
  BY DEF TypeOK, RequestsTyped, Tasks
<1>2. CASE \/ \E op \in {"send", "change", "remove"}, u \in Users, c \in Chats :
                 Begin(r, op, u, c)
           \/ Commit(r) \/ Reread(r)
  <2>1. cast' = cast
    BY <1>2 DEF Begin, Commit, Reread, vars
  <2>2. req'[p] = req[p]
    BY <1>1, <1>2 DEF Begin, Commit, Announce, Reread, Answer, Goto
  <2> QED
    BY <2>1, <2>2
<1>3. CASE CommitNothing(r) \/ CommitFails(r) \/ CommitRemoval(r) \/ ReadParticipants(r)
  <2>1. cast' = cast
    BY <1>3 DEF CommitNothing, CommitFails, CommitRemoval, ReadParticipants, vars
  <2>2. req'[p] = req[p]
    BY <1>1, <1>3 DEF CommitNothing, Announce, CommitFails, Answer, CommitRemoval,
                      ReadParticipants
  <2> QED
    BY <2>1, <2>2
<1>4. CASE \/ Push(r) \/ Invalidate(r) \/ ReadPayload(r)
           \/ AnswerOk(r) \/ \E u \in Users : NextUser(r, u)
  <2>1. cast' = cast
    BY <1>4 DEF Push, Invalidate, ReadPayload, AnswerOk, NextUser, vars
  <2>2. req'[p] = req[p]
    BY <1>1, <1>4 DEF Push, Invalidate, ReadPayload, AnswerOk, NextUser, Answer, Goto
  <2> QED
    BY <2>1, <2>2
<1>5. CASE StartRoomCast(r) \/ StartUserCast(r)
  BY <1>1, <1>5 DEF StartRoomCast, StartUserCast, StartCast, Goto
<1>6. CASE EndCast(r)
  BY <1>1, <1>6 DEF EndCast, Finish, Return, AfterCast, Goto
<1>7. CASE \E s \in Sockets : Deliver(r, s)
  BY <1>1, <1>7 DEF Deliver, Send
<1> QED
  BY <1>2, <1>3, <1>4, <1>5, <1>6, <1>7 DEF RequestStep

\* What becomes of the step of a request, and of its task.
LEMMA RequestKeepsInStep ==
    ASSUME TypeOK, RequestsTyped, InStep, NEW r \in Requests, RequestStep(r)
    PROVE  cast'[r].phase = "sending" <=> req'[r].step \in {"casting", "updating"}
<1>1. req \in [Requests -> RequestStates] /\ r \in Tasks
  BY DEF RequestsTyped, Tasks
<1>2. cast[r].phase = "sending" <=> req[r].step \in {"casting", "updating"}
  BY DEF InStep
<1>3. ASSUME cast' = cast, req[r].step \notin {"casting", "updating"},
             req'[r].step \notin {"casting", "updating"}
      PROVE  cast'[r].phase = "sending" <=> req'[r].step \in {"casting", "updating"}
  BY <1>2, <1>3
<1>4. CASE \/ \E op \in {"send", "change", "remove"}, u \in Users, c \in Chats :
                 Begin(r, op, u, c)
           \/ Commit(r) \/ CommitNothing(r) \/ CommitFails(r) \/ CommitRemoval(r)
  <2>1. cast' = cast /\ req[r].step \notin {"casting", "updating"}
    BY <1>4 DEF Begin, Commit, CommitNothing, CommitFails, CommitRemoval, vars
  <2>2. req'[r].step \in {"commit", "reread", "cast", "failed"}
    <3>1. CASE \E op \in {"send", "change", "remove"}, u \in Users, c \in Chats :
                  Begin(r, op, u, c)
      BY <1>1, <3>1 DEF Begin, RequestStates
    <3>2. CASE Commit(r) \/ CommitNothing(r)
      BY <1>1, <3>2 DEF Commit, CommitNothing, Announce, RequestStates
    <3>3. CASE CommitFails(r) \/ CommitRemoval(r)
      BY <1>1, <3>3 DEF CommitFails, CommitRemoval, Answer, Nothing, RequestStates
    <3> QED
      BY <1>4, <3>1, <3>2, <3>3
  <2> QED
    BY <1>3, <2>1, <2>2
<1>5. CASE \/ Reread(r) \/ ReadParticipants(r) \/ Push(r) \/ Invalidate(r)
           \/ ReadPayload(r) \/ AnswerOk(r) \/ \E u \in Users : NextUser(r, u)
  <2>1. cast' = cast /\ req[r].step \notin {"casting", "updating"}
    BY <1>5 DEF Reread, ReadParticipants, Push, Invalidate, ReadPayload, AnswerOk,
                NextUser, vars
  <2>2. req'[r].step \in {"cast", "next", "tokens", "invalidate", "payload", "update",
                          "done", "failed"}
    <3>1. CASE Reread(r) \/ Push(r) \/ Invalidate(r)
      BY <1>1, <3>1 DEF Reread, Push, Invalidate, Goto, Answer, Nothing, RequestStates
    <3>2. CASE ReadParticipants(r) \/ ReadPayload(r) \/ AnswerOk(r)
      BY <1>1, <3>2 DEF ReadParticipants, ReadPayload, AnswerOk, Answer, Nothing,
                        RequestStates
    <3>3. CASE \E u \in Users : NextUser(r, u)
      BY <1>1, <3>3 DEF NextUser, RequestStates
    <3> QED
      BY <1>5, <3>1, <3>2, <3>3
  <2> QED
    BY <1>3, <2>1, <2>2
<1>6. CASE StartRoomCast(r) \/ StartUserCast(r)
  <2>1. req'[r].step \in {"casting", "updating"}
    BY <1>1, <1>6 DEF StartRoomCast, StartUserCast, Goto, RequestStates
  <2>2. cast'[r].phase = "sending"
    BY <1>1, <1>6 DEF StartRoomCast, StartUserCast, StartCast, Snapshot, TypeOK
  <2> QED
    BY <2>1, <2>2
<1>7. CASE EndCast(r)
  <2>1. req'[r].step \notin {"casting", "updating"}
    BY <1>1, <1>7 DEF EndCast, AfterCast, Goto, RequestStates
  <2>2. cast'[r].phase = "idle"
    BY <1>1, <1>7 DEF EndCast, Finish, Return, Idle, TypeOK
  <2> QED
    BY <2>1, <2>2
<1>8. CASE \E s \in Sockets : Deliver(r, s)
  <2>1. req'[r].step = req[r].step
    BY <1>1, <1>8 DEF Deliver, RequestStates
  <2>2. cast'[r].phase = cast[r].phase
    BY <1>1, <1>8 DEF Deliver, Send, TypeOK
  <2> QED
    BY <1>2, <2>1, <2>2
<1> QED
  BY <1>4, <1>5, <1>6, <1>7, <1>8 DEF RequestStep

DeliveryInv == IndInv /\ LocalInv /\ InStep

LEMMA InitDelivery == DeliveryInit => DeliveryInv
<1> SUFFICES ASSUME DeliveryInit PROVE DeliveryInv
  OBVIOUS
<1>1. IndInv
  BY InitIndInv DEF DeliveryInit
<1>2. InStep
  BY DEF DeliveryInit, Init, InStep, Nothing, Idle, Tasks
<1> QED
  BY <1>1, <1>2, InitLocal DEF DeliveryInv

LEMMA StepDelivery == DeliveryInv /\ [DeliveryNext]_deliveryVars => DeliveryInv'
<1> SUFFICES ASSUME DeliveryInv, [DeliveryNext]_deliveryVars PROVE DeliveryInv'
  OBVIOUS
<1>1. IndInv'
  BY StepsAreRegistrySteps, StepIndInv DEF DeliveryInv
<1>2. TypeOK /\ RequestsTyped /\ LocalInv
  BY DEF DeliveryInv, IndInv, LocalInv
<1>3. LocalInv'
  <2>1. ASSUME NEW r \in Requests, RequestStep(r) PROVE LocalInv'
    <3>1. CASE EndCast(r)
      <4>1. req[r].step \in {"casting", "updating"}
        BY <3>1 DEF EndCast, Finish, DeliveryInv, InStep
      <4> QED
        BY <1>2, <3>1, <4>1, EndStep
    <3> QED
      BY <1>2, <2>1, <3>1, CommitSteps, ControlSteps, LoopSteps, DeliverStep
         DEF RequestStep
  <2>2. CASE SocketStep \/ UNCHANGED deliveryVars
    <3>1. UNCHANGED delivery
      BY <2>2 DEF SocketStep, deliveryVars
    <3> QED
      BY <1>2, <3>1 DEF LocalInv, RequestsTyped, Addressed, delivery
  <2> QED
    BY <2>1, <2>2 DEF DeliveryNext
<1>4. InStep'
  <2> SUFFICES ASSUME NEW p \in Requests
               PROVE  cast'[p].phase = "sending" <=>
                          req'[p].step \in {"casting", "updating"}
    BY DEF InStep
  <2>1. cast[p].phase = "sending" <=> req[p].step \in {"casting", "updating"}
    BY DEF DeliveryInv, InStep
  <2>2. ASSUME NEW r \in Requests, RequestStep(r)
        PROVE  cast'[p].phase = "sending" <=> req'[p].step \in {"casting", "updating"}
    <3>1. CASE p = r
      BY <1>2, <2>2, <3>1, RequestKeepsInStep DEF DeliveryInv
    <3>2. CASE p # r
      BY <1>2, <2>1, <2>2, <3>2, RequestsKeepTasks
    <3> QED
      BY <3>1, <3>2
  <2>3. CASE SocketStep
    <3>1. cast'[p] = cast[p] /\ req' = req
      BY <1>2, <2>3, SocketsKeepTasks DEF SocketStep, delivery
    <3> QED
      BY <2>1, <3>1
  <2>4. CASE UNCHANGED deliveryVars
    BY <2>1, <2>4 DEF deliveryVars, vars, delivery
  <2> QED
    BY <2>2, <2>3, <2>4 DEF DeliveryNext
<1> QED
  BY <1>1, <1>3, <1>4 DEF DeliveryInv

(***************************************************************************)
(* The invariant of the composition: that of the registry, and the local   *)
(* state of the requests with the task each of them runs.                  *)
(***************************************************************************)
THEOREM DeliveryInvariance == DeliverySpec => []DeliveryInv
<1> QED
  BY InitDelivery, StepDelivery, PTL DEF DeliverySpec

\* Requests and broadcasts keep their types, and no broadcast is addressed to
\* nobody (ws_router.py broadcast_*).
THEOREM DeliveryTypeCorrect == DeliverySpec => []DeliveryTypeOK
<1>1. DeliveryInv => DeliveryTypeOK
  BY DEF DeliveryInv, IndInv, LocalInv, DeliveryTypeOK
<1> QED
  BY <1>1, DeliveryInvariance, PTL

\* Requests and sockets together use the registry as ConnectionManager says.
LEMMA Composition == DeliverySpec => Spec
<1>1. DeliveryInit => Init
  BY DEF DeliveryInit
<1>2. DeliveryInv /\ [DeliveryNext]_deliveryVars => [Next]_vars
  BY StepsAreRegistrySteps DEF DeliveryInv
<1> QED
  BY <1>1, <1>2, DeliveryInvariance, PTL DEF DeliverySpec, Spec

\* So what the registry promises its clients holds in the composition: with requests
\* that read and write the database between announcing and serving, every connection
\* that is in its room at a broadcast and stays gets the event once.
THEOREM DeliveryKeepsRooms == DeliverySpec => ImplementsRooms
<1>1. Spec => ImplementsRooms
  BY RoomsRefinement
<1> QED
  BY <1>1, Composition, PTL

-----------------------------------------------------------------------------
(***************************************************************************)
(* Everyone in the chat hears of the change.                               *)
(***************************************************************************)

\* A coroutine never comes back to where it connects, and a connection that is
\* closed is never open again.
LEMMA NoReturn ==
    ASSUME IndInv, [Next]_vars, NEW s \in Sockets, handler[s] \notin {"new", "accepted"}
    PROVE  /\ handler'[s] \notin {"new", "accepted"}
           /\ peer'[s] = "up" => peer[s] = "up"
<1> USE DEF IndInv
<1>1. handler \in [Sockets -> HandlerStates] /\ peer \in [Sockets -> {"up", "gone"}]
  BY DEF TypeOK
<1>2. ASSUME NEW t \in Sockets,
             \/ Refuse(t) \/ Accept(t) \/ Register(t) \/ Greet(t) \/ Drop(t)
             \/ Hangup(t) \/ BadFrame(t) \/ Typing(t) \/ Disconnect(t)
      PROVE  /\ handler'[s] \notin {"new", "accepted"}
             /\ peer'[s] = "up" => peer[s] = "up"
  <2>1. CASE Refuse(t) \/ Accept(t) \/ Register(t) \/ Disconnect(t)
    BY <1>1, <2>1 DEF Refuse, Accept, Register, Disconnect
  <2>2. CASE Greet(t) \/ Drop(t)
    BY <1>1, <2>2 DEF Greet, Drop
  <2>3. CASE Hangup(t) \/ BadFrame(t) \/ Typing(t)
    BY <1>1, <2>3 DEF Hangup, BadFrame, Typing
  <2> QED
    BY <1>2, <2>1, <2>2, <2>3
<1>3. ASSUME handler' = handler, peer' = peer
      PROVE  /\ handler'[s] \notin {"new", "accepted"}
             /\ peer'[s] = "up" => peer[s] = "up"
  BY <1>3
<1>4. ASSUME NEW t \in Tasks, Finish(t)
      PROVE  /\ handler'[s] \notin {"new", "accepted"}
             /\ peer'[s] = "up" => peer[s] = "up"
  <2>1. t \in Sockets => handler[t] = "typing"
    BY <1>4 DEF BroadcastsSound, Finish
  <2>2. handler' = IF t \in Sockets THEN [handler EXCEPT ![t] = "open"] ELSE handler
    BY <1>4 DEF Finish, Return
  <2>3. peer' = peer
    BY <1>4 DEF Finish, Return
  <2> QED
    BY <1>1, <2>1, <2>2, <2>3
<1>5. CASE \/ \E t \in Requests, k \in Keys : StartCast(t, k)
           \/ \E t \in Tasks, q \in Sockets : Send(t, q)
  BY <1>3, <1>5 DEF StartCast, Send
<1>6. CASE UNCHANGED vars
  BY <1>3, <1>6 DEF vars
<1> QED
  BY <1>2, <1>4, <1>5, <1>6 DEF Next

\* An open socket is in the list that a broadcast to its key starts with.
LEMMA OpenIsTarget ==
    ASSUME IndInv, NEW s \in Sockets, peer[s] = "up", handler[s] \notin {"new", "accepted"}
    PROVE  s \in Lookup(Key(s))
BY DEF IndInv, LiveSocketsRegistered, Registered

Before == {"idle", "commit", "reread", "cast", "casting"}

\* What RoomInv says of one request.
Announced(r) ==
    /\ req[r].step \notin Before => Heard(r, req[r].told)
    /\ \A s \in req[r].audience : handler[s] \notin {"new", "accepted"}
    /\ req[r].step = "casting" => Heard(r, req[r].told \cup cast[r].todo)

LEMMA RoomInvIsAnnounced == RoomInv <=> \A r \in Requests : Announced(r)
BY DEF RoomInv, RoomHears, Announced, Before

\* While a request goes on with the same chat, audience and record of sends, what
\* has been heard stays heard.
LEMMA StillHeard ==
    ASSUME DeliveryInv, [DeliveryNext]_deliveryVars, NEW r \in Requests, Announced(r),
           req'[r].chat = req[r].chat, req'[r].audience = req[r].audience
    PROVE  /\ \A s \in req'[r].audience : handler'[s] \notin {"new", "accepted"}
           /\ Stayed(r)' \subseteq Stayed(r)
           /\ \A among : Heard(r, among) =>
                 \A s \in Stayed(r)' : Room[s] = req'[r].chat => s \in among
<1>1. [Next]_vars /\ IndInv
  BY StepsAreRegistrySteps DEF DeliveryInv
<1>2. req[r].audience \subseteq Sockets
  BY DEF DeliveryInv, LocalInv, RequestsTyped, RequestStates
<1>3. \A s \in req[r].audience :
         handler'[s] \notin {"new", "accepted"} /\ (peer'[s] = "up" => peer[s] = "up")
  BY <1>1, <1>2, NoReturn DEF Announced
<1>4. Stayed(r)' \subseteq Stayed(r)
  BY <1>3 DEF Stayed
<1> QED
  BY <1>3, <1>4 DEF Heard

LEMMA BystanderStep ==
    ASSUME DeliveryInv, [DeliveryNext]_deliveryVars, NEW r \in Requests, Announced(r),
           req'[r] = req[r], cast'[r] = cast[r]
    PROVE  Announced(r)'
BY StillHeard DEF Announced, Heard

\* A request that is answered is done with its audience.
LEMMA AnswerStep ==
    ASSUME DeliveryInv, NEW r \in Requests, NEW step \in {"done", "failed"},
           Answer(r, step)
    PROVE  Announced(r)'
<1>1. req'[r] = Nothing(step)
  BY DEF Answer, DeliveryInv, LocalInv, RequestsTyped
<1>2. req'[r].audience = {} /\ req'[r].step \notin {"casting"}
  BY <1>1 DEF Nothing
<1>3. Stayed(r)' = {}
  BY <1>2 DEF Stayed
<1> QED
  BY <1>2, <1>3 DEF Announced, Heard

\* Before the broadcast, at its beginning and after it.
LEMMA CommitAnnounces ==
    ASSUME DeliveryInv, [DeliveryNext]_deliveryVars, NEW r \in Requests, Announced(r),
           \/ \E op \in {"send", "change", "remove"}, u \in Users, c \in Chats :
                 Begin(r, op, u, c)
           \/ Commit(r) \/ CommitNothing(r) \/ CommitRemoval(r)
    PROVE  Announced(r)'
<1>1. req \in [Requests -> RequestStates]
  BY DEF DeliveryInv, LocalInv, RequestsTyped
<1>2. handler' = handler
  BY DEF Begin, Commit, CommitNothing, CommitRemoval, vars
<1>3. ASSUME NEW op \in {"send", "change", "remove"}, NEW u \in Users, NEW c \in Chats,
             Begin(r, op, u, c)
      PROVE  req'[r].step = "commit" /\ req'[r].audience = req[r].audience
  <2>1. req' = [req EXCEPT ![r].step = "commit", ![r].op = op, ![r].chat = c,
                           ![r].user = IF op = "send" THEN u ELSE NoUser]
    BY <1>3 DEF Begin
  <2> QED
    BY <1>1, <2>1 DEF RequestStates
<1>4. req'[r].step \in Before \ {"casting"}
  <2>1. CASE \E op \in {"send", "change", "remove"}, u \in Users, c \in Chats :
                Begin(r, op, u, c)
    BY <1>3, <2>1 DEF Before
  <2>2. CASE Commit(r) \/ CommitNothing(r)
    BY <1>1, <2>2 DEF Commit, CommitNothing, Announce, RequestStates, Before
  <2>3. CASE CommitRemoval(r)
    BY <1>1, <2>3 DEF CommitRemoval, RequestStates, Before
  <2> QED
    BY <2>1, <2>2, <2>3
<1>5. req'[r].audience \subseteq req[r].audience \cup Connected
  <2>1. CASE \E op \in {"send", "change", "remove"}, u \in Users, c \in Chats :
                Begin(r, op, u, c)
    BY <1>3, <2>1
  <2>2. CASE Commit(r) \/ CommitNothing(r)
    BY <1>1, <2>2 DEF Commit, CommitNothing, Announce, RequestStates
  <2>3. CASE CommitRemoval(r)
    BY <1>1, <2>3 DEF CommitRemoval, RequestStates
  <2> QED
    BY <2>1, <2>2, <2>3
<1>6. \A s \in Connected : handler[s] \notin {"new", "accepted"}
  BY DEF Connected
<1> QED
  BY <1>2, <1>4, <1>5, <1>6 DEF Announced, Before

\* A step of the loop over the participants, or of the broadcast to one of them.
LEMMA LaterSteps ==
    ASSUME DeliveryInv, [DeliveryNext]_deliveryVars, NEW r \in Requests, Announced(r),
           req[r].step \notin Before, req'[r].step \notin Before,
           req'[r].chat = req[r].chat, req'[r].audience = req[r].audience,
           req'[r].told = req[r].told
    PROVE  Announced(r)'
BY StillHeard DEF Announced, Heard, Before

LEMMA LoopAnnounced ==
    ASSUME DeliveryInv, [DeliveryNext]_deliveryVars, NEW r \in Requests, Announced(r),
           \/ ReadParticipants(r) \/ StartUserCast(r) \/ \E p \in Users : NextUser(r, p)
           \/ Push(r) \/ Invalidate(r) \/ ReadPayload(r) \/ AnswerOk(r)
    PROVE  Announced(r)'
<1>1. req \in [Requests -> RequestStates]
  BY DEF DeliveryInv, LocalInv, RequestsTyped
<1>2. req[r].step \notin Before
  BY DEF ReadParticipants, StartUserCast, NextUser, Push, Invalidate, ReadPayload,
         AnswerOk, Before
<1>3. ASSUME NEW step \in {"invalidate", "payload", "updating"}, Goto(r, step)
      PROVE  Announced(r)'
  <2>1. /\ req'[r].step \notin Before /\ req'[r].chat = req[r].chat
        /\ req'[r].audience = req[r].audience /\ req'[r].told = req[r].told
    BY <1>1, <1>3 DEF Goto, Before, RequestStates
  <2> QED
    BY <1>2, <2>1, LaterSteps
<1>4. CASE StartUserCast(r)
  BY <1>3, <1>4 DEF StartUserCast
<1>5. CASE Push(r) \/ Invalidate(r) \/ AnswerOk(r)
  BY <1>3, <1>5, AnswerStep DEF Push, Invalidate, AnswerOk
<1>6. CASE ReadParticipants(r)
  <2>1. /\ req'[r].step \notin Before /\ req'[r].chat = req[r].chat
        /\ req'[r].audience = req[r].audience /\ req'[r].told = req[r].told
    BY <1>1, <1>6 DEF ReadParticipants, Before, RequestStates
  <2> QED
    BY <1>2, <2>1, LaterSteps
<1>7. ASSUME NEW p \in Users, NextUser(r, p) PROVE Announced(r)'
  <2>1. /\ req'[r].step \notin Before /\ req'[r].chat = req[r].chat
        /\ req'[r].audience = req[r].audience /\ req'[r].told = req[r].told
    BY <1>1, <1>7 DEF NextUser, Before, RequestStates
  <2> QED
    BY <1>2, <2>1, LaterSteps
<1>8. CASE ReadPayload(r)
  <2>1. CASE req[r].chat \notin DOMAIN version
    BY <1>8, <2>1, AnswerStep DEF ReadPayload
  <2>2. CASE req[r].chat \in DOMAIN version
    <3>1. /\ req'[r].step \notin Before /\ req'[r].chat = req[r].chat
          /\ req'[r].audience = req[r].audience /\ req'[r].told = req[r].told
      BY <1>1, <1>8, <2>2 DEF ReadPayload, Before, RequestStates
    <3> QED
      BY <1>2, <3>1, LaterSteps
  <2> QED
    BY <2>1, <2>2
<1> QED
  BY <1>4, <1>5, <1>6, <1>7, <1>8

\* The broadcast to the chat: everyone is in the list, and is told or found gone.
LEMMA CastAnnounced ==
    ASSUME DeliveryInv, [DeliveryNext]_deliveryVars, NEW r \in Requests, Announced(r),
           StartRoomCast(r) \/ EndCast(r) \/ \E s \in Sockets : Deliver(r, s)
    PROVE  Announced(r)'
<1>1. /\ req \in [Requests -> RequestStates] /\ IndInv /\ r \in Tasks
      /\ req[r].audience \subseteq Sockets
  BY DEF DeliveryInv, LocalInv, RequestsTyped, Tasks, RequestStates
<1>2. CASE StartRoomCast(r)
  <2>1. /\ req'[r].step = "casting" /\ req'[r].chat = req[r].chat
        /\ req'[r].audience = req[r].audience
    BY <1>1, <1>2 DEF StartRoomCast, Goto, RequestStates
  <2>2. cast'[r].todo = Lookup(req[r].chat)
    BY <1>1, <1>2 DEF StartRoomCast, StartCast, Snapshot, IndInv, TypeOK
  <2>3. req[r].chat \in Chats
    BY <1>2 DEF StartRoomCast, DeliveryInv, LocalInv, Addressed
  <2>4. ASSUME NEW s \in Stayed(r), Room[s] = req[r].chat PROVE s \in Lookup(req[r].chat)
    <3>1. s \in Sockets /\ Key(s) = req[r].chat
      BY <1>1, <2>3, <2>4, ConnectionConstants DEF Stayed, Key, EventSockets
    <3> QED
      BY <1>1, <3>1, OpenIsTarget DEF Stayed, Announced
  <2>5. /\ \A s \in req'[r].audience : handler'[s] \notin {"new", "accepted"}
        /\ Stayed(r)' \subseteq Stayed(r)
    BY <2>1, StillHeard
  <2> QED
    BY <2>1, <2>2, <2>4, <2>5 DEF Announced, Heard, Before
<1>3. CASE EndCast(r)
  <2>1. req[r].step \in {"casting", "updating"}
    BY <1>3 DEF EndCast, Finish, DeliveryInv, InStep
  <2>2. /\ req'[r].step \notin Before /\ req'[r].chat = req[r].chat
        /\ req'[r].audience = req[r].audience /\ req'[r].told = req[r].told
    BY <1>1, <1>3 DEF EndCast, AfterCast, Goto, Before, RequestStates
  <2>3. CASE req[r].step = "updating"
    BY <2>2, <2>3, LaterSteps DEF Before
  <2>4. CASE req[r].step = "casting"
    <3>1. cast[r].todo = {}
      BY <1>3 DEF EndCast, Finish
    <3>2. Heard(r, req[r].told)
      BY <2>4, <3>1 DEF Announced
    <3> QED
      BY <2>2, <3>2, StillHeard DEF Announced, Heard, Before
  <2> QED
    BY <2>1, <2>3, <2>4
<1>4. ASSUME NEW s \in Sockets, Deliver(r, s) PROVE Announced(r)'
  <2>1. req[r].step \in {"casting", "updating"}
    BY <1>4 DEF Deliver, Send, DeliveryInv, InStep
  <2>2. CASE req[r].step = "updating"
    <3>1. /\ req'[r].step = "updating" /\ req'[r].chat = req[r].chat
          /\ req'[r].audience = req[r].audience
          /\ req'[r].told \in {req[r].told, req[r].told \cup {s}}
      BY <1>1, <1>4, <2>2 DEF Deliver, RequestStates
    <3>2. Heard(r, req[r].told)
      BY <2>2 DEF Announced, Before
    <3> QED
      BY <2>2, <3>1, <3>2, StillHeard DEF Announced, Heard, Before
  <2>3. CASE req[r].step = "casting"
    <3>1. /\ req'[r].step = "casting" /\ req'[r].chat = req[r].chat
          /\ req'[r].audience = req[r].audience
          /\ req'[r].told = IF peer[s] = "up" THEN req[r].told \cup {s} ELSE req[r].told
      <4>1. peer[s] \in {"up", "gone"}
        BY <1>1 DEF IndInv, TypeOK
      <4> QED
        BY <1>1, <1>4, <2>3, <4>1 DEF Deliver, RequestStates
    <3>2. cast'[r].todo = cast[r].todo \ {s} /\ peer' = peer
      <4>1. DOMAIN cast = Tasks /\ "todo" \in DOMAIN cast[r]
        BY <1>1 DEF IndInv, TypeOK
      <4>2. CASE peer[s] = "up"
        BY <1>1, <1>4, <4>1, <4>2 DEF Deliver, Send
      <4>3. CASE peer[s] # "up"
        BY <1>1, <1>4, <4>1, <4>3 DEF Deliver, Send
      <4> QED
        BY <4>2, <4>3
    <3>3. Heard(r, req[r].told \cup cast[r].todo)
      BY <2>3 DEF Announced
    <3>4. /\ \A q \in req'[r].audience : handler'[q] \notin {"new", "accepted"}
          /\ \A q \in Stayed(r)' :
                Room[q] = req'[r].chat => q \in req[r].told \cup cast[r].todo
      BY <3>1, <3>3, StillHeard
    <3>5. \A q \in Stayed(r)' : peer'[q] = "up"
      BY DEF Stayed
    <3> QED
      BY <3>1, <3>2, <3>4, <3>5 DEF Announced, Heard, Before
  <2> QED
    BY <2>1, <2>2, <2>3
<1> QED
  BY <1>2, <1>3, <1>4

LEMMA StepRoomInv ==
    DeliveryInv /\ RoomInv /\ [DeliveryNext]_deliveryVars => RoomInv'
<1> SUFFICES ASSUME DeliveryInv, RoomInv, [DeliveryNext]_deliveryVars,
                    NEW r \in Requests
             PROVE  Announced(r)'
  BY DEF RoomInv, RoomHears, Announced, Before
<1>1. Announced(r) /\ TypeOK /\ RequestsTyped
  BY RoomInvIsAnnounced DEF DeliveryInv, IndInv, LocalInv
<1>2. CASE SocketStep
  <2>1. req'[r] = req[r] /\ cast'[r] = cast[r]
    BY <1>1, <1>2, SocketsKeepTasks DEF SocketStep, delivery
  <2> QED
    BY <1>1, <2>1, BystanderStep
<1>3. ASSUME NEW p \in Requests, p # r, RequestStep(p) PROVE Announced(r)'
  <2>1. req'[r] = req[r] /\ cast'[r] = cast[r]
    BY <1>1, <1>3, RequestsKeepTasks
  <2> QED
    BY <1>1, <2>1, BystanderStep
<1>4. CASE RequestStep(r)
  <2>1. CASE CommitFails(r) \/ Reread(r)
    <3>1. CASE Answer(r, "failed")
      BY <3>1, AnswerStep
    <3>2. CASE Reread(r) /\ Goto(r, "cast")
      <4>1. /\ req'[r].step = "cast" /\ req'[r].chat = req[r].chat
            /\ req'[r].audience = req[r].audience
        BY <1>1, <3>2 DEF Goto, RequestsTyped, RequestStates
      <4> QED
        BY <1>1, <4>1, StillHeard DEF Announced, Before
    <3> QED
      BY <2>1, <3>1, <3>2 DEF CommitFails, Reread
  <2> QED
    BY <1>1, <1>4, <2>1, CommitAnnounces, LoopAnnounced, CastAnnounced DEF RequestStep
<1>5. CASE UNCHANGED deliveryVars
  <2>1. req'[r] = req[r] /\ cast'[r] = cast[r]
    BY <1>5 DEF deliveryVars, vars, delivery
  <2> QED
    BY <1>1, <2>1, BystanderStep
<1> QED
  BY <1>2, <1>3, <1>4, <1>5 DEF DeliveryNext

LEMMA RoomInvariance == DeliverySpec => []RoomInv
<1>1. DeliveryInit => RoomInv
  BY DEF DeliveryInit, RoomInv, RoomHears, Nothing, Heard, Stayed
<1>2. DeliveryInv /\ RoomInv /\ [DeliveryNext]_deliveryVars => RoomInv'
  BY StepRoomInv
<1> QED
  BY <1>1, <1>2, DeliveryInvariance, PTL DEF DeliverySpec

\* A message that is committed, an edit, a deletion: the broadcast brings it to
\* every socket that was in the chat at that moment and still is, for any number
\* of sockets that come, leave and fail while it runs.
THEOREM RoomAlwaysHears == DeliverySpec => []RoomHears
<1>1. RoomInv => RoomHears
  BY DEF RoomInv
<1> QED
  BY <1>1, RoomInvariance, PTL

-----------------------------------------------------------------------------
(***************************************************************************)
(* Pushes: the decision of the presence check.                             *)
(***************************************************************************)

\* In the loop a request takes the next user or answers.
LEMMA LoopHead ==
    ASSUME DeliveryInv, [DeliveryNext]_deliveryVars, NEW r \in Requests,
           req[r].step = "next", req'[r] # req[r]
    PROVE  AnswerOk(r) \/ \E p \in Users : NextUser(r, p)
<1>1. TypeOK /\ RequestsTyped /\ InStep
  BY DEF DeliveryInv, IndInv, LocalInv
<1>2. RequestStep(r)
  <2>1. ASSUME NEW p \in Requests, p # r, RequestStep(p) PROVE FALSE
    BY <1>1, <2>1, RequestsKeepTasks
  <2>2. ~UNCHANGED req
    OBVIOUS
  <2> QED
    BY <2>1, <2>2 DEF DeliveryNext, SocketStep, delivery, deliveryVars
<1>3. cast[r].phase # "sending"
  BY <1>1 DEF InStep
<1>4. ~EndCast(r) /\ \A s \in Sockets : ~Deliver(r, s)
  BY <1>3 DEF EndCast, Finish, Deliver, Send
<1>5. ~(StartRoomCast(r) \/ StartUserCast(r) \/ ReadParticipants(r) \/ Push(r)
         \/ Invalidate(r) \/ ReadPayload(r))
  BY DEF StartRoomCast, StartUserCast, ReadParticipants, Push, Invalidate, ReadPayload
<1>6. ~(Commit(r) \/ Reread(r) \/ CommitNothing(r) \/ CommitFails(r) \/ CommitRemoval(r))
  BY DEF Commit, Reread, CommitNothing, CommitFails, CommitRemoval
<1>7. \A op, u, c : ~Begin(r, op, u, c)
  BY DEF Begin
<1> QED
  BY <1>2, <1>4, <1>5, <1>6, <1>7 DEF RequestStep

\* Whom is_user_active_in_chat finds, and what they have been sent.
LEMMA PresenceDecides ==
    ASSUME DeliveryInv, RoomInv, [DeliveryNext]_deliveryVars, NEW r \in Requests,
           NEW p \in Users, Decides(r, p)
    PROVE  RightlyDecided(r, p)
<1> DEFINE c == req[r].chat
           here == SocketsOf(p, c)
<1>1. /\ req \in [Requests -> RequestStates] /\ c \in Chats /\ IndInv
  BY DEF DeliveryInv, LocalInv, RequestsTyped, Addressed, Decides
<1>2. PICK u \in Users : NextUser(r, u)
  <2>1. req'[r] # req[r] /\ ~AnswerOk(r)
    BY <1>1 DEF Decides, AnswerOk, Answer, Nothing
  <2> QED
    BY <2>1, LoopHead DEF Decides
<1>3. /\ u = p
      /\ req'[r].step = "tokens" => ~IsUserActiveInChat(p, c)
      /\ req'[r].step = "payload" => IsUserActiveInChat(p, c)
  <2>1. req'[r].who = u
    BY <1>1, <1>2 DEF NextUser, RequestStates
  <2>2. Recipient(r, u)
    BY <2>1 DEF Decides
  <2>3. req'[r].step = IF ~IsUserActiveInChat(u, c) THEN "tokens" ELSE "payload"
    BY <1>1, <1>2, <2>2 DEF NextUser, RequestStates, Recipient
  <2> QED
    BY <2>1, <2>3 DEF Decides
<1>4. here = {s \in ChatSockets : Owner[s] = p /\ Room[s] = c}
  BY DEF SocketsOf
<1>5. CASE req'[r].step = "tokens"
  <2>1. PresenceExact
    BY <1>1, InvGivesPresence
  <2>2. here \cap Connected = {}
    BY <1>1, <1>3, <1>4, <1>5, <2>1 DEF PresenceExact
  <2> QED
    BY <1>5, <2>2 DEF RightlyDecided
<1>6. CASE req'[r].step = "payload"
  <2>1. PICK s \in Lookup(c) : s \in DOMAIN connUser /\ connUser[s] = p
    BY <1>3, <1>6 DEF IsUserActiveInChat
  <2>2. s \in Sockets /\ Owner[s] = p /\ Key(s) = c
    BY <1>1, <2>1 DEF IndInv, RegistryConsistent, Lookup
  <2>3. s \in here
    BY <1>1, <1>4, <2>2, ConnectionConstants DEF Key, ChatSockets, EventSockets
  <2>4. Heard(r, req[r].told)
    BY DEF RoomInv, RoomHears, Decides
  <2>5. (s \in req[r].audience /\ peer[s] = "up") => s \in req[r].told
    BY <1>4, <2>3, <2>4 DEF Heard, Stayed
  <2>6. peer[s] \in {"up", "gone"}
    BY <1>1, <2>2 DEF IndInv, TypeOK
  <2>7. Registered(s)
    BY <2>1, <2>2 DEF Registered
  <2> QED
    BY <1>6, <2>3, <2>5, <2>6, <2>7 DEF RightlyDecided
<1> QED
  BY <1>5, <1>6 DEF Decides

\* A recipient who has the chat open gets no push, and one who gets none has a
\* socket registered in the chat, and that one was sent the message, came after
\* the commit or is lost.  Who has left for certain, never came, or follows only
\* the event stream gets the push.
THEOREM PushesSound == DeliverySpec => PushUnlessPresent
<1>1. DeliveryInv /\ RoomInv /\ [DeliveryNext]_deliveryVars =>
        [\A r \in Requests, p \in Users :
            Decides(r, p) => RightlyDecided(r, p)]_deliveryVars
  BY PresenceDecides
<1> QED
  BY <1>1, DeliveryInvariance, RoomInvariance, PTL DEF DeliverySpec, PushUnlessPresent

-----------------------------------------------------------------------------
(***************************************************************************)
(* The list of chats catches up.                                           *)
(***************************************************************************)
Looping == {"next", "tokens", "invalidate", "payload", "update", "updating"}

\* A request that has something to bring to the lists, of a chat that exists.
Concerned(r) ==
    /\ req[r].step \notin {"idle", "commit", "done", "failed"}
    /\ Brings(r)

\* What ListInv says of one request.
Listed(r) ==
    /\ Prepared(r)
    /\ req[r].step \in Looping =>
          \A s \in Followers(r) : Owner[s] \in req[r].left \/ CaughtUp(r, s)
    /\ req[r].step = "updating" =>
          \A s \in Followers(r) :
              Owner[s] = req[r].who => s \in cast[r].todo \/ CaughtUp(r, s)

VersionsPositive == \A c \in DOMAIN version : version[c] > 0

LEMMA ListInvIsListed ==
    ListInv <=> VersionsPositive /\ \A r \in Requests : Concerned(r) => Listed(r)
BY DEF ListInv, VersionsPositive, Concerned, Listed, Looping

\* No chat comes back, no version goes down, and no socket forgets what it has had.
LEMMA Growth ==
    ASSUME DeliveryInv, [DeliveryNext]_deliveryVars
    PROVE  /\ DOMAIN version' \subseteq DOMAIN version
           /\ \A c \in DOMAIN version' : version'[c] >= version[c]
           /\ \A s \in EventSockets, c \in Chats : shown'[s][c] >= shown[s][c]
<1>1. RequestsTyped
  BY DEF DeliveryInv, LocalInv
<1>2. /\ version \in [DOMAIN version -> Nat]
      /\ \A s \in EventSockets, c \in Chats : shown[s][c] \in Nat
  BY <1>1 DEF RequestsTyped
<1>3. CASE version' = version /\ shown' = shown
  BY <1>2, <1>3
<1>4. ASSUME NEW r \in Requests, Commit(r)
      PROVE  /\ shown' = shown /\ DOMAIN version' = DOMAIN version
             /\ \A c \in DOMAIN version : version'[c] >= version[c]
  BY <1>2, <1>4 DEF Commit
<1>5. ASSUME NEW r \in Requests, CommitRemoval(r)
      PROVE  /\ shown' = shown /\ DOMAIN version' \subseteq DOMAIN version
             /\ \A c \in DOMAIN version' : version'[c] = version[c]
  BY <1>5 DEF CommitRemoval, Restrict
<1>6. ASSUME NEW r \in Requests, NEW s \in Sockets, Deliver(r, s)
      PROVE  /\ version' = version
             /\ \A t \in EventSockets, c \in Chats : shown'[t][c] >= shown[t][c]
  <2>1. version' = version
    BY <1>6 DEF Deliver
  <2>2. SUFFICES ASSUME NEW t \in EventSockets, NEW c \in Chats
                 PROVE  shown'[t][c] >= shown[t][c]
    BY <2>1
  <2>3. /\ shown \in [EventSockets -> [Chats -> Nat]]
        /\ shown[t][c] \in Nat /\ req[r].seen \in Nat
    BY <1>1 DEF RequestsTyped, RequestStates
  <2>4. CASE shown' = shown
    BY <2>3, <2>4
  <2>5. CASE shown' = [shown EXCEPT ![s][req[r].chat] =
                         IF req[r].seen > @ THEN req[r].seen ELSE @]
    BY <2>3, <2>5
  <2> QED
    BY <1>6, <2>4, <2>5 DEF Deliver
<1>7. CASE SocketStep \/ UNCHANGED deliveryVars
  BY <1>3, <1>7 DEF SocketStep, deliveryVars, delivery
<1>8. ASSUME NEW r \in Requests, RequestStep(r)
      PROVE  \/ version' = version /\ shown' = shown
             \/ Commit(r) \/ CommitRemoval(r) \/ \E s \in Sockets : Deliver(r, s)
  BY <1>8 DEF RequestStep, Begin, Reread, CommitNothing, CommitFails, StartRoomCast,
              StartUserCast, EndCast, ReadParticipants, Push, Invalidate, ReadPayload,
              AnswerOk, NextUser
<1> QED
  BY <1>2, <1>3, <1>4, <1>5, <1>6, <1>7, <1>8 DEF DeliveryNext

\* What of the local state the lists depend on.
SameWork(r) ==
    /\ req'[r].op = req[r].op /\ req'[r].chat = req[r].chat
    /\ req'[r].at = req[r].at /\ req'[r].audience = req[r].audience
    /\ req[r].told \subseteq req'[r].told

LEMMA GotoFields ==
    ASSUME RequestsTyped, NEW r \in Requests, NEW step, Goto(r, step)
    PROVE  /\ SameWork(r) /\ req'[r].step = step /\ req'[r].left = req[r].left
           /\ req'[r].who = req[r].who /\ req'[r].seen = req[r].seen
BY DEF RequestsTyped, RequestStates, Goto, SameWork

\* While a request goes on with the same work, whoever has caught up stays so,
\* nobody joins the followers, and a chat that is there has been there.
LEMMA StillListed ==
    ASSUME DeliveryInv, RoomInv, [DeliveryNext]_deliveryVars, NEW r \in Requests,
           SameWork(r), Concerned(r)'
    PROVE  /\ Brings(r)
           /\ Followers(r)' \subseteq Followers(r)
           /\ \A s \in Followers(r)' : CaughtUp(r, s) => CaughtUp(r, s)'
<1>1. Announced(r)
  BY RoomInvIsAnnounced
<1>2. Stayed(r)' \subseteq Stayed(r)
  BY <1>1, StillHeard DEF SameWork
<1>3. Followers(r)' \subseteq Followers(r)
  BY <1>2 DEF Followers, SameWork
<1>4. /\ DOMAIN version' \subseteq DOMAIN version
      /\ \A s \in EventSockets, c \in Chats : shown'[s][c] >= shown[s][c]
  BY Growth
<1>5. Brings(r)
  BY <1>4 DEF Brings, Concerned, SameWork
<1>6. /\ DOMAIN version \subseteq Chats /\ req[r].at \in Nat
      /\ \A s \in EventSockets, c \in Chats : shown[s][c] \in Nat
  BY DEF DeliveryInv, LocalInv, RequestsTyped, RequestStates
<1>7. \A s \in EventSockets, c \in Chats : shown'[s][c] \in Nat
  <2>1. DeliveryInv'
    BY StepDelivery
  <2> QED
    BY <2>1 DEF DeliveryInv, LocalInv, RequestsTyped
<1>8. ASSUME NEW s \in Followers(r)', CaughtUp(r, s) PROVE CaughtUp(r, s)'
  <2>1. s \in EventSockets
    BY DEF Followers
  <2>2. CASE req[r].op = "remove"
    BY <1>8, <2>2 DEF CaughtUp, SameWork
  <2>3. CASE req[r].op # "remove"
    <3>1. PICK c \in Chats : c = req[r].chat
      BY <1>5, <1>6, <2>3 DEF Brings
    <3>2. shown[s][c] > 0 /\ shown[s][c] >= req[r].at
      BY <1>8, <2>3, <3>1 DEF CaughtUp
    <3>3. shown'[s][c] > 0 /\ shown'[s][c] >= req[r].at
      BY <1>4, <1>6, <1>7, <2>1, <3>2
    <3> QED
      BY <2>3, <3>1, <3>3 DEF CaughtUp, SameWork
  <2> QED
    BY <2>2, <2>3
<1> QED
  BY <1>3, <1>5, <1>8

\* And what it has committed is there.
LEMMA StillPrepared ==
    ASSUME DeliveryInv, RoomInv, [DeliveryNext]_deliveryVars, NEW r \in Requests,
           SameWork(r), Concerned(r)', Prepared(r),
           req[r].op = "remove" =>
               /\ req'[r].step \notin {"reread", "lookup"}
               /\ req'[r].step \in {"cast", "casting"} =>
                     req[r].step \in {"cast", "casting"} /\ req'[r].left = req[r].left,
           req[r].op # "remove" /\ req'[r].step \in {"update", "updating"} =>
               req'[r].seen > 0 /\ req'[r].seen >= req[r].at
    PROVE  Prepared(r)'
<1>1. CASE req[r].op = "remove"
  BY <1>1 DEF Prepared, SameWork
<1>2. CASE req[r].op # "remove"
  <2>1. DeliveryInv'
    BY StepDelivery
  <2>2. PICK c \in DOMAIN version' : c = req[r].chat
    BY <1>2 DEF Concerned, Brings, SameWork
  <2>3. c \in DOMAIN version /\ version'[c] >= version[c]
    BY Growth
  <2>4. version[c] \in Nat /\ version'[c] \in Nat /\ req[r].at \in Nat
    BY <2>1, <2>3 DEF DeliveryInv, LocalInv, RequestsTyped, RequestStates
  <2>5. req[r].at <= version[c]
    BY <1>2, <2>2 DEF Prepared
  <2>6. req[r].at <= version'[c]
    BY <2>3, <2>4, <2>5
  <2> QED
    BY <1>2, <2>2, <2>6 DEF Prepared, SameWork
<1> QED
  BY <1>1, <1>2

\* Outside the loop there is nothing else to look at.
LEMMA ListedEarly ==
    ASSUME DeliveryInv, RoomInv, [DeliveryNext]_deliveryVars, NEW r \in Requests,
           SameWork(r), req'[r].left = req[r].left, Concerned(r)', Listed(r),
           \/ req'[r].step \in {"cast", "casting"} /\ req[r].step \in {"cast", "casting"}
           \/ req'[r].step \in {"cast", "lookup"} /\ req[r].op # "remove"
    PROVE  Listed(r)'
<1>1. Prepared(r)'
  BY StillPrepared DEF Listed
<1> QED
  BY <1>1 DEF Listed, Looping

\* Within it, whoever is not left has caught up.
LEMMA ListedInLoop ==
    ASSUME DeliveryInv, RoomInv, [DeliveryNext]_deliveryVars, NEW r \in Requests,
           SameWork(r), req'[r].left = req[r].left, Concerned(r)', Listed(r),
           req[r].step \in Looping,
           \/ req'[r].step \in {"tokens", "invalidate", "payload"}
           \/ req'[r].step = "update" /\ req[r].op = "remove"
    PROVE  Listed(r)'
<1>1. Prepared(r)'
  BY StillPrepared DEF Listed
<1>2. \A s \in Followers(r)' : Owner[s] \in req'[r].left \/ CaughtUp(r, s)'
  BY StillListed DEF Listed
<1> QED
  BY <1>1, <1>2 DEF Listed

\* A step of another, which leaves the request and its task.
LEMMA ListedBystander ==
    ASSUME DeliveryInv, RoomInv, [DeliveryNext]_deliveryVars, NEW r \in Requests,
           req'[r] = req[r], cast'[r] = cast[r], Concerned(r)', Listed(r)
    PROVE  Listed(r)'
<1>1. SameWork(r)
  BY DEF SameWork
<1>2. Prepared(r)'
  BY <1>1, StillPrepared DEF Listed, Prepared
<1> QED
  BY <1>1, <1>2, StillListed DEF Listed

\* The commits.
LEMMA CommitListed ==
    ASSUME DeliveryInv, NEW r \in Requests, Concerned(r)',
           \/ \E op \in {"send", "change", "remove"}, u \in Users, c \in Chats :
                 Begin(r, op, u, c)
           \/ Commit(r) \/ CommitNothing(r) \/ CommitFails(r) \/ CommitRemoval(r)
    PROVE  Listed(r)'
<1>1. /\ req \in [Requests -> RequestStates]
      /\ version \in [DOMAIN version -> Nat]
  BY DEF DeliveryInv, LocalInv, RequestsTyped
<1>2. ASSUME NEW op \in {"send", "change", "remove"}, NEW u \in Users, NEW c \in Chats,
             Begin(r, op, u, c)
      PROVE  FALSE
  <2>1. req' = [req EXCEPT ![r].step = "commit", ![r].op = op, ![r].chat = c,
                           ![r].user = IF op = "send" THEN u ELSE NoUser]
    BY <1>2 DEF Begin
  <2>2. req'[r].step = "commit"
    BY <1>1, <2>1 DEF RequestStates
  <2> QED
    BY <2>2 DEF Concerned
<1>3. CASE Commit(r)
  <2>1. /\ req'[r].step = "reread" /\ req'[r].chat = req[r].chat
        /\ req'[r].at = version[req[r].chat] + 1 /\ req'[r].op # "remove"
    BY <1>1, <1>3 DEF Commit, Announce, RequestStates
  <2>2. version'[req[r].chat] = version[req[r].chat] + 1 /\ version[req[r].chat] \in Nat
    BY <1>1, <1>3 DEF Commit
  <2>3. req'[r].at <= version'[req'[r].chat]
    BY <2>1, <2>2
  <2> QED
    BY <2>1, <2>3 DEF Listed, Prepared, Looping
<1>4. CASE CommitNothing(r)
  <2>1. req'[r].step = "cast" /\ req'[r].at = 0 /\ req'[r].op = "change"
    BY <1>1, <1>4 DEF CommitNothing, Announce, RequestStates
  <2>2. version' = version /\ version'[req'[r].chat] \in Nat
    BY <1>1, <1>4, <2>1 DEF CommitNothing, Concerned, Brings
  <2>3. req'[r].at <= version'[req'[r].chat]
    BY <2>1, <2>2
  <2> QED
    BY <2>1, <2>3 DEF Listed, Prepared, Looping
<1>5. CASE CommitFails(r)
  <2>1. req'[r].step = "failed"
    BY <1>1, <1>5 DEF CommitFails, Answer, Nothing
  <2> QED
    BY <2>1 DEF Concerned
<1>6. CASE CommitRemoval(r)
  <2>1. /\ req'[r].op = "remove" /\ req'[r].step = "cast" /\ req'[r].chat = req[r].chat
        /\ req'[r].left = Members[req[r].chat]
    BY <1>1, <1>6 DEF CommitRemoval, RequestStates
  <2> QED
    BY <2>1 DEF Listed, Prepared, Looping
<1> QED
  BY <1>2, <1>3, <1>4, <1>5, <1>6

\* The second reading and the loop over the participants.
LEMMA LoopListed ==
    ASSUME DeliveryInv, RoomInv, VersionsPositive, [DeliveryNext]_deliveryVars,
           NEW r \in Requests, Concerned(r) => Listed(r), Concerned(r)',
           \/ Reread(r) \/ StartRoomCast(r) \/ ReadParticipants(r) \/ Push(r)
           \/ Invalidate(r) \/ ReadPayload(r) \/ AnswerOk(r)
           \/ \E p \in Users : NextUser(r, p)
    PROVE  Listed(r)'
<1>1. RequestsTyped /\ req \in [Requests -> RequestStates]
  BY DEF DeliveryInv, LocalInv, RequestsTyped
<1>2. ASSUME NEW step \in {"done", "failed"}, Answer(r, step) PROVE FALSE
  <2>1. req'[r].step = step
    BY <1>1, <1>2 DEF Answer, Nothing
  <2> QED
    BY <2>1 DEF Concerned
<1>3. ASSUME SameWork(r), req[r].step \notin {"idle", "commit", "done", "failed"}
      PROVE  Listed(r)
  BY <1>3, StillListed DEF Concerned
<1>4. CASE Reread(r)
  <2>1. Goto(r, "cast")
    BY <1>2, <1>4 DEF Reread
  <2>2. SameWork(r) /\ req'[r].step = "cast" /\ req'[r].left = req[r].left
    BY <1>1, <2>1, GotoFields
  <2>3. Listed(r) /\ req[r].step = "reread"
    BY <1>3, <1>4, <2>2 DEF Reread
  <2>4. req[r].op # "remove"
    BY <2>3 DEF Listed, Prepared
  <2> QED
    BY <2>2, <2>3, <2>4, ListedEarly
<1>5. CASE StartRoomCast(r)
  <2>1. SameWork(r) /\ req'[r].step = "casting" /\ req'[r].left = req[r].left
    BY <1>1, <1>5, GotoFields DEF StartRoomCast
  <2>2. Listed(r) /\ req[r].step = "cast"
    BY <1>3, <1>5, <2>1 DEF StartRoomCast
  <2> QED
    BY <2>1, <2>2, ListedEarly
<1>6. CASE Push(r) \/ Invalidate(r)
  <2>1. PICK step \in {"invalidate", "payload"} : Goto(r, step)
    BY <1>2, <1>6 DEF Push, Invalidate
  <2>2. SameWork(r) /\ req'[r].step = step /\ req'[r].left = req[r].left
    BY <1>1, <2>1, GotoFields
  <2>3. req[r].step \in {"tokens", "invalidate"}
    BY <1>6 DEF Push, Invalidate
  <2>4. Listed(r)
    BY <1>3, <2>2, <2>3
  <2> QED
    BY <2>2, <2>3, <2>4, ListedInLoop DEF Looping
<1>7. CASE \E p \in Users : NextUser(r, p)
  <2>1. PICK p \in Users : NextUser(r, p)
    BY <1>7
  <2>2. PICK step \in {"update", "tokens", "payload"} :
           /\ req' = [req EXCEPT ![r].who = p, ![r].step = step]
           /\ step = "update" => req[r].op = "remove"
    BY <2>1 DEF NextUser
  <2>3. SameWork(r) /\ req'[r].step = step /\ req'[r].left = req[r].left
    BY <1>1, <2>2 DEF SameWork, RequestStates
  <2>4. req[r].step = "next"
    BY <2>1 DEF NextUser
  <2>5. Listed(r)
    BY <1>3, <2>3, <2>4
  <2> QED
    BY <2>2, <2>3, <2>4, <2>5, ListedInLoop DEF Looping
<1>8. CASE ReadParticipants(r)
  <2>1. /\ SameWork(r) /\ req'[r].step = "next"
        /\ req'[r].left = IF req[r].chat \in DOMAIN version THEN Members[req[r].chat] ELSE {}
    BY <1>1, <1>8 DEF ReadParticipants, SameWork, RequestStates
  <2>2. Listed(r) /\ req[r].step = "lookup"
    BY <1>3, <1>8, <2>1 DEF ReadParticipants
  <2>3. req[r].op # "remove"
    BY <2>2 DEF Listed, Prepared
  <2>4. req[r].chat \in DOMAIN version
    BY <2>1, <2>3, StillListed DEF Brings
  <2>5. \A s \in Followers(r)' : Owner[s] \in req'[r].left
    BY <2>1, <2>4 DEF Followers, SameWork
  <2>6. Prepared(r)'
    BY <2>1, <2>2, <2>3, StillPrepared DEF Listed
  <2> QED
    BY <2>1, <2>5, <2>6 DEF Listed
<1>9. CASE ReadPayload(r)
  <2>1. req[r].chat \in DOMAIN version
    BY <1>2, <1>9 DEF ReadPayload
  <2>2. /\ SameWork(r) /\ req'[r].step = "update" /\ req'[r].left = req[r].left
        /\ req'[r].seen = version[req[r].chat]
    BY <1>1, <1>9, <2>1 DEF ReadPayload, SameWork, RequestStates
  <2>3. Listed(r) /\ req[r].step = "payload"
    BY <1>3, <1>9, <2>2 DEF ReadPayload
  <2>4. \A s \in Followers(r)' : Owner[s] \in req'[r].left \/ CaughtUp(r, s)'
    BY <2>2, <2>3, StillListed DEF Listed, Looping
  <2>5. /\ version[req[r].chat] \in Nat /\ version[req[r].chat] > 0 /\ req[r].at \in Nat
        /\ req[r].op # "remove" => req[r].at <= version[req[r].chat]
    BY <1>1, <2>1, <2>3 DEF RequestsTyped, RequestStates, VersionsPositive, Listed, Prepared
  <2>6. req[r].op # "remove" => req'[r].seen > 0 /\ req'[r].seen >= req[r].at
    BY <2>2, <2>5
  <2>7. Prepared(r)'
    BY <2>2, <2>3, <2>6, StillPrepared DEF Listed
  <2> QED
    BY <2>2, <2>4, <2>7 DEF Listed
<1>10. CASE AnswerOk(r)
  BY <1>2, <1>10 DEF AnswerOk
<1> QED
  BY <1>4, <1>5, <1>6, <1>7, <1>8, <1>9, <1>10

\* The broadcast to the sockets of one user: all of them are in its list, and each is
\* sent the payload or found closed.
LEMMA StartListed ==
    ASSUME DeliveryInv, RoomInv, [DeliveryNext]_deliveryVars, NEW r \in Requests,
           Concerned(r) => Listed(r), Concerned(r)', StartUserCast(r)
    PROVE  Listed(r)'
<1>1. RequestsTyped /\ TypeOK /\ IndInv /\ r \in Tasks
  BY DEF DeliveryInv, LocalInv, IndInv, Tasks
<1>2. /\ SameWork(r) /\ req'[r].step = "updating" /\ req'[r].left = req[r].left
      /\ req'[r].who = req[r].who /\ req'[r].seen = req[r].seen /\ req[r].step = "update"
  BY <1>1, GotoFields DEF StartUserCast
<1>3. Listed(r)
  BY <1>2, StillListed DEF Concerned
<1>4. /\ Followers(r)' \subseteq Followers(r)
      /\ \A s \in Followers(r)' : CaughtUp(r, s) => CaughtUp(r, s)'
  BY <1>2, StillListed
<1>5. Prepared(r)'
  BY <1>2, <1>3, StillPrepared DEF Listed, Prepared
<1>6. \A s \in Followers(r)' : Owner[s] \in req'[r].left \/ CaughtUp(r, s)'
  BY <1>2, <1>3, <1>4 DEF Listed, Looping
<1>7. cast'[r].todo = Lookup(req[r].who)
  BY <1>1 DEF StartUserCast, StartCast, Snapshot, TypeOK
<1>8. ASSUME NEW s \in Followers(r), Owner[s] = req[r].who PROVE s \in Lookup(req[r].who)
  <2>1. /\ s \in Sockets /\ peer[s] = "up" /\ s \in req[r].audience /\ Key(s) = req[r].who
    BY <1>8 DEF Followers, Stayed, EventSockets, Key
  <2>2. handler[s] \notin {"new", "accepted"}
    BY <2>1 DEF RoomInv
  <2> QED
    BY <1>1, <2>1, <2>2, OpenIsTarget
<1>9. \A s \in Followers(r)' : Owner[s] = req'[r].who => s \in cast'[r].todo
  BY <1>2, <1>4, <1>7, <1>8
<1> QED
  BY <1>2, <1>5, <1>6, <1>9 DEF Listed

LEMMA EndListed ==
    ASSUME DeliveryInv, RoomInv, [DeliveryNext]_deliveryVars, NEW r \in Requests,
           Concerned(r) => Listed(r), Concerned(r)', EndCast(r)
    PROVE  Listed(r)'
<1>1. RequestsTyped /\ req \in [Requests -> RequestStates]
  BY DEF DeliveryInv, LocalInv, RequestsTyped
<1>2. cast[r].todo = {} /\ req[r].step \in {"casting", "updating"}
  BY DEF EndCast, Finish, DeliveryInv, InStep
<1>3. ASSUME SameWork(r) PROVE Listed(r)
  BY <1>2, <1>3, StillListed DEF Concerned
<1>4. CASE req[r].step = "casting"
  <2>1. Goto(r, IF req[r].op = "remove" THEN "next" ELSE "lookup")
    BY <1>4 DEF EndCast, AfterCast
  <2>2. /\ SameWork(r) /\ req'[r].left = req[r].left
        /\ req'[r].step = IF req[r].op = "remove" THEN "next" ELSE "lookup"
    BY <1>1, <2>1, GotoFields
  <2>3. Listed(r)
    BY <1>3, <2>2
  <2>4. CASE req[r].op # "remove"
    BY <2>2, <2>3, <2>4, ListedEarly
  <2>5. CASE req[r].op = "remove"
    <3>1. req'[r].left = Members[req[r].chat] /\ req'[r].step = "next"
      BY <1>4, <2>2, <2>3, <2>5 DEF Listed, Prepared
    <3>2. \A s \in Followers(r)' : Owner[s] \in req'[r].left
      BY <2>2, <3>1 DEF Followers, SameWork
    <3>3. Prepared(r)'
      BY <2>2, <2>3, <2>5, <3>1, StillPrepared DEF Listed
    <3> QED
      BY <3>1, <3>2, <3>3 DEF Listed
  <2> QED
    BY <2>4, <2>5
<1>5. CASE req[r].step = "updating"
  <2>1. /\ SameWork(r) /\ req'[r].step = "next" /\ req'[r].left = req[r].left \ {req[r].who}
    BY <1>1, <1>5 DEF EndCast, AfterCast, SameWork, RequestStates
  <2>2. Listed(r)
    BY <1>3, <2>1
  <2>3. \A s \in Followers(r) :
           Owner[s] \in req[r].left \ {req[r].who} \/ CaughtUp(r, s)
    BY <1>2, <1>5, <2>2 DEF Listed, Looping
  <2>4. \A s \in Followers(r)' : Owner[s] \in req'[r].left \/ CaughtUp(r, s)'
    BY <2>1, <2>3, StillListed
  <2>5. Prepared(r)'
    BY <2>1, <2>2, StillPrepared DEF Listed
  <2> QED
    BY <2>1, <2>4, <2>5 DEF Listed
<1> QED
  BY <1>2, <1>4, <1>5

LEMMA DeliverListed ==
    ASSUME DeliveryInv, RoomInv, [DeliveryNext]_deliveryVars, NEW r \in Requests,
           Concerned(r) => Listed(r), Concerned(r)', NEW s \in Sockets, Deliver(r, s)
    PROVE  Listed(r)'
<1>1. /\ RequestsTyped /\ req \in [Requests -> RequestStates] /\ TypeOK /\ r \in Tasks
      /\ shown \in [EventSockets -> [Chats -> Nat]] /\ DOMAIN version \subseteq Chats
      /\ peer[s] \in {"up", "gone"}
  BY DEF DeliveryInv, LocalInv, RequestsTyped, IndInv, TypeOK, Tasks
<1>2. req[r].step \in {"casting", "updating"}
  BY DEF Deliver, Send, DeliveryInv, InStep
<1>3. /\ SameWork(r) /\ req'[r].step = req[r].step /\ req'[r].left = req[r].left
      /\ req'[r].who = req[r].who /\ req'[r].seen = req[r].seen
  <2>1. req' = req \/ req' = [req EXCEPT ![r].told = @ \cup {s}]
    BY DEF Deliver
  <2> QED
    BY <1>1, <2>1 DEF SameWork, RequestStates
<1>4. Listed(r) /\ Brings(r)
  BY <1>2, <1>3, StillListed DEF Concerned
<1>5. CASE req[r].step = "casting"
  BY <1>3, <1>4, <1>5, ListedEarly
<1>6. CASE req[r].step = "updating"
  <2>1. cast'[r].todo = cast[r].todo \ {s} /\ peer' = peer
    <3>1. CASE peer[s] = "up"
      BY <1>1, <3>1 DEF Deliver, Send, TypeOK
    <3>2. CASE peer[s] # "up"
      BY <1>1, <3>2 DEF Deliver, Send, TypeOK
    <3> QED
      BY <3>1, <3>2
  <2>2. ASSUME s \in EventSockets, peer[s] = "up" PROVE CaughtUp(r, s)'
    <3>1. CASE req[r].op = "remove"
      <4>1. req' = [req EXCEPT ![r].told = @ \cup {s}]
        BY <2>2, <3>1 DEF Deliver
      <4>2. s \in req'[r].told
        BY <1>1, <4>1 DEF RequestStates
      <4> QED
        BY <1>3, <3>1, <4>2 DEF CaughtUp, SameWork
    <3>2. CASE req[r].op # "remove"
      <4>1. PICK c \in Chats : c = req[r].chat
        BY <1>1, <1>4, <3>2 DEF Brings
      <4>2. shown' = [shown EXCEPT ![s][c] = IF req[r].seen > @ THEN req[r].seen ELSE @]
        BY <1>6, <2>2, <3>2, <4>1 DEF Deliver
      <4>3. shown'[s][c] = IF req[r].seen > shown[s][c] THEN req[r].seen ELSE shown[s][c]
        BY <1>1, <2>2, <4>2
      <4>4. shown[s][c] \in Nat /\ req[r].seen \in Nat /\ req[r].at \in Nat
        BY <1>1, <2>2 DEF RequestStates
      <4>5. req[r].seen > 0 /\ req[r].seen >= req[r].at
        BY <1>4, <1>6, <3>2 DEF Listed, Prepared
      <4>6. shown'[s][c] > 0 /\ shown'[s][c] >= req[r].at
        BY <4>3, <4>4, <4>5
      <4> QED
        BY <1>3, <3>2, <4>1, <4>6 DEF CaughtUp, SameWork
    <3> QED
      BY <3>1, <3>2
  <2>3. \A t \in Followers(r)' : t \in EventSockets /\ peer[t] = "up"
    BY <2>1 DEF Followers, Stayed
  <2>4. \A t \in Followers(r)' :
           Owner[t] = req'[r].who => t \in cast'[r].todo \/ CaughtUp(r, t)'
    BY <1>3, <1>4, <1>6, <2>1, <2>2, <2>3, StillListed DEF Listed
  <2>5. \A t \in Followers(r)' : Owner[t] \in req'[r].left \/ CaughtUp(r, t)'
    BY <1>3, <1>4, <1>6, StillListed DEF Listed, Looping
  <2>6. Prepared(r)'
    BY <1>3, <1>4, <1>6, StillPrepared DEF Listed, Prepared
  <2> QED
    BY <2>4, <2>5, <2>6 DEF Listed
<1> QED
  BY <1>2, <1>5, <1>6

LEMMA StepListInv ==
    DeliveryInv /\ RoomInv /\ ListInv /\ [DeliveryNext]_deliveryVars => ListInv'
<1> SUFFICES ASSUME DeliveryInv, RoomInv, ListInv, [DeliveryNext]_deliveryVars
             PROVE  ListInv'
  OBVIOUS
<1>1. TypeOK /\ RequestsTyped
  BY DEF DeliveryInv, IndInv, LocalInv
<1>2. VersionsPositive /\ \A r \in Requests : Concerned(r) => Listed(r)
  BY ListInvIsListed
<1>3. VersionsPositive'
  <2>1. /\ DOMAIN version' \subseteq DOMAIN version
        /\ \A c \in DOMAIN version' : version'[c] >= version[c]
    BY Growth
  <2>2. version \in [DOMAIN version -> Nat] /\ version' \in [DOMAIN version' -> Nat]
    BY <1>1, StepDelivery DEF DeliveryInv, LocalInv, RequestsTyped
  <2>3. SUFFICES ASSUME NEW c \in DOMAIN version' PROVE version'[c] > 0
    BY DEF VersionsPositive
  <2>4. version[c] > 0 /\ version[c] \in Nat /\ version'[c] \in Nat /\ version'[c] >= version[c]
    BY <1>2, <2>1, <2>2 DEF VersionsPositive
  <2> QED
    BY <2>4
<1>4. ASSUME NEW r \in Requests, Concerned(r)' PROVE Listed(r)'
  <2>1. ASSUME req'[r] = req[r], cast'[r] = cast[r] PROVE Listed(r)'
    <3>1. Listed(r)
      BY <1>2, <1>4, <2>1, StillListed DEF Concerned, SameWork
    <3> QED
      BY <1>4, <2>1, <3>1, ListedBystander
  <2>2. CASE SocketStep
    BY <1>1, <2>1, <2>2, SocketsKeepTasks DEF SocketStep, delivery
  <2>3. ASSUME NEW p \in Requests, p # r, RequestStep(p) PROVE Listed(r)'
    BY <1>1, <2>1, <2>3, RequestsKeepTasks
  <2>4. CASE UNCHANGED deliveryVars
    BY <2>1, <2>4 DEF deliveryVars, vars, delivery
  <2>5. CASE RequestStep(r)
    BY <1>2, <1>4, <2>5, CommitListed, LoopListed, StartListed, EndListed, DeliverListed
       DEF RequestStep
  <2> QED
    BY <2>2, <2>3, <2>4, <2>5 DEF DeliveryNext
<1>5. (\A r \in Requests : Concerned(r) => Listed(r))'
  BY <1>4
<1>6. (VersionsPositive /\ \A r \in Requests : Concerned(r) => Listed(r))' => ListInv'
  BY ListInvIsListed, PTL
<1> QED
  BY <1>3, <1>5, <1>6

\* Only the end of the loop answers with success.
LEMMA DoneInLoop ==
    ASSUME DeliveryInv, [DeliveryNext]_deliveryVars, NEW r \in Requests,
           req[r].step # "done", req'[r].step = "done"
    PROVE  req[r].step = "next" /\ req[r].left = {}
<1>1. TypeOK /\ RequestsTyped /\ InStep /\ req \in [Requests -> RequestStates]
  BY DEF DeliveryInv, IndInv, LocalInv, RequestsTyped
<1>2. RequestStep(r)
  <2>1. ASSUME NEW p \in Requests, p # r, RequestStep(p) PROVE FALSE
    BY <1>1, <2>1, RequestsKeepTasks
  <2> QED
    BY <2>1 DEF DeliveryNext, SocketStep, delivery, deliveryVars
<1>3. CASE AnswerOk(r)
  BY <1>3 DEF AnswerOk
<1>4. ASSUME Answer(r, "failed") PROVE FALSE
  BY <1>1, <1>4 DEF Answer, Nothing
<1>5. ASSUME NEW step, step # "done", Goto(r, step) PROVE FALSE
  BY <1>1, <1>5, GotoFields
<1>6. ASSUME NEW op \in {"send", "change", "remove"}, NEW u \in Users, NEW c \in Chats,
             Begin(r, op, u, c)
      PROVE  FALSE
  <2>1. req' = [req EXCEPT ![r].step = "commit", ![r].op = op, ![r].chat = c,
                           ![r].user = IF op = "send" THEN u ELSE NoUser]
    BY <1>6 DEF Begin
  <2>2. req'[r].step = "commit"
    BY <1>1, <2>1 DEF RequestStates
  <2> QED
    BY <2>2
<1>7. ASSUME NEW p \in Users, NextUser(r, p) PROVE FALSE
  <2>1. PICK step \in {"update", "tokens", "payload"} :
           req' = [req EXCEPT ![r].who = p, ![r].step = step]
    BY <1>7 DEF NextUser
  <2>2. req'[r].step = step
    BY <1>1, <2>1 DEF RequestStates
  <2> QED
    BY <2>1, <2>2
<1>8. CASE Commit(r) \/ CommitNothing(r) \/ CommitRemoval(r) \/ ReadParticipants(r)
  BY <1>1, <1>8 DEF Commit, CommitNothing, Announce, CommitRemoval, ReadParticipants,
                    RequestStates
<1>9. CASE Reread(r) \/ CommitFails(r) \/ Push(r) \/ Invalidate(r)
  BY <1>4, <1>5, <1>9 DEF Reread, CommitFails, Push, Invalidate
<1>10. CASE StartRoomCast(r) \/ StartUserCast(r)
  BY <1>5, <1>10 DEF StartRoomCast, StartUserCast
<1>11. ASSUME EndCast(r) PROVE FALSE
  <2>1. CASE req[r].step = "updating"
    <3>1. req' = [req EXCEPT ![r].step = "next", ![r].left = @ \ {req[r].who},
                             ![r].who = NoUser, ![r].seen = 0]
      BY <1>11, <2>1 DEF EndCast, AfterCast
    <3>2. req'[r].step = "next"
      BY <1>1, <3>1 DEF RequestStates
    <3> QED
      BY <3>2
  <2>2. CASE req[r].step # "updating"
    <3>1. PICK step \in {"next", "lookup"} : Goto(r, step)
      BY <1>11, <2>2 DEF EndCast, AfterCast
    <3> QED
      BY <1>5, <3>1
  <2> QED
    BY <2>1, <2>2
<1>12. ASSUME NEW s \in Sockets, Deliver(r, s) PROVE FALSE
  <2>1. req' = req \/ req' = [req EXCEPT ![r].told = @ \cup {s}]
    BY <1>12 DEF Deliver
  <2>2. req'[r].step = req[r].step
    BY <1>1, <2>1 DEF RequestStates
  <2> QED
    BY <2>2
<1>13. CASE ReadPayload(r)
  BY <1>1, <1>4, <1>13 DEF ReadPayload, RequestStates
<1> QED
  BY <1>2, <1>3, <1>6, <1>8, <1>9, <1>10, <1>11, <1>13, <1>7, <1>12 DEF RequestStep

\* However requests to this chat and to others interleave and sockets come and go:
\* who follows the list of chats has, at the answer, been sent of this very chat what
\* the request committed or something newer, or else its deletion.
THEOREM ListsCatchUp == DeliverySpec => ListCatchesUp
<1>1. DeliveryInit => ListInv
  BY DEF DeliveryInit, ListInv, Nothing
<1>2. DeliverySpec => []ListInv
  BY <1>1, StepListInv, DeliveryInvariance, RoomInvariance, PTL DEF DeliverySpec
<1>3. DeliveryInv /\ ListInv /\ [DeliveryNext]_deliveryVars =>
        [\A r \in Requests :
            (req[r].step # "done" /\ req'[r].step = "done" /\ Brings(r)) =>
                \A s \in Followers(r) : CaughtUp(r, s)]_deliveryVars
  <2> SUFFICES ASSUME DeliveryInv, ListInv, [DeliveryNext]_deliveryVars, NEW r \in Requests,
                      req[r].step # "done", req'[r].step = "done", Brings(r)
               PROVE  \A s \in Followers(r) : CaughtUp(r, s)
    OBVIOUS
  <2>1. req[r].step = "next" /\ req[r].left = {}
    BY DoneInLoop
  <2>2. Listed(r)
    BY <2>1, ListInvIsListed DEF Concerned
  <2> QED
    BY <2>1, <2>2 DEF Listed, Looping
<1> QED
  BY <1>2, <1>3, DeliveryInvariance, PTL DEF DeliverySpec, ListCatchesUp
=============================================================================
