----------------------- MODULE ConnectionManagerProofs -----------------------
(***************************************************************************)
(* Safety of the WebSocket registry for every set of users, chats, sockets *)
(* and requests.  The inductive invariant is IndInv of ConnectionManager;  *)
(* the two lemmas below say once what registering a socket and discarding  *)
(* sockets do to the registry, and each action's step cites the one it     *)
(* needs.                                                                  *)
(***************************************************************************)
EXTENDS ConnectionManager, TLAPS

LEMMA KeyIsKey == \A s \in Sockets : Key(s) \in Keys
BY ConnectionConstants DEF Key, Keys, EventSockets

(***************************************************************************)
(* connect_user, connect_chat: one more socket is registered.              *)
(***************************************************************************)
LEMMA BindRegisters ==
    ASSUME TypeOK, RegistryConsistent, NEW s \in Sockets,
           conns' = Bind(conns, Key(s), Lookup(Key(s)) \cup {s})
    PROVE  /\ DOMAIN conns' \subseteq Keys
           /\ conns' \in [DOMAIN conns' -> SUBSET Sockets]
           /\ \A k \in DOMAIN conns' :
                 conns'[k] # {} /\ \A r \in conns'[k] : Key(r) = k
           /\ \A r \in Sockets : Registered(r)' <=> (Registered(r) \/ r = s)
<1>1. Key(s) \in Keys
  BY KeyIsKey
<1>2. DOMAIN conns' = DOMAIN conns \cup {Key(s)}
  BY DEF Bind
<1>3. \A k \in DOMAIN conns' :
         conns'[k] = IF k = Key(s) THEN Lookup(k) \cup {s} ELSE conns[k]
  BY <1>2 DEF Bind
<1>4. Lookup(Key(s)) \subseteq {r \in Sockets : Key(r) = Key(s)}
  BY DEF Lookup, TypeOK, RegistryConsistent
<1>5. conns' \in [DOMAIN conns' -> SUBSET Sockets]
  BY <1>2, <1>3, <1>4 DEF Bind, TypeOK
<1>6. \A r \in Sockets : Registered(r)' <=> (Registered(r) \/ r = s)
  BY <1>2, <1>3 DEF Registered, Lookup
<1>7. \A k \in DOMAIN conns' :
         conns'[k] # {} /\ \A r \in conns'[k] : Key(r) = k
  <2> SUFFICES ASSUME NEW k \in DOMAIN conns'
               PROVE  conns'[k] # {} /\ \A r \in conns'[k] : Key(r) = k
    OBVIOUS
  <2>1. CASE k = Key(s)
    <3>1. conns'[k] = Lookup(Key(s)) \cup {s}
      BY <1>3, <2>1
    <3> QED
      BY <1>4, <2>1, <3>1
  <2>2. CASE k # Key(s)
    <3>1. k \in DOMAIN conns /\ conns'[k] = conns[k]
      BY <1>2, <1>3, <2>2
    <3> QED
      BY <3>1 DEF RegistryConsistent
  <2> QED
    BY <2>1, <2>2
<1> QED
  BY <1>1, <1>2, <1>5, <1>6, <1>7 DEF TypeOK

(***************************************************************************)
(* disconnect_* and pruning: exactly the discarded sockets are gone.       *)
(***************************************************************************)
LEMMA DiscardUnregisters ==
    ASSUME TypeOK, RegistryConsistent, NEW k \in Keys, NEW S \in SUBSET Sockets,
           \A r \in S : Key(r) = k,
           conns' = Discard(k, S)
    PROVE  /\ DOMAIN conns' \subseteq Keys
           /\ conns' \in [DOMAIN conns' -> SUBSET Sockets]
           /\ \A j \in DOMAIN conns' :
                 conns'[j] # {} /\ \A r \in conns'[j] : Key(r) = j
           /\ \A r \in Sockets : Registered(r)' <=> (Registered(r) /\ r \notin S)
<1>1. CASE Lookup(k) \subseteq S
  <2>1. DOMAIN conns' = DOMAIN conns \ {k} /\ \A j \in DOMAIN conns' : conns'[j] = conns[j]
    BY <1>1 DEF Discard, Pop, Restrict
  <2>2. conns' \in [DOMAIN conns' -> SUBSET Sockets]
    BY <1>1, <2>1 DEF Discard, Pop, Restrict, TypeOK
  <2>3. \A r \in Sockets : Registered(r)' <=> (Registered(r) /\ r \notin S)
    BY <1>1, <2>1 DEF Registered, Lookup
  <2> QED
    BY <2>1, <2>2, <2>3 DEF TypeOK, RegistryConsistent
<1>2. CASE ~(Lookup(k) \subseteq S)
  <2>1. k \in DOMAIN conns /\ Lookup(k) = conns[k]
    BY <1>2 DEF Lookup
  <2>2. /\ DOMAIN conns' = DOMAIN conns
        /\ \A j \in DOMAIN conns : conns'[j] = IF j = k THEN conns[k] \ S ELSE conns[j]
    BY <1>2, <2>1 DEF Discard, TypeOK
  <2>3. conns' \in [DOMAIN conns' -> SUBSET Sockets]
    BY <1>2, <2>1, <2>2 DEF Discard, TypeOK
  <2>4. \A r \in Sockets : Registered(r)' <=> (Registered(r) /\ r \notin S)
    BY <2>1, <2>2 DEF Registered, Lookup
  <2>5. \A j \in DOMAIN conns' :
           conns'[j] # {} /\ \A r \in conns'[j] : Key(r) = j
    BY <1>2, <2>1, <2>2 DEF RegistryConsistent
  <2> QED
    BY <2>2, <2>3, <2>4, <2>5 DEF TypeOK
<1> QED
  BY <1>1, <1>2

(***************************************************************************)
(* Most steps leave the registry alone.                                    *)
(***************************************************************************)
LEMMA RegistryUntouched ==
    ASSUME RegistryConsistent, UNCHANGED registry
    PROVE  /\ RegistryConsistent'
           /\ \A r \in Sockets : Registered(r)' <=> Registered(r)
BY DEF RegistryConsistent, Registered, Lookup, registry

(***************************************************************************)
(* The two reverse maps after sockets have been discarded.                 *)
(***************************************************************************)
LEMMA PopFollowsDiscard ==
    ASSUME TypeOK, RegistryConsistent, NEW k \in Keys, NEW S \in SUBSET Sockets,
           \A r \in S : Key(r) = k,
           conns' = Discard(k, S),
           connUser' = Pop(connUser, S),
           connChat' = Pop(connChat, S)
    PROVE  /\ RegistryConsistent'
           /\ DOMAIN conns' \subseteq Keys
           /\ conns' \in [DOMAIN conns' -> SUBSET Sockets]
           /\ DOMAIN connUser' \subseteq Sockets
           /\ connUser' \in [DOMAIN connUser' -> Users]
           /\ DOMAIN connChat' \subseteq Sockets
           /\ connChat' \in [DOMAIN connChat' -> Chats]
           /\ \A r \in Sockets : Registered(r)' <=> (Registered(r) /\ r \notin S)
<1>1. /\ DOMAIN conns' \subseteq Keys
      /\ conns' \in [DOMAIN conns' -> SUBSET Sockets]
      /\ \A j \in DOMAIN conns' :
            conns'[j] # {} /\ \A r \in conns'[j] : Key(r) = j
      /\ \A r \in Sockets : Registered(r)' <=> (Registered(r) /\ r \notin S)
  BY DiscardUnregisters
<1>2. /\ connUser' = [r \in DOMAIN connUser \ S |-> connUser[r]]
      /\ connChat' = [r \in DOMAIN connChat \ S |-> connChat[r]]
  BY DEF Pop, Restrict
<1>3. /\ DOMAIN connUser' \subseteq Sockets
      /\ connUser' \in [DOMAIN connUser' -> Users]
      /\ DOMAIN connChat' \subseteq Sockets
      /\ connChat' \in [DOMAIN connChat' -> Chats]
  BY <1>2 DEF TypeOK
<1>4. DOMAIN connUser' = {r \in Sockets : Registered(r)'}
  BY <1>1, <1>2 DEF RegistryConsistent
<1>5. DOMAIN connChat' = {r \in ChatSockets : Registered(r)'}
  BY <1>1, <1>2 DEF RegistryConsistent, ChatSockets
<1>6. /\ \A r \in DOMAIN connUser' : connUser'[r] = Owner[r]
      /\ \A r \in DOMAIN connChat' : connChat'[r] = Room[r]
  BY <1>2 DEF RegistryConsistent
<1>7. RegistryConsistent'
  BY <1>1, <1>4, <1>5, <1>6 DEF RegistryConsistent
<1> QED
  BY <1>1, <1>3, <1>7

-----------------------------------------------------------------------------
(***************************************************************************)
(* Init and the actions, one lemma each where the registry changes.        *)
(***************************************************************************)
LEMMA InitIndInv == Init => IndInv
<1> SUFFICES ASSUME Init PROVE IndInv
  OBVIOUS
<1>1. DOMAIN conns = {} /\ DOMAIN connUser = {} /\ DOMAIN connChat = {}
  BY DEF Init
<1>2. \A s \in Sockets : ~Registered(s)
  BY <1>1 DEF Registered, Lookup
<1>3. TypeOK
  BY <1>1 DEF Init, TypeOK, Idle, HandlerStates
<1>4. RegistryConsistent
  BY <1>1, <1>2 DEF RegistryConsistent, ChatSockets
<1>5. LiveSocketsRegistered /\ RegisteredHandlers
  BY <1>2 DEF Init, LiveSocketsRegistered, RegisteredHandlers
<1>6. BroadcastsSound
  BY DEF Init, BroadcastsSound, Idle
<1> QED
  BY <1>3, <1>4, <1>5, <1>6 DEF IndInv

\* Refuse, Accept, Greet, Drop, Hangup, BadFrame: one coroutine or one
\* connection moves on, the registry and the broadcasts stay.
LEMMA QuietSteps ==
    ASSUME IndInv, NEW s \in Sockets,
           \/ Refuse(s) \/ Accept(s) \/ Greet(s) \/ Drop(s) \/ Hangup(s) \/ BadFrame(s)
    PROVE  IndInv'
<1> USE DEF IndInv
<1>1. UNCHANGED registry /\ UNCHANGED cast
  BY DEF Refuse, Accept, Greet, Drop, Hangup, BadFrame
<1>2. RegistryConsistent' /\ \A r \in Sockets : Registered(r)' <=> Registered(r)
  BY <1>1, RegistryUntouched
<1>3. TypeOK'
  BY <1>1 DEF TypeOK, Refuse, Accept, Greet, Drop, Hangup, BadFrame, HandlerStates, registry
<1>4. LiveSocketsRegistered'
  BY <1>2 DEF LiveSocketsRegistered, TypeOK,
              Refuse, Accept, Greet, Drop, Hangup, BadFrame
<1>5. RegisteredHandlers'
  BY <1>2 DEF RegisteredHandlers, TypeOK, Refuse, Accept, Greet, Drop, Hangup, BadFrame
<1>6. BroadcastsSound'
  <2> SUFFICES ASSUME NEW t \in Tasks
               PROVE  /\ cast'[t].phase = "sending" => cast'[t].key \in Keys
                      /\ cast'[t].phase = "idle" => cast'[t].todo = {} /\ cast'[t].sent = {}
                      /\ \A r \in cast'[t].todo \cup cast'[t].stale :
                            Key(r) = cast'[t].key
                      /\ \A r \in cast'[t].stale : peer'[r] = "gone"
                      /\ (t \in Sockets /\ cast'[t].phase = "sending")
                            => handler'[t] = "typing"
    BY DEF BroadcastsSound
  <2>1. \A r \in Sockets : peer[r] = "gone" => peer'[r] = "gone"
    BY DEF TypeOK, Refuse, Accept, Greet, Drop, Hangup, BadFrame
  <2>2. \A r \in Sockets : handler[r] = "typing" => handler'[r] = "typing"
    BY DEF TypeOK, Refuse, Accept, Greet, Drop, Hangup, BadFrame
  <2>3. cast[t].stale \subseteq Sockets
    BY DEF TypeOK
  <2> QED
    BY <1>1, <2>1, <2>2, <2>3 DEF BroadcastsSound
<1> QED
  BY <1>2, <1>3, <1>4, <1>5, <1>6

LEMMA RegisterStep ==
    ASSUME IndInv, NEW s \in Sockets, Register(s)
    PROVE  IndInv'
<1> USE DEF IndInv
<1>1. /\ DOMAIN conns' \subseteq Keys
      /\ conns' \in [DOMAIN conns' -> SUBSET Sockets]
      /\ \A k \in DOMAIN conns' :
            conns'[k] # {} /\ \A r \in conns'[k] : Key(r) = k
      /\ \A r \in Sockets : Registered(r)' <=> (Registered(r) \/ r = s)
  BY BindRegisters DEF Register
<1>2. /\ connUser' = [r \in DOMAIN connUser \cup {s} |->
                        IF r = s THEN Owner[s] ELSE connUser[r]]
      /\ connChat' = IF s \in ChatSockets
                     THEN [r \in DOMAIN connChat \cup {s} |->
                             IF r = s THEN Room[s] ELSE connChat[r]]
                     ELSE connChat
  BY DEF Register, Bind
<1>3. Owner[s] \in Users /\ (s \in ChatSockets => Room[s] \in Chats)
  BY ConnectionConstants DEF ChatSockets, EventSockets
<1>4. /\ DOMAIN connUser' \subseteq Sockets
      /\ connUser' \in [DOMAIN connUser' -> Users]
  BY <1>2, <1>3 DEF TypeOK
<1>5. /\ DOMAIN connChat' \subseteq Sockets
      /\ connChat' \in [DOMAIN connChat' -> Chats]
  BY <1>2, <1>3 DEF TypeOK
<1>6. TypeOK'
  <2>1. /\ handler' \in [Sockets -> HandlerStates]
        /\ peer' = peer /\ cast' = cast
    BY DEF Register, TypeOK, HandlerStates
  <2> QED
    BY <1>1, <1>4, <1>5, <2>1 DEF TypeOK
<1>7. RegistryConsistent'
  <2>1. DOMAIN connUser' = {r \in Sockets : Registered(r)'}
    BY <1>1, <1>2 DEF RegistryConsistent
  <2>2. DOMAIN connChat' = {r \in ChatSockets : Registered(r)'}
    BY <1>1, <1>2 DEF RegistryConsistent, ChatSockets
  <2>3. /\ \A r \in DOMAIN connUser' : connUser'[r] = Owner[r]
        /\ \A r \in DOMAIN connChat' : connChat'[r] = Room[r]
    BY <1>2 DEF RegistryConsistent
  <2> QED
    BY <1>1, <2>1, <2>2, <2>3 DEF RegistryConsistent
<1>8. LiveSocketsRegistered' /\ RegisteredHandlers'
  BY <1>1 DEF Register, TypeOK, LiveSocketsRegistered, RegisteredHandlers
<1>9. BroadcastsSound'
  BY DEF Register, TypeOK, BroadcastsSound
<1> QED
  BY <1>6, <1>7, <1>8, <1>9

\* The snapshot of a broadcast holds sockets of one key.
LEMMA SnapshotSound ==
    ASSUME TypeOK, RegistryConsistent, NEW k \in Keys
    PROVE  /\ Snapshot(k) \in
                [phase : {"idle", "sending"}, key : Keys \cup {NoKey},
                 todo : SUBSET Sockets, sent : SUBSET Sockets, stale : SUBSET Sockets]
           /\ \A r \in Snapshot(k).todo : Key(r) = k
BY DEF Snapshot, Lookup, TypeOK, RegistryConsistent

LEMMA StartSteps ==
    ASSUME IndInv,
           \/ \E s \in Sockets : Typing(s)
           \/ \E t \in Requests, k \in Keys : StartCast(t, k)
    PROVE  IndInv'
<1> USE DEF IndInv
<1>1. UNCHANGED registry /\ UNCHANGED peer
  BY DEF Typing, StartCast
<1>2. RegistryConsistent' /\ \A r \in Sockets : Registered(r)' <=> Registered(r)
  BY <1>1, RegistryUntouched
<1>3. /\ \/ handler' = handler
         \/ \E s \in Sockets : /\ handler[s] = "open"
                               /\ handler' = [handler EXCEPT ![s] = "typing"]
  BY DEF Typing, StartCast
<1>4. PICK t \in Tasks, k \in Keys :
         /\ cast' = [cast EXCEPT ![t] = Snapshot(k)]
         /\ t \in Sockets => handler' = [handler EXCEPT ![t] = "typing"]
  BY ConnectionConstants DEF Typing, StartCast, Tasks, Keys, ChatSockets, EventSockets
<1>5. TypeOK'
  BY <1>1, <1>3, <1>4, SnapshotSound DEF TypeOK, HandlerStates, registry
<1>6. LiveSocketsRegistered' /\ RegisteredHandlers'
  BY <1>1, <1>2, <1>3 DEF TypeOK, LiveSocketsRegistered, RegisteredHandlers
<1>7. BroadcastsSound'
  <2> SUFFICES ASSUME NEW u \in Tasks
               PROVE  /\ cast'[u].phase = "sending" => cast'[u].key \in Keys
                      /\ cast'[u].phase = "idle" => cast'[u].todo = {} /\ cast'[u].sent = {}
                      /\ \A r \in cast'[u].todo \cup cast'[u].stale :
                            Key(r) = cast'[u].key
                      /\ \A r \in cast'[u].stale : peer'[r] = "gone"
                      /\ (u \in Sockets /\ cast'[u].phase = "sending")
                            => handler'[u] = "typing"
    BY DEF BroadcastsSound
  <2>1. CASE u = t
    <3>1. cast'[u] = Snapshot(k)
      BY <1>4, <2>1 DEF TypeOK
    <3>2. u \in Sockets => handler'[u] = "typing"
      BY <1>4, <2>1 DEF TypeOK
    <3> QED
      BY <3>1, <3>2, SnapshotSound DEF Snapshot
  <2>2. CASE u # t
    <3>1. cast'[u] = cast[u]
      BY <1>4, <2>2 DEF TypeOK
    <3>2. u \in Sockets /\ handler[u] = "typing" => handler'[u] = "typing"
      BY <1>3 DEF TypeOK
    <3> QED
      BY <1>1, <3>1, <3>2 DEF BroadcastsSound
  <2> QED
    BY <2>1, <2>2
<1> QED
  BY <1>2, <1>5, <1>6, <1>7

LEMMA SendStep ==
    ASSUME IndInv, NEW t \in Tasks, NEW s \in Sockets, Send(t, s)
    PROVE  IndInv'
<1> USE DEF IndInv
<1>1. UNCHANGED registry /\ handler' = handler /\ peer' = peer
  BY DEF Send
<1>2. RegistryConsistent' /\ \A r \in Sockets : Registered(r)' <=> Registered(r)
  BY <1>1, RegistryUntouched
<1>3. TypeOK'
  <2> DEFINE Broadcast == [phase : {"idle", "sending"}, key : Keys \cup {NoKey},
                           todo : SUBSET Sockets, sent : SUBSET Sockets,
                           stale : SUBSET Sockets]
             Sent == [cast[t] EXCEPT !.todo = @ \ {s}, !.sent = @ \cup {s}]
             Failed == [cast[t] EXCEPT !.todo = @ \ {s}, !.stale = @ \cup {s}]
  <2>1. cast \in [Tasks -> Broadcast] /\ cast[t] \in Broadcast
    BY DEF TypeOK
  <2>2. cast' = [cast EXCEPT ![t] = Sent] \/ cast' = [cast EXCEPT ![t] = Failed]
    BY <2>1 DEF Send
  <2>3. Sent \in Broadcast /\ Failed \in Broadcast
    BY <2>1
  <2>4. cast' \in [Tasks -> Broadcast]
    <3> HIDE DEF Broadcast, Sent, Failed
    <3> QED
      BY <2>1, <2>2, <2>3
  <2> QED
    BY <1>1, <2>4 DEF TypeOK, registry
<1>4. LiveSocketsRegistered' /\ RegisteredHandlers'
  BY <1>1, <1>2 DEF LiveSocketsRegistered, RegisteredHandlers
<1>5. BroadcastsSound'
  <2>1. \A u \in Tasks : u # t => cast'[u] = cast[u]
    BY DEF Send, TypeOK
  <2>2. /\ cast'[t].phase = "sending" /\ cast'[t].key = cast[t].key
        /\ cast'[t].todo = cast[t].todo \ {s}
        /\ \/ peer[s] = "up" /\ cast'[t].stale = cast[t].stale
           \/ peer[s] = "gone" /\ cast'[t].stale = cast[t].stale \cup {s}
    BY DEF Send, TypeOK
  <2>3. cast[t].phase = "sending" /\ s \in cast[t].todo
    BY DEF Send
  <2> QED
    BY <1>1, <2>1, <2>2, <2>3 DEF BroadcastsSound
<1> QED
  BY <1>2, <1>3, <1>4, <1>5

\* What disconnect_user and disconnect_chat do to the registry, early return or not.
LEMMA DisconnectUnfiles ==
    ASSUME IndInv, NEW s \in Sockets, Disconnect(s)
    PROVE  /\ RegistryConsistent'
           /\ DOMAIN conns' \subseteq Keys
           /\ conns' \in [DOMAIN conns' -> SUBSET Sockets]
           /\ DOMAIN connUser' \subseteq Sockets
           /\ connUser' \in [DOMAIN connUser' -> Users]
           /\ DOMAIN connChat' \subseteq Sockets
           /\ connChat' \in [DOMAIN connChat' -> Chats]
           /\ \A r \in Sockets : Registered(r)' <=> (Registered(r) /\ r # s)
<1> USE DEF IndInv
<1>1. Key(s) \in Keys
  BY KeyIsKey
<1>2. CASE Lookup(Key(s)) = {}
  <2>1. UNCHANGED registry
    BY <1>2 DEF Disconnect
  <2>2. ~Registered(s)
    BY <1>2 DEF Registered
  <2>3. RegistryConsistent' /\ \A r \in Sockets : Registered(r)' <=> Registered(r)
    BY <2>1, RegistryUntouched
  <2> QED
    BY <2>1, <2>2, <2>3 DEF TypeOK, registry
<1>3. CASE Lookup(Key(s)) # {}
  <2>1. conns' = Discard(Key(s), {s}) /\ connUser' = Pop(connUser, {s})
    BY <1>3 DEF Disconnect
  <2>2. connChat' = Pop(connChat, {s})
    <3>1. CASE s \in ChatSockets
      BY <1>3, <3>1 DEF Disconnect
    <3>2. CASE s \notin ChatSockets
      <4>1. connChat' = connChat
        BY <1>3, <3>2 DEF Disconnect
      <4>2. s \notin DOMAIN connChat
        BY <3>2 DEF RegistryConsistent
      <4> QED
        BY <4>1, <4>2 DEF Pop, Restrict, TypeOK
    <3> QED
      BY <3>1, <3>2
  <2>3. {s} \in SUBSET Sockets /\ \A r \in {s} : Key(r) = Key(s)
    OBVIOUS
  <2>4. /\ RegistryConsistent'
        /\ DOMAIN conns' \subseteq Keys
        /\ conns' \in [DOMAIN conns' -> SUBSET Sockets]
        /\ DOMAIN connUser' \subseteq Sockets
        /\ connUser' \in [DOMAIN connUser' -> Users]
        /\ DOMAIN connChat' \subseteq Sockets
        /\ connChat' \in [DOMAIN connChat' -> Chats]
        /\ \A r \in Sockets : Registered(r)' <=> (Registered(r) /\ r \notin {s})
    <3> HIDE DEF IndInv
    <3>1. TypeOK /\ RegistryConsistent
      BY DEF IndInv
    <3> QED
      BY <1>1, <2>1, <2>2, <2>3, <3>1, PopFollowsDiscard
  <2> QED
    BY <2>4
<1> QED
  BY <1>2, <1>3

LEMMA DisconnectStep ==
    ASSUME IndInv, NEW s \in Sockets, Disconnect(s)
    PROVE  IndInv'
<1> USE DEF IndInv
<1>1. /\ handler[s] = "closing" /\ handler' = [handler EXCEPT ![s] = "done"]
      /\ peer' = [peer EXCEPT ![s] = "gone"]
      /\ cast' = cast
  BY DEF Disconnect
<1>2. /\ RegistryConsistent'
      /\ DOMAIN conns' \subseteq Keys
      /\ conns' \in [DOMAIN conns' -> SUBSET Sockets]
      /\ DOMAIN connUser' \subseteq Sockets
      /\ connUser' \in [DOMAIN connUser' -> Users]
      /\ DOMAIN connChat' \subseteq Sockets
      /\ connChat' \in [DOMAIN connChat' -> Chats]
      /\ \A r \in Sockets : Registered(r)' <=> (Registered(r) /\ r # s)
  BY DisconnectUnfiles
<1>3. TypeOK'
  BY <1>1, <1>2 DEF TypeOK, HandlerStates
<1>4. LiveSocketsRegistered' /\ RegisteredHandlers'
  BY <1>1, <1>2 DEF TypeOK, LiveSocketsRegistered, RegisteredHandlers
<1>5. BroadcastsSound'
  BY <1>1 DEF TypeOK, BroadcastsSound
<1> QED
  BY <1>2, <1>3, <1>4, <1>5

\* What the tail of a broadcast does to the registry.  Both outcomes of its
\* condition leave none of the stale sockets registered.
LEMMA FinishPrunes ==
    ASSUME IndInv, NEW t \in Tasks, Finish(t)
    PROVE  /\ RegistryConsistent'
           /\ DOMAIN conns' \subseteq Keys
           /\ conns' \in [DOMAIN conns' -> SUBSET Sockets]
           /\ DOMAIN connUser' \subseteq Sockets
           /\ connUser' \in [DOMAIN connUser' -> Users]
           /\ DOMAIN connChat' \subseteq Sockets
           /\ connChat' \in [DOMAIN connChat' -> Chats]
           /\ \A r \in Sockets :
                 Registered(r)' <=> (Registered(r) /\ r \notin cast[t].stale)
<1> USE DEF IndInv
<1>1. /\ cast[t].key \in Keys
      /\ cast[t].stale \in SUBSET Sockets
      /\ \A r \in cast[t].stale : Key(r) = cast[t].key
  BY DEF Finish, BroadcastsSound, TypeOK
<1>2. CASE cast[t].stale = {} \/ Lookup(cast[t].key) = {}
  <2>1. UNCHANGED registry
    BY <1>2 DEF Finish
  <2>2. \A r \in cast[t].stale : ~Registered(r)
    BY <1>1, <1>2 DEF Registered
  <2>3. RegistryConsistent' /\ \A r \in Sockets : Registered(r)' <=> Registered(r)
    BY <2>1, RegistryUntouched
  <2> QED
    BY <2>1, <2>2, <2>3 DEF TypeOK, registry
<1>3. CASE cast[t].stale # {} /\ Lookup(cast[t].key) # {}
  <2>1. /\ conns' = Discard(cast[t].key, cast[t].stale)
        /\ connUser' = Pop(connUser, cast[t].stale)
        /\ connChat' = Pop(connChat, cast[t].stale)
    BY <1>3 DEF Finish
  <2> QED
    BY <1>1, <2>1, PopFollowsDiscard
<1> QED
  BY <1>2, <1>3

LEMMA FinishStep ==
    ASSUME IndInv, NEW t \in Tasks, Finish(t)
    PROVE  IndInv'
<1> USE DEF IndInv
<1>1. /\ cast' = [cast EXCEPT ![t] = Idle]
      /\ handler' = IF t \in Sockets THEN [handler EXCEPT ![t] = "open"] ELSE handler
      /\ peer' = peer
  BY DEF Finish, Return
<1>2. t \in Sockets => handler[t] = "typing"
  BY DEF Finish, BroadcastsSound
<1>3. \A r \in cast[t].stale : peer[r] = "gone"
  BY DEF BroadcastsSound
<1>4. TypeOK'
  <2>1. /\ handler' \in [Sockets -> HandlerStates]
        /\ peer' \in [Sockets -> {"up", "gone"}]
    BY <1>1 DEF TypeOK, HandlerStates
  <2>2. cast' \in [Tasks -> [phase : {"idle", "sending"}, key : Keys \cup {NoKey},
                             todo : SUBSET Sockets, sent : SUBSET Sockets,
                             stale : SUBSET Sockets]]
    BY <1>1 DEF TypeOK, Idle
  <2> QED
    BY <2>1, <2>2, FinishPrunes DEF TypeOK
<1>5. LiveSocketsRegistered' /\ RegisteredHandlers'
  <2>1. \A r \in Sockets : Registered(r)' <=> (Registered(r) /\ r \notin cast[t].stale)
    BY FinishPrunes
  <2>2. \A r \in Sockets : \/ handler'[r] = handler[r]
                           \/ handler[r] = "typing" /\ handler'[r] = "open"
    BY <1>1, <1>2 DEF TypeOK
  <2> QED
    BY <1>1, <1>3, <2>1, <2>2 DEF LiveSocketsRegistered, RegisteredHandlers, TypeOK
<1>6. BroadcastsSound'
  <2>1. cast'[t] = Idle /\ \A u \in Tasks : u # t => cast'[u] = cast[u]
    BY <1>1 DEF TypeOK
  <2>2. \A u \in Sockets : u # t => handler'[u] = handler[u]
    BY <1>1 DEF TypeOK
  <2> QED
    BY <1>1, <2>1, <2>2 DEF BroadcastsSound, Idle
<1> QED
  BY <1>4, <1>5, <1>6, FinishPrunes

\* Only its own tail ends a broadcast.
LEMMA FinishesOnlyByFinish ==
    ASSUME TypeOK, Next, NEW t \in Tasks, Finishes(t)
    PROVE  Finish(t)
<1>1. cast[t].phase = "sending" /\ cast'[t].phase = "idle" /\ cast'[t] # cast[t]
  BY DEF Finishes
<1>2. ASSUME NEW s \in Sockets,
             \/ Refuse(s) \/ Accept(s) \/ Register(s) \/ Greet(s) \/ Drop(s)
             \/ Hangup(s) \/ BadFrame(s) \/ Disconnect(s)
      PROVE  FALSE
  BY <1>1, <1>2 DEF Refuse, Accept, Register, Greet, Drop, Hangup, BadFrame, Disconnect
<1>3. ASSUME NEW s \in Sockets, Typing(s) PROVE FALSE
  BY <1>1, <1>3 DEF Typing, Snapshot, TypeOK
<1>4. ASSUME NEW u \in Requests, NEW k \in Keys, StartCast(u, k) PROVE FALSE
  BY <1>1, <1>4 DEF StartCast, Snapshot, TypeOK
<1>5. ASSUME NEW u \in Tasks, NEW s \in Sockets, Send(u, s) PROVE FALSE
  BY <1>1, <1>5 DEF Send, TypeOK
<1>6. ASSUME NEW u \in Tasks, Finish(u) PROVE u = t
  BY <1>1, <1>6 DEF Finish, Return, TypeOK
<1> QED
  BY <1>2, <1>3, <1>4, <1>5, <1>6 DEF Next

-----------------------------------------------------------------------------
LEMMA StepIndInv == IndInv /\ [Next]_vars => IndInv'
<1> SUFFICES ASSUME IndInv, [Next]_vars PROVE IndInv'
  OBVIOUS
<1>1. ASSUME NEW s \in Sockets,
             Refuse(s) \/ Accept(s) \/ Greet(s) \/ Drop(s) \/ Hangup(s) \/ BadFrame(s)
      PROVE  IndInv'
  BY <1>1, QuietSteps
<1>2. ASSUME NEW s \in Sockets, Register(s) PROVE IndInv'
  BY <1>2, RegisterStep
<1>3. CASE \/ \E s \in Sockets : Typing(s)
           \/ \E t \in Requests, k \in Keys : StartCast(t, k)
  BY <1>3, StartSteps
<1>4. ASSUME NEW s \in Sockets, Disconnect(s) PROVE IndInv'
  BY <1>4, DisconnectStep
<1>5. ASSUME NEW t \in Tasks, NEW s \in Sockets, Send(t, s) PROVE IndInv'
  BY <1>5, SendStep
<1>6. ASSUME NEW t \in Tasks, Finish(t) PROVE IndInv'
  BY <1>6, FinishStep
<1>7. CASE UNCHANGED vars
  <2>1. UNCHANGED registry /\ handler' = handler /\ peer' = peer /\ cast' = cast
    BY <1>7 DEF vars, registry
  <2>2. RegistryConsistent' /\ \A r \in Sockets : Registered(r)' <=> Registered(r)
    BY <2>1, RegistryUntouched DEF IndInv
  <2> QED
    BY <2>1, <2>2 DEF IndInv, TypeOK, LiveSocketsRegistered,
                      RegisteredHandlers, BroadcastsSound, registry
<1> QED
  BY <1>1, <1>2, <1>3, <1>4, <1>5, <1>6, <1>7 DEF Next

(***************************************************************************)
(* The invariant holds of every behaviour: the state is of its type, the   *)
(* three maps of ws_manager agree, and a connection that works is never    *)
(* lost from them.                                                         *)
(***************************************************************************)
THEOREM Invariance == Spec => []IndInv
<1>1. Init => IndInv
  BY InitIndInv
<1>2. IndInv /\ [Next]_vars => IndInv'
  BY StepIndInv
<1> QED
  BY <1>1, <1>2, PTL DEF Spec

\* Every variable keeps its type (ws_manager.py __init__, the annotations).
THEOREM TypeCorrect == Spec => []TypeOK
<1>1. IndInv => TypeOK
  BY DEF IndInv
<1> QED
  BY <1>1, Invariance, PTL

\* The two key maps and the two reverse maps of ConnectionManager never disagree.
THEOREM Consistency == Spec => []RegistryConsistent
<1>1. IndInv => RegistryConsistent
  BY DEF IndInv
<1> QED
  BY <1>1, Invariance, PTL

\* No pruning and no other socket's disconnect unfiles a working connection.
THEOREM LiveConnectionsStay == Spec => []LiveSocketsRegistered
<1>1. IndInv => LiveSocketsRegistered
  BY DEF IndInv
<1> QED
  BY <1>1, Invariance, PTL

LEMMA InvGivesPresence ==
    ASSUME IndInv PROVE PresenceExact
<1> SUFFICES ASSUME NEW u \in Users, NEW c \in Chats,
                    NEW here, here = {s \in ChatSockets : Owner[s] = u /\ Room[s] = c}
             PROVE  /\ (here \cap Connected # {}) => IsUserActiveInChat(u, c)
                    /\ IsUserActiveInChat(u, c) =>
                          \E s \in here : handler[s] \in {"greeting", "open", "typing",
                                                          "closing", "crashed"}
  BY DEF PresenceExact
<1>1. \A s \in Sockets : s \in Lookup(c) => s \in here \/ Owner[s] # u
  <2> SUFFICES ASSUME NEW s \in Sockets, s \in Lookup(c), Owner[s] = u PROVE s \in here
    OBVIOUS
  <2>1. Key(s) = c
    BY DEF IndInv, RegistryConsistent, Lookup
  <2> QED
    BY <2>1, ConnectionConstants DEF Key, ChatSockets, EventSockets
<1>2. \A s \in here : s \in Sockets /\ Key(s) = c
  BY DEF Key, ChatSockets
<1>3. ASSUME NEW s \in here \cap Connected PROVE IsUserActiveInChat(u, c)
  <2>1. Registered(s) /\ s \in Lookup(c)
    BY <1>2, <1>3 DEF IndInv, LiveSocketsRegistered, Registered, Connected
  <2>2. s \in DOMAIN connUser /\ connUser[s] = u
    BY <1>2, <2>1 DEF IndInv, RegistryConsistent
  <2> QED
    BY <2>1, <2>2 DEF IsUserActiveInChat
<1>4. ASSUME IsUserActiveInChat(u, c)
      PROVE  \E s \in here : handler[s] \in {"greeting", "open", "typing",
                                             "closing", "crashed"}
  <2>1. PICK s \in Lookup(c) : s \in DOMAIN connUser /\ connUser[s] = u
    BY <1>4 DEF IsUserActiveInChat
  <2>2. s \in Sockets /\ Owner[s] = u /\ Registered(s)
    BY <2>1 DEF IndInv, RegistryConsistent
  <2> QED
    BY <1>1, <2>1, <2>2 DEF IndInv, RegisteredHandlers
<1> QED
  BY <1>3, <1>4

\* is_user_active_in_chat answers for the sockets that are there.
THEOREM Presence == Spec => []PresenceExact
<1>1. IndInv => PresenceExact
  BY InvGivesPresence
<1> QED
  BY <1>1, Invariance, PTL

\* Pruning removes what the broadcast could not reach.
THEOREM PruningComplete == Spec => DeadTargetsPruned
<1>1. IndInv /\ [Next]_vars =>
        [\A t \in Tasks : Finishes(t) => \A s \in cast[t].stale : ~Registered(s)']_vars
  <2> SUFFICES ASSUME IndInv, Next, NEW t \in Tasks, Finishes(t), NEW s \in cast[t].stale
               PROVE  ~Registered(s)'
    OBVIOUS
  <2>1. Finish(t)
    BY FinishesOnlyByFinish DEF IndInv
  <2>2. s \in Sockets
    BY DEF IndInv, TypeOK
  <2> QED
    BY <2>1, <2>2, FinishPrunes
<1> QED
  BY <1>1, Invariance, PTL DEF Spec, DeadTargetsPruned
-----------------------------------------------------------------------------
(***************************************************************************)
(* The refinement of LiveRooms.  The values of its variables, and    *)
(* then, action by action, the step that the clients see, if any.          *)
(***************************************************************************)
Places == [s \in Sockets |-> Place(s)]
Busy == {t \in Tasks : cast[t].phase = "sending"}
Owed == [t \in Tasks |-> {s \in cast[t].todo : peer[s] = "up"}]
Got == [t \in Tasks |-> cast[t].sent]

Unseen == Places' = Places /\ Busy' = Busy /\ Owed' = Owed /\ Got' = Got

\* A step is unseen if it changes neither connections nor broadcasts, nor the
\* filing of anyone whose connection is open.
LEMMA UnseenSteps ==
    ASSUME UNCHANGED <<peer, cast>>,
           \A r \in Sockets : peer[r] # "gone" => (Registered(r)' <=> Registered(r))
    PROVE  Unseen
<1>1. \A r \in Sockets : Place(r)' = Place(r)
  BY DEF Place
<1> QED
  BY <1>1 DEF Unseen, Places, Busy, Owed, Got

\* Refuse, Drop, Disconnect: a connection is closed, if it was not closed before.
LEMMA ClosingLeaves ==
    ASSUME TypeOK, NEW s \in Sockets, cast' = cast, peer' = [peer EXCEPT ![s] = "gone"],
           \A r \in Sockets : r # s => (Registered(r)' <=> Registered(r))
    PROVE  Rooms!Leave(s) \/ Unseen
<1>1. /\ peer'[s] = "gone" /\ \A r \in Sockets : r # s => peer'[r] = peer[r]
      /\ \A t \in Tasks : cast[t].todo \subseteq Sockets
  BY DEF TypeOK
<1>2. CASE peer[s] = "gone"
  <2>1. peer' = peer
    BY <1>2 DEF TypeOK
  <2> QED
    BY <1>2, <2>1, UnseenSteps
<1>3. CASE peer[s] # "gone"
  <2>1. Places[s] # "left"
    BY <1>3 DEF Places, Place
  <2>2. Places' = [Places EXCEPT ![s] = "left"]
    <3>1. Place(s)' = "left"
      BY <1>1 DEF Place
    <3>2. \A r \in Sockets : r # s => Place(r)' = Place(r)
      BY <1>1 DEF Place
    <3> QED
      BY <3>1, <3>2 DEF Places
  <2>3. Owed' = [t \in Tasks |-> Owed[t] \ {s}]
    <3>1. \A t \in Tasks : {r \in cast[t].todo : peer'[r] = "up"}
                              = {r \in cast[t].todo : peer[r] = "up"} \ {s}
      BY <1>1
    <3> QED
      BY <3>1 DEF Owed
  <2>4. Busy' = Busy /\ Got' = Got
    BY DEF Busy, Got
  <2> QED
    BY <2>1, <2>2, <2>3, <2>4 DEF Rooms!Leave, Places, Busy, Owed, Got
<1> QED
  BY <1>2, <1>3

\* connect_user and connect_chat let in who is still there.
LEMMA RegisterEnters ==
    ASSUME IndInv, NEW s \in Sockets, Register(s)
    PROVE  Rooms!Enter(s) \/ Unseen
<1>1. TypeOK /\ RegistryConsistent /\ RegisteredHandlers
  BY DEF IndInv
<1>2. \A r \in Sockets : Registered(r)' <=> (Registered(r) \/ r = s)
  BY <1>1, BindRegisters DEF Register
<1>3. UNCHANGED <<peer, cast>> /\ ~Registered(s)
  BY <1>1 DEF Register, RegisteredHandlers
<1>4. CASE peer[s] = "gone"
  BY <1>2, <1>3, <1>4, UnseenSteps
<1>5. CASE peer[s] # "gone"
  <2>1. Places[s] = "outside"
    BY <1>3, <1>5 DEF Places, Place
  <2>2. Places' = [Places EXCEPT ![s] = "inside"]
    <3>1. Place(s)' = "inside"
      BY <1>2, <1>3, <1>5 DEF Place
    <3>2. \A r \in Sockets : r # s => Place(r)' = Place(r)
      BY <1>2, <1>3 DEF Place
    <3> QED
      BY <3>1, <3>2 DEF Places
  <2>3. Busy' = Busy /\ Owed' = Owed /\ Got' = Got
    BY <1>3 DEF Busy, Owed, Got
  <2> QED
    BY <2>1, <2>2, <2>3 DEF Rooms!Enter, Places, Busy, Owed, Got
<1> QED
  BY <1>4, <1>5

\* The list a broadcast takes holds exactly those inside, besides the gone.
LEMMA CastAnnounces ==
    ASSUME IndInv, NEW t \in Tasks, NEW k \in Keys, cast[t].phase = "idle",
           cast' = [cast EXCEPT ![t] = Snapshot(k)], UNCHANGED <<registry, peer>>
    PROVE  Rooms!Announce(t, k)
<1>1. TypeOK /\ RegistryConsistent /\ cast[t].sent = {}
  BY DEF IndInv, BroadcastsSound
<1>2. cast'[t] = Snapshot(k) /\ \A u \in Tasks : u # t => cast'[u] = cast[u]
  BY <1>1 DEF TypeOK
<1>3. Snapshot(k).phase = "sending" /\ Snapshot(k).todo = Lookup(k) /\ Snapshot(k).sent = {}
  BY DEF Snapshot
<1>4. t \notin Busy /\ Busy' = Busy \cup {t}
  BY <1>2, <1>3 DEF Busy
<1>5. \A r : r \in Lookup(k) <=> r \in Sockets /\ Key(r) = k /\ Registered(r)
  BY <1>1 DEF Lookup, Registered, RegistryConsistent, TypeOK
<1>6. {r \in Lookup(k) : peer[r] = "up"} = Rooms!Inside(k)
  <2>1. \A r \in Sockets : Place(r) = "inside" <=> peer[r] = "up" /\ Registered(r)
    BY <1>1 DEF Place, TypeOK
  <2> QED
    BY <1>5, <2>1 DEF Rooms!Inside
<1>7. Owed' = [Owed EXCEPT ![t] = Rooms!Inside(k)]
  <2>1. Owed' = [u \in Tasks |-> {s \in cast'[u].todo : peer[s] = "up"}]
    BY DEF Owed
  <2>2. {s \in cast'[t].todo : peer[s] = "up"} = Rooms!Inside(k)
    BY <1>2, <1>3, <1>6
  <2>3. \A u \in Tasks : u # t =>
          {s \in cast'[u].todo : peer[s] = "up"} = Owed[u]
    BY <1>2 DEF Owed
  <2>4. Owed = [u \in Tasks |-> Owed[u]]
    BY DEF Owed
  <2> HIDE DEF Owed
  <2> QED
    BY <2>1, <2>2, <2>3, <2>4
<1>8. Places' = Places
  <2>1. \A r \in Sockets : Registered(r)' <=> Registered(r)
    BY <1>1, RegistryUntouched
  <2> QED
    BY <2>1 DEF Places, Place
<1>9. Got' = Got
  BY <1>1, <1>2, <1>3 DEF Got
<1> QED
  BY <1>4, <1>7, <1>8, <1>9 DEF Rooms!Announce, Places, Busy, Owed, Got

\* A send that does not raise serves, one that raises was owed to nobody.
LEMMA SendServes ==
    ASSUME IndInv, NEW t \in Tasks, NEW s \in Sockets, Send(t, s)
    PROVE  Rooms!Serve(t, s) \/ Unseen
<1>1. TypeOK /\ RegistryConsistent /\ UNCHANGED <<registry, peer>>
  BY DEF IndInv, Send
<1>2. /\ s \in cast[t].todo /\ cast'[t].todo = cast[t].todo \ {s}
      /\ cast'[t].phase = cast[t].phase
      /\ cast'[t].sent = IF peer[s] = "up" THEN cast[t].sent \cup {s} ELSE cast[t].sent
      /\ \A u \in Tasks : u # t => cast'[u] = cast[u]
  BY <1>1 DEF Send, TypeOK
<1>3. Busy' = Busy
  BY <1>2 DEF Busy
<1>4. Places' = Places
  <2>1. \A r \in Sockets : Registered(r)' <=> Registered(r)
    BY <1>1, RegistryUntouched
  <2> QED
    BY <1>1, <2>1 DEF Places, Place
<1>5. CASE peer[s] = "up"
  <2>1. s \in Owed[t]
    BY <1>2, <1>5 DEF Owed
  <2>2. Owed' = [Owed EXCEPT ![t] = @ \ {s}]
    <3>1. \A u \in Tasks : {r \in cast'[u].todo : peer'[r] = "up"}
             = IF u = t THEN {r \in cast[u].todo : peer[r] = "up"} \ {s}
               ELSE {r \in cast[u].todo : peer[r] = "up"}
      BY <1>1, <1>2
    <3> QED
      BY <3>1 DEF Owed
  <2>3. Got' = [Got EXCEPT ![t] = @ \cup {s}]
    BY <1>2, <1>5 DEF Got
  <2> QED
    BY <1>3, <1>4, <2>1, <2>2, <2>3 DEF Rooms!Serve, Places, Busy, Owed, Got
<1>6. CASE peer[s] # "up"
  <2>1. \A u \in Tasks : {r \in cast'[u].todo : peer'[r] = "up"}
                            = {r \in cast[u].todo : peer[r] = "up"}
    BY <1>1, <1>2, <1>6
  <2>2. \A u \in Tasks : cast'[u].sent = cast[u].sent
    BY <1>2, <1>6
  <2> QED
    BY <1>3, <1>4, <2>1, <2>2 DEF Unseen, Owed, Got
<1> QED
  BY <1>5, <1>6

\* The tail of a broadcast unfiles only whose connection is closed.
LEMMA FinishConcludes ==
    ASSUME IndInv, NEW t \in Tasks, Finish(t)
    PROVE  Rooms!Conclude(t)
<1>1. TypeOK /\ BroadcastsSound
  BY DEF IndInv
<1>2. /\ cast[t].phase = "sending" /\ cast[t].todo = {} /\ peer' = peer
      /\ cast'[t] = Idle /\ \A u \in Tasks : u # t => cast'[u] = cast[u]
  BY <1>1 DEF Finish, Return, TypeOK
<1>3. Idle.phase = "idle" /\ Idle.todo = {} /\ Idle.sent = {}
  BY DEF Idle
<1>4. t \in Busy /\ Busy' = Busy \ {t}
  BY <1>2, <1>3 DEF Busy
<1>5. Owed[t] = {} /\ Owed' = Owed
  BY <1>2, <1>3 DEF Owed
<1>6. Places' = Places
  <2>1. \A r \in Sockets : Registered(r)' <=> (Registered(r) /\ r \notin cast[t].stale)
    BY FinishPrunes
  <2>2. \A r \in cast[t].stale : peer[r] = "gone"
    BY <1>1 DEF BroadcastsSound
  <2>3. \A r \in Sockets : Place(r)' = Place(r)
    BY <1>2, <2>1, <2>2 DEF Place
  <2> QED
    BY <2>3 DEF Places
<1>7. Got' = [Got EXCEPT ![t] = {}]
  BY <1>2, <1>3 DEF Got
<1> QED
  BY <1>4, <1>5, <1>6, <1>7 DEF Rooms!Conclude, Places, Busy, Owed, Got

LEMMA StepInRooms ==
    IndInv /\ [Next]_vars => [Rooms!RoomNext]_(Rooms!roomVars)
<1> SUFFICES ASSUME IndInv, [Next]_vars PROVE Rooms!RoomNext \/ Unseen
  BY DEF Rooms!roomVars, Unseen, Places, Busy, Owed, Got
<1>1. TypeOK /\ RegistryConsistent
  BY DEF IndInv
<1>2. ASSUME UNCHANGED <<registry, peer, cast>> PROVE Unseen
  BY <1>1, <1>2, RegistryUntouched, UnseenSteps
<1>3. ASSUME NEW s \in Sockets, Rooms!Enter(s) \/ Rooms!Leave(s) PROVE Rooms!RoomNext
  BY <1>3 DEF Rooms!RoomNext
<1>4. ASSUME NEW s \in Sockets, Accept(s) \/ Greet(s) \/ Hangup(s) \/ BadFrame(s)
      PROVE  Unseen
  BY <1>2, <1>4 DEF Accept, Greet, Hangup, BadFrame
<1>5. ASSUME NEW s \in Sockets, Refuse(s) \/ Drop(s) PROVE Rooms!RoomNext \/ Unseen
  <2>1. /\ cast' = cast /\ peer' = [peer EXCEPT ![s] = "gone"] /\ UNCHANGED registry
    BY <1>5 DEF Refuse, Drop
  <2> QED
    BY <1>1, <1>3, <2>1, RegistryUntouched, ClosingLeaves
<1>6. ASSUME NEW s \in Sockets, Register(s) PROVE Rooms!RoomNext \/ Unseen
  BY <1>3, <1>6, RegisterEnters
<1>7. ASSUME NEW s \in Sockets, Disconnect(s) PROVE Rooms!RoomNext \/ Unseen
  <2>1. cast' = cast /\ peer' = [peer EXCEPT ![s] = "gone"]
    BY <1>7 DEF Disconnect
  <2>2. \A r \in Sockets : r # s => (Registered(r)' <=> Registered(r))
    BY <1>7, DisconnectUnfiles
  <2> QED
    BY <1>1, <1>3, <2>1, <2>2, ClosingLeaves
<1>8. ASSUME NEW t \in Tasks, NEW k \in Keys, cast[t].phase = "idle",
             cast' = [cast EXCEPT ![t] = Snapshot(k)], UNCHANGED <<registry, peer>>
      PROVE  Rooms!RoomNext
  BY <1>8, CastAnnounces DEF Rooms!RoomNext
<1>9. ASSUME NEW s \in Sockets, Typing(s) PROVE Rooms!RoomNext
  <2>1. /\ handler[s] = "open" /\ cast' = [cast EXCEPT ![s] = Snapshot(Room[s])]
        /\ UNCHANGED <<registry, peer>>
    BY <1>9 DEF Typing
  <2>2. s \in Tasks /\ Room[s] \in Keys
    BY <1>9, ConnectionConstants DEF Typing, ChatSockets, EventSockets, Tasks, Keys
  <2>3. cast[s].phase = "idle"
    BY <2>1, <2>2 DEF IndInv, TypeOK, BroadcastsSound
  <2> QED
    BY <1>8, <2>1, <2>2, <2>3
<1>10. ASSUME NEW t \in Requests, NEW k \in Keys, StartCast(t, k) PROVE Rooms!RoomNext
  BY <1>8, <1>10 DEF StartCast, Tasks
<1>11. ASSUME NEW t \in Tasks, NEW s \in Sockets, Send(t, s) PROVE Rooms!RoomNext \/ Unseen
  BY <1>11, SendServes DEF Rooms!RoomNext
<1>12. ASSUME NEW t \in Tasks, Finish(t) PROVE Rooms!RoomNext
  BY <1>12, FinishConcludes DEF Rooms!RoomNext
<1> QED
  BY <1>2, <1>4, <1>5, <1>6, <1>7, <1>9, <1>10, <1>11, <1>12 DEF Next, vars, registry

(***************************************************************************)
(* To its clients ws_manager is a set of rooms of open connections: what   *)
(* the sends, the pruning and the handlers of closed connections do to the *)
(* dictionaries, and in which order, is not to be seen.                    *)
(***************************************************************************)
THEOREM RoomsRefinement == Spec => ImplementsRooms
<1>1. Init => Rooms!RoomInit
  <2> SUFFICES ASSUME Init PROVE Rooms!RoomInit
    OBVIOUS
  <2>1. \A s \in Sockets : Place(s) = "outside"
    BY DEF Init, Place, Registered, Lookup
  <2>2. \A t \in Tasks : cast[t].phase = "idle" /\ cast[t].todo = {} /\ cast[t].sent = {}
    BY DEF Init, Idle
  <2> QED
    BY <2>1, <2>2 DEF Rooms!RoomInit
<1> QED
  BY <1>1, StepInRooms, Invariance, PTL DEF Spec, ImplementsRooms, Rooms!RoomSpec
=============================================================================
