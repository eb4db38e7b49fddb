------------------------------ MODULE LiveRooms ------------------------------
(***************************************************************************)
(* What the registry of src/chat/ws_manager.py promises to the clients.  A *)
(* connection enters the room of its user or of its chat once and stays in *)
(* it until it is closed.  An event for a room reaches everyone who is in  *)
(* the room when it is announced and stays until the announcement is over: *)
(* nobody twice, and nobody else.                                          *)
(***************************************************************************)
CONSTANTS
    Sockets, Keys,
    Home,       \* the room of each socket, one of Keys
    Tasks       \* those who announce

VARIABLES
    place,      \* of each socket: outside its room, inside, or left for good
    busy,       \* the tasks that are announcing
    owed,       \* of each task: who is to get its event still
    heard       \* of each task: who has got it

roomVars == <<place, busy, owed, heard>>

Inside(k) == {s \in Sockets : place[s] = "inside" /\ Home[s] = k}

RoomInit ==
    /\ place = [s \in Sockets |-> "outside"]
    /\ busy = {}
    /\ owed = [t \in Tasks |-> {}]
    /\ heard = [t \in Tasks |-> {}]

Enter(s) ==
    /\ place[s] = "outside"
    /\ place' = [place EXCEPT ![s] = "inside"]
    /\ UNCHANGED <<busy, owed, heard>>

Leave(s) ==
    /\ place[s] # "left"
    /\ place' = [place EXCEPT ![s] = "left"]
    /\ owed' = [t \in Tasks |-> owed[t] \ {s}]
    /\ UNCHANGED <<busy, heard>>

Announce(t, k) ==
    /\ t \notin busy
    /\ busy' = busy \cup {t}
    /\ owed' = [owed EXCEPT ![t] = Inside(k)]
    /\ UNCHANGED <<place, heard>>

Serve(t, s) ==
    /\ s \in owed[t]
    /\ owed' = [owed EXCEPT ![t] = @ \ {s}]
    /\ heard' = [heard EXCEPT ![t] = @ \cup {s}]
    /\ UNCHANGED <<place, busy>>

Conclude(t) ==
    /\ t \in busy
    /\ owed[t] = {}
    /\ busy' = busy \ {t}
    /\ heard' = [heard EXCEPT ![t] = {}]
    /\ UNCHANGED <<place, owed>>

RoomNext ==
    \/ \E s \in Sockets : Enter(s) \/ Leave(s)
    \/ \E t \in Tasks, k \in Keys : Announce(t, k)
    \/ \E t \in Tasks, s \in Sockets : Serve(t, s)
    \/ \E t \in Tasks : Conclude(t)

RoomSpec == RoomInit /\ [][RoomNext]_roomVars
=============================================================================
