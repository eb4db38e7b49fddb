------------------------- MODULE MCConnectionManager -------------------------
(***************************************************************************)
(* Small instances of ConnectionManager.  Alice follows her event stream   *)
(* and has the chat open, bob has the chat open, one request broadcasts.   *)
(* The liveness run leaves out the event stream.                           *)
(***************************************************************************)
EXTENDS ConnectionManager, TLC

CONSTANTS alice, bob, chat, aliceEvents, aliceChat, bobChat, post

MCUsers == {alice, bob}
MCChats == {chat}
MCRequests == {post}
MCSockets == {aliceEvents, aliceChat, bobChat}
MCOwner == (aliceEvents :> alice) @@ (aliceChat :> alice) @@ (bobChat :> bob)
MCRoom == (aliceEvents :> Events) @@ (aliceChat :> chat) @@ (bobChat :> chat)

LiveSockets == {aliceChat, bobChat}
LiveOwner == (aliceChat :> alice) @@ (bobChat :> bob)
LiveRoom == (aliceChat :> chat) @@ (bobChat :> chat)
=============================================================================
