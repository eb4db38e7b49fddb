-------------------------- MODULE MCMessageDelivery --------------------------
(***************************************************************************)
(* Small instances of MessageDelivery, alice and bob being the participants*)
(* of two chats: one request to either chat while bob has one of them open *)
(* and follows his event stream, and two requests, to the same chat or to  *)
(* different ones, while he follows his event stream.                      *)
(***************************************************************************)
EXTENDS MessageDelivery, TLC

CONSTANTS alice, bob, chat, otherChat, bobEvents, bobChat, r1, r2

MCUsers == {alice, bob}
MCChats == {chat, otherChat}
MCMembers == [c \in Chats |-> {alice, bob}]

OneRequest == {r1}
BothSockets == {bobEvents, bobChat}
BothOwner == (bobEvents :> bob) @@ (bobChat :> bob)
BothRoom == (bobEvents :> Events) @@ (bobChat :> chat)

TwoRequests == {r1, r2}
EventSocket == {bobEvents}
EventOwner == bobEvents :> bob
EventRoom == bobEvents :> Events

Interchangeable == Permutations(Requests) \cup Permutations(Chats)
=============================================================================
