--------------------------- MODULE MCMigratedStore ---------------------------
(***************************************************************************)
(* A small instance of MigratedStore.  The old databases: a chat in which  *)
(* both users have written, also at the same time, a user with two chats,  *)
(* and a chat in either order of two users.                                *)
(***************************************************************************)
EXTENDS MigratedStore, TLC

CONSTANTS alice, bob, carol, c1, c2, m1, m2

Chat(u, v) == [user1 |-> u, user2 |-> v, created |-> 0]
Written(c, u, t) == [chat |-> c, user |-> u, created |-> t]

MCOldDatabases ==
    {[chats |-> c1 :> Chat(alice, bob),
      messages |-> (m1 :> Written(c1, alice, 1)) @@ (m2 :> Written(c1, bob, 2))],
     [chats |-> c1 :> Chat(alice, bob),
      messages |-> (m1 :> Written(c1, alice, 1)) @@ (m2 :> Written(c1, bob, 1))],
     [chats |-> (c1 :> Chat(alice, bob)) @@ (c2 :> Chat(carol, alice)),
      messages |-> m1 :> Written(c1, alice, 1)],
     [chats |-> (c1 :> Chat(alice, bob)) @@ (c2 :> Chat(bob, alice)),
      messages |-> <<>>]}
=============================================================================
