----------------------------- MODULE MCChatStore -----------------------------
(***************************************************************************)
(* Small instances of ChatStore.  Requests, users and ids are              *)
(* interchangeable.                                                        *)
(***************************************************************************)
EXTENDS ChatStore, TLC

Interchangeable ==
    Permutations(Requests) \cup Permutations(Users)
        \cup Permutations(ChatIds) \cup Permutations(MessageIds)
=============================================================================
