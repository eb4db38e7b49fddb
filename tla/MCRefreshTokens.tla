--------------------------- MODULE MCRefreshTokens ---------------------------
(* Two logins can each be renewed, with two requests in flight and the clock *)
(* running past the end of a token's life.                                   *)
EXTENDS RefreshTokens, TLC

Interchangeable == Permutations(Tokens) \cup Permutations(Requests)
=============================================================================
