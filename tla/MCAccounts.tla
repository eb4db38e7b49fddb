----------------------------- MODULE MCAccounts -----------------------------
(***************************************************************************)
(* Small instances of UserAccounts and DeviceTokens.  The two share        *)
(* neither rows nor locks, so a behaviour is one of either of them while   *)
(* the other rests.                                                        *)
(***************************************************************************)
EXTENDS UserAccounts, DeviceTokens, TLC

CONSTANTS alice, bob, png, png2, jpeg, blank, image1, image2

VARIABLE part       \* which of the two moves

\* png and png2 are of one type.
MCMimeOf == (png :> image1) @@ (png2 :> image1) @@ (jpeg :> image2) @@ (blank :> image1)

Interchangeable ==
    Permutations(AccountRequests) \cup Permutations({png, png2}) \cup Permutations(DeviceRequests)
      \cup Permutations(PushTokens) \cup Permutations(RowIds)

Init ==
    /\ AccountsInit /\ DevicesInit
    /\ part \in {"accounts", "devices"}

Next ==
    \/ part = "accounts" /\ AccountsNext /\ UNCHANGED <<deviceVars, part>>
    \/ part = "devices" /\ DevicesNext /\ UNCHANGED <<accountVars, part>>

Spec == Init /\ [][Next]_<<accountVars, deviceVars, part>>

\* For the statement about push tokens alone.
DevicesOnly == part = "devices" /\ Spec
=============================================================================
