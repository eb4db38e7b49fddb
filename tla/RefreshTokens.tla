---------------------------- MODULE RefreshTokens ----------------------------
(***************************************************************************)
(* Login, refresh and logout: src/auth/service.py and src/auth/router.py   *)
(* over the table auth_refresh_tokens.                                     *)
(*                                                                         *)
(* A token stands for its jti, its hash and its JWT at once; the client    *)
(* presents tokens it has been given.  Anything else fails the signature   *)
(* or the lookup and changes nothing.  rotate_refresh and logout lock the  *)
(* row from their select to their commit and read it under the lock: no    *)
(* reference to the object that ensure_refresh_valid loaded is left, so    *)
(* the session loads it anew.  Each of the two is therefore one step, the  *)
(* check of ensure_refresh_valid is another, and requests interleave       *)
(* between them.  The process may die between any two steps, and an answer *)
(* may not arrive.                                                         *)
(*                                                                         *)
(* Time is in seconds.  Users, access tokens and last_seen_at are left out.*)
(***************************************************************************)
EXTENDS Functions, Naturals

CONSTANTS
    Tokens,         \* the tokens that may be made
    Requests,       \* the HTTP requests that may be in flight together
    Lifetime,       \* refresh_token_expire_days, in seconds
    MaxClock,       \* bound: the time at which the clock stops
    None

ASSUME RefreshConstants ==
    /\ None \notin Tokens
    /\ None \notin [token : Tokens, until : Nat]
    /\ Lifetime \in Nat
    /\ MaxClock \in Nat

VARIABLES
    tokens,     \* auth_refresh_tokens: token -> its row
    issued,     \* the tokens ever made
    known,      \* the tokens the client has been given
    clock,
    req         \* the local state of each request

vars == <<tokens, issued, known, clock, req>>

Idle == [step |-> "idle", token |-> None, expires |-> 0]

Answer(r) == req' = [req EXCEPT ![r] = Idle]

\* The client is to be given token t.
Reply(r, t) == req' = [req EXCEPT ![r] = [step |-> "answer", token |-> t, expires |-> 0]]

\* A row is never deleted.  Its field login, the first token of its chain, is
\* there for the properties; the code keeps rotated_from_id only.
Row(login, from, expires) ==
    [login |-> login, from |-> from, expires |-> expires, used |-> FALSE, revoked |-> FALSE]

AddRow(f, t, row) == [s \in DOMAIN f \cup {t} |-> IF s = t THEN row ELSE f[s]]

\* Neither revoked nor expired.
Good(t) == ~tokens[t].revoked /\ clock < tokens[t].expires

Init ==
    /\ tokens = <<>> /\ issued = {} /\ known = {} /\ clock = 0
    /\ req = [r \in Requests |-> Idle]

(* login *)

\* Faulty variant: the client is answered before the row is committed.
LoginEarly(r, t) ==
    /\ req[r].step = "idle"
    /\ t \notin issued
    /\ issued' = issued \cup {t}
    /\ known' = known \cup {t}
    /\ req' = [req EXCEPT ![r] = [step |-> "persist", token |-> t,
                                  expires |-> clock + Lifetime]]
    /\ UNCHANGED <<tokens, clock>>

\* The password is right; create_refresh_token has made the JWT.
Login(r, t) ==
    /\ req[r].step = "idle"
    /\ t \notin issued
    /\ issued' = issued \cup {t}
    /\ req' = [req EXCEPT ![r] = [step |-> "persist", token |-> t,
                                  expires |-> clock + Lifetime]]
    /\ UNCHANGED <<tokens, known, clock>>

PersistRefresh(r) ==
    LET t == req[r].token IN
    /\ req[r].step = "persist"
    /\ tokens' = AddRow(tokens, t, Row(t, None, req[r].expires))
    /\ Reply(r, t)
    /\ UNCHANGED <<issued, known, clock>>

(* refresh *)

\* The checks before the row is locked; when one fails the answer is 401.
EnsureRefreshValid(r, t) ==
    /\ req[r].step = "idle"
    /\ t \in known \cap DOMAIN tokens
    /\ Good(t)
    /\ req' = [req EXCEPT ![r] = [step |-> "rotate", token |-> t, expires |-> 0]]
    /\ UNCHANGED <<tokens, issued, known, clock>>

Rotated(t, h) ==
    AddRow([tokens EXCEPT ![t].used = TRUE, ![t].revoked = TRUE],
           h, Row(tokens[t].login, t, clock + Lifetime))

\* Faulty variants: what ensure_refresh_valid has found is relied on; only the
\* revocation is checked again; the old row is not marked used.
RotateUnchecked(r, h) ==
    /\ req[r].step = "rotate"
    /\ h \notin issued
    /\ tokens' = Rotated(req[r].token, h)
    /\ issued' = issued \cup {h}
    /\ Reply(r, h)
    /\ UNCHANGED <<known, clock>>

RotateExpired(r, h) ==
    /\ req[r].step = "rotate"
    /\ ~tokens[req[r].token].revoked
    /\ RotateUnchecked(r, h)

RotateUnused(r, h) ==
    LET t == req[r].token IN
    /\ req[r].step = "rotate"
    /\ Good(t)
    /\ h \notin issued
    /\ tokens' = AddRow([tokens EXCEPT ![t].revoked = TRUE],
                        h, Row(tokens[t].login, t, clock + Lifetime))
    /\ issued' = issued \cup {h}
    /\ Reply(r, h)
    /\ UNCHANGED <<known, clock>>

\* Under the row's lock: the old token is spent and the new one stored in one
\* transaction.
RotateRefresh(r, h) ==
    /\ req[r].step = "rotate"
    /\ Good(req[r].token)
    /\ h \notin issued
    /\ tokens' = Rotated(req[r].token, h)
    /\ issued' = issued \cup {h}
    /\ Reply(r, h)
    /\ UNCHANGED <<known, clock>>

\* Faulty variant: no exception, the client is answered without a token.
RotateRefusedQuietly(r) ==
    /\ req[r].step = "rotate"
    /\ ~Good(req[r].token)
    /\ Reply(r, None)
    /\ UNCHANGED <<tokens, issued, known, clock>>

\* Another request has spent or revoked the token, or it has expired, since
\* ensure_refresh_valid.
RotateRefused(r) ==
    /\ req[r].step = "rotate"
    /\ ~Good(req[r].token)
    /\ Answer(r)
    /\ UNCHANGED <<tokens, issued, known, clock>>

(* logout *)

\* Also of an expired token; nothing happens when it is revoked already.
Logout(t) ==
    /\ t \in known \cap DOMAIN tokens
    /\ tokens' = [tokens EXCEPT ![t].revoked = TRUE]
    /\ UNCHANGED <<issued, known, clock, req>>

(* The network, the process and the clock. *)

Deliver(r) ==
    /\ req[r].step = "answer"
    /\ known' = known \cup {req[r].token}
    /\ Answer(r)
    /\ UNCHANGED <<tokens, issued, clock>>

LoseAnswer(r) ==
    /\ req[r].step = "answer"
    /\ Answer(r)
    /\ UNCHANGED <<tokens, issued, known, clock>>

\* The one worker is restarted.
Crash ==
    /\ req' = [r \in Requests |-> Idle]
    /\ UNCHANGED <<tokens, issued, known, clock>>

Tick ==
    /\ clock < MaxClock
    /\ clock' = clock + 1
    /\ UNCHANGED <<tokens, issued, known, req>>

Next ==
    \/ \E r \in Requests :
          \/ \E t \in Tokens : Login(r, t) \/ EnsureRefreshValid(r, t) \/ RotateRefresh(r, t)
          \/ PersistRefresh(r) \/ RotateRefused(r) \/ Deliver(r) \/ LoseAnswer(r)
    \/ \E t \in Tokens : Logout(t)
    \/ Crash
    \/ Tick

Spec == Init /\ [][Next]_vars

-----------------------------------------------------------------------------
(* Properties. *)

\* The rows and the requests have their types.
TypeOK ==
    /\ DOMAIN tokens \subseteq Tokens
    /\ tokens \in [DOMAIN tokens ->
                      [login : Tokens, from : Tokens \cup {None}, expires : Nat,
                       used : BOOLEAN, revoked : BOOLEAN]]
    /\ issued \subseteq Tokens /\ known \subseteq Tokens
    /\ clock \in Nat
    /\ req \in [Requests -> [step : {"idle", "persist", "rotate", "answer"},
                             token : Tokens \cup {None}, expires : Nat]]

\* A refresh token is good for one refresh: however many requests present it
\* together, and whatever each has checked before it got the lock, at most one
\* token is rotated from it.
RotatedOnce ==
    \A s, t \in DOMAIN tokens :
        tokens[s].from = tokens[t].from /\ tokens[s].from # None => s = t

\* Of all the tokens that stem from one login at most one is not revoked.
OneActivePerLogin ==
    \A s, t \in DOMAIN tokens :
        (/\ tokens[s].login = tokens[t].login
         /\ ~tokens[s].revoked /\ ~tokens[t].revoked) => s = t

\* A crash never leaves half a rotation: a token is used exactly if another has
\* been rotated from it, and then it is revoked.
RotationWhole ==
    \A t \in DOMAIN tokens :
        /\ tokens[t].used <=> \E s \in DOMAIN tokens : tokens[s].from = t
        /\ tokens[t].used => tokens[t].revoked

\* The client is never given a token before its row is committed.
KnownTokensStored == known \subseteq DOMAIN tokens

(* Each login is a thread of LoginSessions. *)

Logins == {t \in DOMAIN tokens : tokens[t].from = None}

ActiveOf(l) == {t \in DOMAIN tokens : tokens[t].login = l /\ ~tokens[t].revoked}

SessionOf(l) ==
    IF ActiveOf(l) = {} THEN None
    ELSE LET t == CHOOSE t \in ActiveOf(l) : TRUE
         IN  [token |-> t, until |-> tokens[t].expires]

Sessions == INSTANCE LoginSessions
            WITH seen <- DOMAIN tokens,
                 session <- [l \in Logins |-> SessionOf(l)],
                 now <- clock

\* Rotation, logout, crashes and lost answers, seen from the table, are the
\* renewals and ends of threads: no thread has two tokens, is renewed with an
\* expired one, or comes back after a logout, also when a refresh that has
\* passed its check overtakes the logout.
ImplementsSessions == Sessions!SessionSpec

-----------------------------------------------------------------------------
(* The inductive invariant behind the properties. *)

\* What a chain of rotated tokens looks like.
ChainsSound ==
    \A t \in DOMAIN tokens :
        /\ tokens[t].from # None =>
              /\ tokens[t].from \in DOMAIN tokens
              /\ tokens[tokens[t].from].login = tokens[t].login
        /\ tokens[t].from = None => tokens[t].login = t
        /\ tokens[t].login \in Logins

\* A request persists a token of its own, rotates one that is stored, and
\* answers with one that is stored.
RequestsSound ==
    \A r \in Requests :
        /\ req[r].step = "persist" =>
              /\ req[r].token \in issued \ DOMAIN tokens
              /\ req[r].expires <= clock + Lifetime
              /\ \A s \in Requests \ {r} :
                    req[s].step = "persist" => req[s].token # req[r].token
        /\ req[r].step \in {"rotate", "answer"} => req[r].token \in DOMAIN tokens

IndInv ==
    /\ TypeOK
    /\ RotatedOnce /\ OneActivePerLogin /\ RotationWhole /\ KnownTokensStored
    /\ DOMAIN tokens \subseteq issued
    /\ ChainsSound
    /\ RequestsSound
=============================================================================
