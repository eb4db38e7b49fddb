---------------------------- MODULE LoginSessions ----------------------------
(***************************************************************************)
(* What the refresh tokens of src/auth promise: a login is a thread that   *)
(* has one token at a time.  Each renewal replaces the token by a new one  *)
(* and happens while the old one is still good; once the thread has ended, *)
(* by a logout, it stays so.                                               *)
(***************************************************************************)
EXTENDS Naturals

CONSTANTS Tokens, Lifetime, None

VARIABLES
    seen,       \* the tokens there have ever been
    session,    \* login -> its token and the time that is good until, or None
    now

sessionVars == <<seen, session, now>>

SessionInit == seen = {} /\ session = <<>> /\ now = 0

With(l, s) == session' = [k \in DOMAIN session \cup {l} |-> IF k = l THEN s ELSE session[k]]

\* A login is named by its first token, which may have been made a while ago.
Start(l) ==
    /\ l \notin seen
    /\ seen' = seen \cup {l}
    /\ \E until \in 0 .. now + Lifetime : With(l, [token |-> l, until |-> until])
    /\ UNCHANGED now

Renew(l, t) ==
    /\ session[l] # None
    /\ now < session[l].until
    /\ t \notin seen
    /\ seen' = seen \cup {t}
    /\ With(l, [token |-> t, until |-> now + Lifetime])
    /\ UNCHANGED now

End(l) ==
    /\ session[l] # None
    /\ With(l, None)
    /\ UNCHANGED <<seen, now>>

Pass == now' = now + 1 /\ UNCHANGED <<seen, session>>

SessionNext ==
    \/ \E l \in Tokens : Start(l)
    \/ \E l \in DOMAIN session, t \in Tokens : Renew(l, t)
    \/ \E l \in DOMAIN session : End(l)
    \/ Pass

SessionSpec == SessionInit /\ [][SessionNext]_sessionVars
=============================================================================
