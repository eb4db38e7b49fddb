------------------------- MODULE RefreshTokensProofs -------------------------
(***************************************************************************)
(* Safety of the refresh tokens, for every number of tokens and requests:  *)
(* the inductive invariant IndInv of RefreshTokens, the properties it      *)
(* contains, and the refinement of LoginSessions.                          *)
(***************************************************************************)
EXTENDS RefreshTokens, TLAPS

RowType == [login : Tokens, from : Tokens \cup {None}, expires : Nat,
            used : BOOLEAN, revoked : BOOLEAN]

RequestType == [step : {"idle", "persist", "rotate", "answer"},
                token : Tokens \cup {None}, expires : Nat]

\* One request changes its local state to q.
LEMMA OneRequestMoves ==
    ASSUME TypeOK, NEW r \in Requests, NEW q \in RequestType, req' = [req EXCEPT ![r] = q]
    PROVE  /\ req' \in [Requests -> RequestType]
           /\ req'[r] = q
           /\ \A s \in Requests \ {r} : req'[s] = req[s]
BY DEF TypeOK, RequestType

LEMMA InitIndInv == Init => IndInv
<1> SUFFICES ASSUME Init PROVE IndInv
  OBVIOUS
<1>1. DOMAIN tokens = {} /\ \A r \in Requests : req[r] = Idle
  BY DEF Init
<1>2. TypeOK
  BY <1>1 DEF Init, TypeOK, Idle
<1>3. RequestsSound
  BY <1>1 DEF RequestsSound, Idle
<1> QED
  BY <1>1, <1>2, <1>3
  DEF Init, IndInv, RotatedOnce, OneActivePerLogin, RotationWhole, KnownTokensStored, ChainsSound

(***************************************************************************)
(* A request that keeps off the table.                                     *)
(***************************************************************************)
LEMMA RequestStep ==
    ASSUME IndInv, UNCHANGED <<tokens, clock>>,
           issued \subseteq issued', issued' \subseteq Tokens,
           known' \subseteq DOMAIN tokens,
           NEW r \in Requests, NEW q \in RequestType, req' = [req EXCEPT ![r] = q],
           q.step = "persist" => /\ q.token \in issued' \ issued
                                 /\ q.expires <= clock + Lifetime,
           q.step \in {"rotate", "answer"} => q.token \in DOMAIN tokens
    PROVE  IndInv'
<1>1. /\ req' \in [Requests -> RequestType]
      /\ req'[r] = q
      /\ \A s \in Requests \ {r} : req'[s] = req[s]
  BY OneRequestMoves DEF IndInv
<1>2. TypeOK'
  BY <1>1 DEF IndInv, TypeOK, RequestType
<1>3. (RotatedOnce /\ OneActivePerLogin /\ RotationWhole /\ ChainsSound)'
  BY DEF IndInv, RotatedOnce, OneActivePerLogin, RotationWhole, ChainsSound, Logins
<1>4. DOMAIN tokens' \subseteq issued' /\ KnownTokensStored'
  BY DEF IndInv, KnownTokensStored
<1>5. RequestsSound'
  BY <1>1 DEF IndInv, RequestsSound
<1> QED
  BY <1>2, <1>3, <1>4, <1>5 DEF IndInv

LEMMA LoginStep ==
    ASSUME IndInv, NEW r \in Requests, NEW t \in Tokens, Login(r, t)
    PROVE  IndInv'
<1> DEFINE q == [step |-> "persist", token |-> t, expires |-> clock + Lifetime]
<1>1. /\ req' = [req EXCEPT ![r] = q] /\ t \notin issued /\ issued' = issued \cup {t}
      /\ UNCHANGED <<tokens, clock, known>>
  BY DEF Login
<1>2. /\ clock \in Nat /\ Lifetime \in Nat /\ issued \subseteq Tokens
      /\ known \subseteq DOMAIN tokens
  BY RefreshConstants DEF IndInv, TypeOK, KnownTokensStored
<1>3. /\ q \in RequestType
      /\ q.step = "persist" /\ q.token = t /\ q.expires = clock + Lifetime
  BY <1>2 DEF RequestType
<1>4. issued \subseteq issued' /\ issued' \subseteq Tokens /\ t \in issued' \ issued
  BY <1>1, <1>2
<1> HIDE DEF q
<1>5. q.expires <= clock + Lifetime
  BY <1>2, <1>3
<1> QED
  BY <1>1, <1>2, <1>3, <1>4, <1>5, RequestStep

LEMMA EnsureRefreshValidStep ==
    ASSUME IndInv, NEW r \in Requests, NEW t \in Tokens, EnsureRefreshValid(r, t)
    PROVE  IndInv'
<1> DEFINE q == [step |-> "rotate", token |-> t, expires |-> 0]
<1>1. /\ req' = [req EXCEPT ![r] = q] /\ t \in DOMAIN tokens
      /\ UNCHANGED <<tokens, issued, clock, known>>
  BY DEF EnsureRefreshValid
<1>2. q \in RequestType /\ q.step = "rotate" /\ q.token = t
  BY DEF RequestType
<1>3. issued' \subseteq Tokens /\ known' \subseteq DOMAIN tokens
  BY <1>1 DEF IndInv, TypeOK, KnownTokensStored
<1> HIDE DEF q
<1> QED
  BY <1>1, <1>2, <1>3, RequestStep

\* RotateRefused, Deliver and LoseAnswer.
LEMMA AnswerStep ==
    ASSUME IndInv, NEW r \in Requests, Answer(r), UNCHANGED <<tokens, issued, clock>>,
           known' \subseteq DOMAIN tokens
    PROVE  IndInv'
<1>1. Idle \in RequestType /\ Idle.step = "idle"
  BY DEF Idle, RequestType
<1>2. issued' \subseteq Tokens
  BY DEF IndInv, TypeOK
<1> QED
  BY <1>1, <1>2, RequestStep DEF Answer

(***************************************************************************)
(* A new row, and its request going on to its answer.                      *)
(***************************************************************************)
LEMMA ReplyIs ==
    ASSUME TypeOK, NEW r \in Requests, NEW t \in Tokens, Reply(r, t)
    PROVE  /\ req' \in [Requests -> RequestType]
           /\ req'[r].step = "answer" /\ req'[r].token = t
           /\ \A s \in Requests \ {r} : req'[s] = req[s]
<1> DEFINE q == [step |-> "answer", token |-> t, expires |-> 0]
<1>1. q \in RequestType /\ q.step = "answer" /\ q.token = t
  BY DEF RequestType
<1>2. req' = [req EXCEPT ![r] = q]
  BY DEF Reply
<1> HIDE DEF q
<1> QED
  BY <1>1, <1>2, OneRequestMoves

LEMMA PersistRefreshStep ==
    ASSUME IndInv, NEW r \in Requests, PersistRefresh(r)
    PROVE  IndInv'
<1> DEFINE t == req[r].token
           row == Row(t, None, req[r].expires)
<1>1. /\ tokens' = AddRow(tokens, t, row) /\ Reply(r, t) /\ req[r].step = "persist"
      /\ UNCHANGED <<issued, known, clock>>
  BY DEF PersistRefresh
<1>2. t \in issued /\ t \notin DOMAIN tokens /\ t \in Tokens /\ req[r].expires \in Nat
  BY <1>1 DEF IndInv, RequestsSound, TypeOK
<1>3. /\ row \in RowType /\ row.login = t /\ row.from = None /\ ~row.used /\ ~row.revoked
  BY <1>2 DEF Row, RowType
<1> HIDE DEF row
<1>4. /\ DOMAIN tokens' = DOMAIN tokens \cup {t} /\ tokens'[t] = row
      /\ \A s \in DOMAIN tokens : tokens'[s] = tokens[s]
      /\ tokens' \in [DOMAIN tokens \cup {t} -> RowType]
  <2>1. tokens \in [DOMAIN tokens -> RowType]
    BY DEF IndInv, TypeOK, RowType
  <2> QED
    BY <1>1, <1>2, <1>3, <2>1 DEF AddRow
<1>5. /\ req' \in [Requests -> RequestType]
      /\ req'[r].step = "answer" /\ req'[r].token = t
      /\ \A s \in Requests \ {r} : req'[s] = req[s]
  BY <1>1, <1>2, ReplyIs DEF IndInv
<1>6. \A s \in DOMAIN tokens : tokens[s].login # t /\ tokens[s].from # t
  BY <1>2, RefreshConstants DEF IndInv, ChainsSound, Logins
<1> HIDE DEF t
<1>7. TypeOK'
  BY <1>1, <1>2, <1>4, <1>5 DEF IndInv, TypeOK, RowType, RequestType
<1>8. RotatedOnce' /\ OneActivePerLogin'
  BY <1>3, <1>4, <1>6 DEF IndInv, RotatedOnce, OneActivePerLogin
<1>9. RotationWhole'
  <2>1. \A s \in DOMAIN tokens' : tokens'[s].from # t
    BY <1>2, <1>3, <1>4, <1>6, RefreshConstants
  <2>2. ASSUME NEW u \in DOMAIN tokens
        PROVE  (\E s \in DOMAIN tokens' : tokens'[s].from = u) <=>
               (\E s \in DOMAIN tokens : tokens[s].from = u)
    <3>1. u # None
      BY RefreshConstants DEF IndInv, TypeOK
    <3> QED
      BY <1>3, <1>4, <3>1
  <2> QED
    BY <1>3, <1>4, <2>1, <2>2 DEF IndInv, RotationWhole
<1>10. KnownTokensStored' /\ DOMAIN tokens' \subseteq issued'
  BY <1>1, <1>2, <1>4 DEF IndInv, KnownTokensStored
<1>11. ChainsSound'
  <2>1. Logins' = Logins \cup {t}
    BY <1>2, <1>3, <1>4 DEF Logins
  <2> QED
    BY <1>3, <1>4, <2>1 DEF IndInv, ChainsSound
<1>12. RequestsSound'
  BY <1>1, <1>4, <1>5 DEF IndInv, RequestsSound, t
<1> QED
  BY <1>7, <1>8, <1>9, <1>10, <1>11, <1>12 DEF IndInv

(***************************************************************************)
(* A rotation: row t is spent, row h is new.                               *)
(***************************************************************************)
LEMMA RotatedIs ==
    ASSUME IndInv, NEW r \in Requests, NEW h \in Tokens, RotateRefresh(r, h)
    PROVE  LET t == req[r].token IN
           /\ t \in DOMAIN tokens /\ t \in Tokens /\ Good(t)
           /\ h \notin DOMAIN tokens
           /\ DOMAIN tokens' = DOMAIN tokens \cup {h}
           /\ tokens' \in [DOMAIN tokens' -> RowType]
           /\ tokens'[h] = Row(tokens[t].login, t, clock + Lifetime)
           /\ tokens'[t].used /\ tokens'[t].revoked
           /\ tokens'[t].login = tokens[t].login /\ tokens'[t].from = tokens[t].from
           /\ tokens'[t].expires = tokens[t].expires
           /\ \A s \in DOMAIN tokens \ {t} : tokens'[s] = tokens[s]
<1> DEFINE t == req[r].token
           spent == [tokens[t] EXCEPT !.used = TRUE, !.revoked = TRUE]
           middle == [tokens EXCEPT ![t] = spent]
           row == Row(tokens[t].login, t, clock + Lifetime)
<1>1. /\ t \in DOMAIN tokens /\ t \in Tokens /\ Good(t) /\ h \notin issued
      /\ tokens' = Rotated(t, h)
  BY DEF RotateRefresh, IndInv, RequestsSound, TypeOK
<1>2. /\ tokens \in [DOMAIN tokens -> RowType] /\ tokens[t] \in RowType
      /\ clock + Lifetime \in Nat /\ h \notin DOMAIN tokens
  BY <1>1, RefreshConstants DEF IndInv, TypeOK, RowType
<1>3. /\ spent \in RowType /\ spent.used /\ spent.revoked /\ spent.login = tokens[t].login
      /\ spent.from = tokens[t].from /\ spent.expires = tokens[t].expires
  BY <1>2 DEF RowType
<1>4. row \in RowType
  BY <1>1, <1>2 DEF Row, RowType
<1>5. tokens' = AddRow(middle, h, row)
  BY <1>1 DEF Rotated
<1> HIDE DEF spent, row
<1>6. /\ DOMAIN middle = DOMAIN tokens /\ middle[t] = spent
      /\ middle \in [DOMAIN tokens -> RowType]
      /\ \A s \in DOMAIN tokens \ {t} : middle[s] = tokens[s]
  BY <1>1, <1>2, <1>3
<1> HIDE DEF middle
<1>7. /\ DOMAIN tokens' = DOMAIN tokens \cup {h} /\ tokens'[h] = row
      /\ \A s \in DOMAIN tokens : tokens'[s] = middle[s]
      /\ tokens' \in [DOMAIN tokens' -> RowType]
  <2>1. h \notin DOMAIN middle /\ middle \in [DOMAIN middle -> RowType]
    BY <1>2, <1>6
  <2> QED
    BY <1>4, <1>5, <1>6, <2>1 DEF AddRow
<1> QED
  BY <1>1, <1>2, <1>3, <1>6, <1>7 DEF row

LEMMA RotateRefreshStep ==
    ASSUME IndInv, NEW r \in Requests, NEW h \in Tokens, RotateRefresh(r, h)
    PROVE  IndInv'
<1> DEFINE t == req[r].token
<1>1. /\ t \in DOMAIN tokens /\ t \in Tokens /\ Good(t) /\ h \notin DOMAIN tokens
      /\ DOMAIN tokens' = DOMAIN tokens \cup {h}
      /\ tokens' \in [DOMAIN tokens' -> RowType]
      /\ tokens'[h] = Row(tokens[t].login, t, clock + Lifetime)
      /\ tokens'[t].used /\ tokens'[t].revoked
      /\ tokens'[t].login = tokens[t].login /\ tokens'[t].from = tokens[t].from
      /\ \A s \in DOMAIN tokens \ {t} : tokens'[s] = tokens[s]
  BY RotatedIs
<1>2. /\ tokens'[h].login = tokens[t].login /\ tokens'[h].from = t
      /\ ~tokens'[h].used /\ ~tokens'[h].revoked
  BY <1>1 DEF Row
<1>3. /\ issued' = issued \cup {h} /\ h \notin issued /\ Reply(r, h)
      /\ UNCHANGED <<known, clock>> /\ req[r].step = "rotate"
  BY DEF RotateRefresh
<1>4. /\ req' \in [Requests -> RequestType]
      /\ req'[r].step = "answer" /\ req'[r].token = h
      /\ \A s \in Requests \ {r} : req'[s] = req[s]
  BY <1>3, ReplyIs DEF IndInv
<1>5. t # h /\ t # None /\ ~tokens[t].revoked /\ ~tokens[t].used
  BY <1>1, RefreshConstants DEF Good, IndInv, RotationWhole
<1>6. \A s \in DOMAIN tokens : /\ tokens[s].from # t /\ tokens[s].from # h
                               /\ tokens'[s].from = tokens[s].from
                               /\ tokens'[s].login = tokens[s].login
  <2>1. \A s \in DOMAIN tokens : tokens[s].from # t
    BY <1>1, <1>5 DEF IndInv, RotationWhole
  <2>2. \A s \in DOMAIN tokens : tokens[s].from # h
    BY <1>1, RefreshConstants DEF IndInv, ChainsSound
  <2> QED
    BY <1>1, <2>1, <2>2
<1> HIDE DEF t
<1>7. TypeOK'
  BY <1>1, <1>3, <1>4 DEF IndInv, TypeOK, RowType, RequestType
<1>8. RotatedOnce'
  BY <1>1, <1>2, <1>6 DEF IndInv, RotatedOnce
<1>9. OneActivePerLogin'
  <2>1. ASSUME NEW s \in DOMAIN tokens, ~tokens'[s].revoked,
               tokens'[s].login = tokens[t].login
        PROVE  FALSE
    <3>1. s # t /\ ~tokens[s].revoked /\ tokens[s].login = tokens[t].login
      BY <1>1, <2>1
    <3> QED
      BY <1>1, <1>5, <3>1 DEF IndInv, OneActivePerLogin
  <2>2. ASSUME NEW s \in DOMAIN tokens, NEW u \in DOMAIN tokens,
               ~tokens'[s].revoked, ~tokens'[u].revoked,
               tokens'[s].login = tokens'[u].login
        PROVE  s = u
    <3>1. s # t /\ u # t
      BY <1>1, <2>2
    <3> QED
      BY <1>1, <2>2, <3>1 DEF IndInv, OneActivePerLogin
  <2> QED
    BY <1>1, <1>2, <2>1, <2>2 DEF OneActivePerLogin
<1>10. RotationWhole'
  <2>1. ASSUME NEW s \in DOMAIN tokens
        PROVE  /\ tokens'[s].used <=> \E u \in DOMAIN tokens' : tokens'[u].from = s
               /\ tokens'[s].used => tokens'[s].revoked
    <3>1. CASE s = t
      BY <1>1, <1>2, <3>1
    <3>2. CASE s # t
      <4>1. tokens'[s] = tokens[s]
        BY <1>1, <3>2
      <4>2. (\E u \in DOMAIN tokens' : tokens'[u].from = s) <=>
            (\E u \in DOMAIN tokens : tokens[u].from = s)
        BY <1>1, <1>2, <1>6, <3>2
      <4> QED
        BY <4>1, <4>2 DEF IndInv, RotationWhole
    <3> QED
      BY <3>1, <3>2
  <2>2. \A u \in DOMAIN tokens' : tokens'[u].from # h
    BY <1>1, <1>2, <1>5, <1>6
  <2> QED
    BY <1>1, <1>2, <2>1, <2>2 DEF RotationWhole
<1>11. KnownTokensStored' /\ DOMAIN tokens' \subseteq issued'
  BY <1>1, <1>3 DEF IndInv, KnownTokensStored
<1>12. ChainsSound'
  <2>1. Logins' = Logins
    BY <1>1, <1>2, <1>5, <1>6 DEF Logins
  <2>2. ASSUME NEW s \in DOMAIN tokens
        PROVE  /\ tokens'[s].from # None =>
                     /\ tokens'[s].from \in DOMAIN tokens'
                     /\ tokens'[tokens'[s].from].login = tokens'[s].login
               /\ tokens'[s].from = None => tokens'[s].login = s
               /\ tokens'[s].login \in Logins'
    BY <1>1, <1>6, <2>1 DEF IndInv, ChainsSound
  <2>3. tokens[t].login \in Logins
    BY <1>1 DEF IndInv, ChainsSound
  <2> QED
    BY <1>1, <1>2, <1>5, <2>1, <2>2, <2>3 DEF ChainsSound
<1>13. RequestsSound'
  BY <1>1, <1>3, <1>4 DEF IndInv, RequestsSound
<1> QED
  BY <1>7, <1>8, <1>9, <1>10, <1>11, <1>12, <1>13 DEF IndInv

LEMMA LogoutIs ==
    ASSUME TypeOK, NEW t \in Tokens, Logout(t)
    PROVE  /\ t \in DOMAIN tokens
           /\ DOMAIN tokens' = DOMAIN tokens
           /\ tokens' \in [DOMAIN tokens -> RowType]
           /\ tokens'[t].revoked
           /\ \A s \in DOMAIN tokens :
                 /\ s # t => tokens'[s] = tokens[s]
                 /\ tokens'[s].login = tokens[s].login /\ tokens'[s].from = tokens[s].from
                 /\ tokens'[s].used = tokens[s].used
                 /\ tokens'[s].expires = tokens[s].expires
<1> DEFINE row == [tokens[t] EXCEPT !.revoked = TRUE]
<1>1. tokens \in [DOMAIN tokens -> RowType] /\ t \in DOMAIN tokens /\ tokens[t] \in RowType
  BY DEF Logout, TypeOK, RowType
<1>2. /\ row \in RowType /\ row.revoked /\ row.login = tokens[t].login
      /\ row.from = tokens[t].from /\ row.used = tokens[t].used
      /\ row.expires = tokens[t].expires
  BY <1>1 DEF RowType
<1>3. tokens' = [tokens EXCEPT ![t] = row]
  BY DEF Logout
<1> HIDE DEF row
<1> QED
  BY <1>1, <1>2, <1>3

LEMMA LogoutStep == ASSUME IndInv, NEW t \in Tokens, Logout(t) PROVE IndInv'
<1>1. /\ t \in DOMAIN tokens /\ DOMAIN tokens' = DOMAIN tokens
      /\ tokens' \in [DOMAIN tokens -> RowType] /\ tokens'[t].revoked
      /\ \A s \in DOMAIN tokens :
            /\ s # t => tokens'[s] = tokens[s]
            /\ tokens'[s].login = tokens[s].login /\ tokens'[s].from = tokens[s].from
            /\ tokens'[s].used = tokens[s].used
  BY LogoutIs DEF IndInv
<1>2. UNCHANGED <<issued, known, clock, req>>
  BY DEF Logout
<1>3. TypeOK'
  BY <1>1, <1>2 DEF IndInv, TypeOK, RowType
<1>4. RotatedOnce' /\ OneActivePerLogin'
  BY <1>1 DEF IndInv, RotatedOnce, OneActivePerLogin
<1>5. RotationWhole'
  BY <1>1 DEF IndInv, RotationWhole
<1>6. ChainsSound'
  <2>1. Logins' = Logins
    BY <1>1 DEF Logins
  <2> QED
    BY <1>1, <2>1 DEF IndInv, ChainsSound
<1>7. KnownTokensStored' /\ DOMAIN tokens' \subseteq issued' /\ RequestsSound'
  BY <1>1, <1>2 DEF IndInv, KnownTokensStored, RequestsSound
<1> QED
  BY <1>3, <1>4, <1>5, <1>6, <1>7 DEF IndInv

\* Crash and Tick.
LEMMA EnvironmentStep == ASSUME IndInv, Crash \/ Tick PROVE IndInv'
<1>1. UNCHANGED <<tokens, issued, known>> /\ clock' \in Nat /\ clock <= clock' /\ clock \in Nat
  BY DEF Crash, Tick, IndInv, TypeOK
<1>2. req' \in [Requests -> RequestType] /\ RequestsSound'
  <2>1. CASE Crash
    BY <2>1 DEF Crash, Idle, RequestType, RequestsSound
  <2>2. CASE Tick
    <3>1. \A r \in Requests : req[r].step = "persist" => req[r].expires <= clock' + Lifetime
      <4>1. \A r \in Requests : req[r].expires \in Nat
        BY DEF IndInv, TypeOK
      <4> QED
        BY <1>1, <4>1, RefreshConstants DEF IndInv, RequestsSound
    <3> QED
      BY <1>1, <2>2, <3>1 DEF Tick, IndInv, TypeOK, RequestType, RequestsSound
  <2> QED
    BY <2>1, <2>2
<1>3. TypeOK'
  BY <1>1, <1>2 DEF IndInv, TypeOK, RequestType
<1> QED
  BY <1>1, <1>2, <1>3
  DEF IndInv, RotatedOnce, OneActivePerLogin, RotationWhole, KnownTokensStored, ChainsSound,
      Logins

LEMMA StepIndInv == IndInv /\ [Next]_vars => IndInv'
<1> SUFFICES ASSUME IndInv, [Next]_vars PROVE IndInv'
  OBVIOUS
<1>1. CASE UNCHANGED vars
  BY <1>1
  DEF vars, IndInv, TypeOK, RotatedOnce, OneActivePerLogin, RotationWhole, KnownTokensStored,
      ChainsSound, Logins, RequestsSound
<1>2. ASSUME NEW r \in Requests, RotateRefused(r) \/ Deliver(r) \/ LoseAnswer(r)
      PROVE  IndInv'
  <2>1. Answer(r) /\ UNCHANGED <<tokens, issued, clock>>
    BY <1>2 DEF RotateRefused, Deliver, LoseAnswer
  <2>2. known' \subseteq DOMAIN tokens
    BY <1>2 DEF RotateRefused, Deliver, LoseAnswer, IndInv, KnownTokensStored, RequestsSound
  <2> QED
    BY <2>1, <2>2, AnswerStep
<1> QED
  BY <1>1, <1>2, LoginStep, PersistRefreshStep, EnsureRefreshValidStep, RotateRefreshStep,
     LogoutStep, EnvironmentStep
  DEF Next

-----------------------------------------------------------------------------
(* The invariant and what follows from it. *)

\* What src/auth/service.py keeps true of the table and of its own requests.
THEOREM Invariance == Spec => []IndInv
<1>1. Init => IndInv
  BY InitIndInv
<1>2. IndInv /\ [Next]_vars => IndInv'
  BY StepIndInv
<1> QED
  BY <1>1, <1>2, PTL DEF Spec

\* The rows of auth_refresh_tokens and the requests keep their types.
THEOREM TypeCorrect == Spec => []TypeOK
<1>1. IndInv => TypeOK
  BY DEF IndInv
<1> QED
  BY <1>1, Invariance, PTL

\* The check under the row lock of rotate_refresh suffices: no token is rotated
\* twice, whatever ensure_refresh_valid said to how many requests before.
THEOREM RotationOnce == Spec => []RotatedOnce
<1>1. IndInv => RotatedOnce
  BY DEF IndInv
<1> QED
  BY <1>1, Invariance, PTL

\* A login never has two refresh tokens that are not revoked.
THEOREM OneActive == Spec => []OneActivePerLogin
<1>1. IndInv => OneActivePerLogin
  BY DEF IndInv
<1> QED
  BY <1>1, Invariance, PTL

\* Spending the old token and storing the new one is all or nothing.
THEOREM NoHalfRotation == Spec => []RotationWhole
<1>1. IndInv => RotationWhole
  BY DEF IndInv
<1> QED
  BY <1>1, Invariance, PTL

\* No token reaches a client before the table knows it.
THEOREM StoredBeforeKnown == Spec => []KnownTokensStored
<1>1. IndInv => KnownTokensStored
  BY DEF IndInv
<1> QED
  BY <1>1, Invariance, PTL

-----------------------------------------------------------------------------
(* The refinement. *)

SessionTable == [l \in Logins |-> SessionOf(l)]

\* The CHOOSE in SessionOf has one candidate.
LEMMA SessionOfActive ==
    ASSUME OneActivePerLogin, NEW l, NEW t \in ActiveOf(l)
    PROVE  SessionOf(l) = [token |-> t, until |-> tokens[t].expires]
<1> DEFINE c == CHOOSE s \in ActiveOf(l) : TRUE
<1>1. c \in ActiveOf(l)
  OBVIOUS
<1>2. c = t
  BY <1>1 DEF ActiveOf, OneActivePerLogin
<1>3. SessionOf(l) = [token |-> c, until |-> tokens[c].expires]
  BY DEF SessionOf
<1> HIDE DEF c
<1> QED
  BY <1>2, <1>3

LEMMA SessionOfActivePrimed ==
    ASSUME OneActivePerLogin', NEW l, NEW t \in ActiveOf(l)'
    PROVE  SessionOf(l)' = [token |-> t, until |-> tokens'[t].expires]
<1> DEFINE c == CHOOSE s \in ActiveOf(l)' : TRUE
<1>1. c \in ActiveOf(l)'
  OBVIOUS
<1>2. c = t
  BY <1>1 DEF ActiveOf, OneActivePerLogin
<1>3. SessionOf(l)' = [token |-> c, until |-> tokens'[c].expires]
  BY DEF SessionOf
<1> HIDE DEF c
<1> QED
  BY <1>2, <1>3

\* A thread whose active token stays is not affected.
LEMMA SessionKept ==
    ASSUME IndInv, IndInv', NEW l, ActiveOf(l)' = ActiveOf(l),
           \A t \in ActiveOf(l) : tokens'[t].expires = tokens[t].expires
    PROVE  SessionOf(l)' = SessionOf(l)
<1>1. CASE ActiveOf(l) = {}
  BY <1>1 DEF SessionOf
<1>2. ASSUME NEW t \in ActiveOf(l) PROVE SessionOf(l)' = SessionOf(l)
  BY <1>2, SessionOfActive, SessionOfActivePrimed DEF IndInv
<1> QED
  BY <1>1, <1>2

\* A commit of login starts a thread.
LEMMA PersistStarts ==
    ASSUME IndInv, IndInv', NEW r \in Requests, PersistRefresh(r)
    PROVE  Sessions!Start(req[r].token)
<1>0. PICK t : t = req[r].token
  OBVIOUS
<1> DEFINE row == Row(t, None, req[r].expires)
<1>1. /\ tokens' = AddRow(tokens, t, row) /\ req[r].step = "persist" /\ UNCHANGED clock
  BY <1>0 DEF PersistRefresh
<1>2. /\ t \in issued /\ t \notin DOMAIN tokens /\ t \in Tokens /\ req[r].expires \in Nat
      /\ req[r].expires <= clock + Lifetime /\ clock + Lifetime \in Nat
  BY <1>0, <1>1, RefreshConstants DEF IndInv, RequestsSound, TypeOK
<1>3. /\ row.login = t /\ row.from = None /\ ~row.revoked /\ row.expires = req[r].expires
  BY DEF Row
<1> HIDE DEF row
<1>4. /\ DOMAIN tokens' = DOMAIN tokens \cup {t} /\ tokens'[t] = row
      /\ \A s \in DOMAIN tokens : tokens'[s] = tokens[s]
  BY <1>1, <1>2 DEF AddRow
<1>5. \A s \in DOMAIN tokens : tokens[s].login # t
  BY <1>2 DEF IndInv, ChainsSound, Logins
<1>6. Logins' = Logins \cup {t} /\ t \notin Logins
  BY <1>2, <1>3, <1>4 DEF Logins
<1>7. SessionOf(t)' = [token |-> t, until |-> req[r].expires]
  <2>1. t \in ActiveOf(t)'
    BY <1>3, <1>4 DEF ActiveOf
  <2> QED
    BY <1>3, <1>4, <2>1, SessionOfActivePrimed DEF IndInv
<1>8. ASSUME NEW l \in Logins PROVE SessionOf(l)' = SessionOf(l)
  <2>1. ActiveOf(l)' = ActiveOf(l)
    BY <1>2, <1>3, <1>4, <1>6 DEF ActiveOf
  <2> QED
    BY <1>4, <2>1, SessionKept DEF ActiveOf
<1>9. SessionTable' = [k \in Logins \cup {t} |->
                         IF k = t THEN [token |-> t, until |-> req[r].expires]
                                  ELSE SessionTable[k]]
  BY <1>6, <1>7, <1>8 DEF SessionTable
<1>10. req[r].expires \in 0 .. clock + Lifetime
  BY <1>2
<1>11. DOMAIN SessionTable = Logins
  BY DEF SessionTable
<1> QED
  BY <1>0, <1>1, <1>2, <1>4, <1>9, <1>10, <1>11 DEF Sessions!Start, Sessions!With, SessionTable

\* A rotation renews the thread of its token.
LEMMA RotationRenews ==
    ASSUME IndInv, IndInv', NEW r \in Requests, NEW h \in Tokens, RotateRefresh(r, h)
    PROVE  Sessions!Renew(tokens[req[r].token].login, h)
<1>0. PICK t, l : t = req[r].token /\ l = tokens[t].login
  OBVIOUS
<1>1. /\ t \in DOMAIN tokens /\ t \in Tokens /\ Good(t) /\ h \notin DOMAIN tokens
      /\ DOMAIN tokens' = DOMAIN tokens \cup {h}
      /\ tokens'[h] = Row(l, t, clock + Lifetime)
      /\ tokens'[t].revoked
      /\ tokens'[t].login = l /\ tokens'[t].from = tokens[t].from
      /\ \A s \in DOMAIN tokens \ {t} : tokens'[s] = tokens[s]
  BY <1>0, RotatedIs
<1>2. /\ tokens'[h].login = l /\ tokens'[h].from = t /\ ~tokens'[h].revoked
      /\ tokens'[h].expires = clock + Lifetime
  BY <1>1 DEF Row
<1>3. UNCHANGED clock /\ t # None /\ t # h
  BY <1>0, <1>1, RefreshConstants DEF RotateRefresh
<1>4. t \in ActiveOf(l) /\ clock < tokens[t].expires
  BY <1>0, <1>1 DEF ActiveOf, Good
<1>5. SessionOf(l) = [token |-> t, until |-> tokens[t].expires]
  BY <1>4, SessionOfActive DEF IndInv
<1>6. SessionOf(l)' = [token |-> h, until |-> clock + Lifetime]
  <2>1. h \in ActiveOf(l)'
    BY <1>1, <1>2 DEF ActiveOf
  <2> QED
    BY <1>2, <2>1, SessionOfActivePrimed DEF IndInv
<1>7. Logins' = Logins /\ l \in Logins
  <2>1. l \in Logins
    BY <1>0, <1>1 DEF IndInv, ChainsSound
  <2>2. \A s \in DOMAIN tokens : tokens'[s].from = tokens[s].from
    BY <1>1
  <2> QED
    BY <1>1, <1>2, <1>3, <2>1, <2>2 DEF Logins
<1>8. ASSUME NEW k \in Logins, k # l PROVE SessionOf(k)' = SessionOf(k)
  <2>1. ActiveOf(k)' = ActiveOf(k)
    BY <1>0, <1>1, <1>2, <1>8 DEF ActiveOf
  <2>2. \A s \in ActiveOf(k) : tokens'[s].expires = tokens[s].expires
    BY <1>0, <1>1, <1>8 DEF ActiveOf
  <2> QED
    BY <2>1, <2>2, SessionKept
<1>9. SessionTable' = [k \in Logins \cup {l} |->
                         IF k = l THEN [token |-> h, until |-> clock + Lifetime]
                                  ELSE SessionTable[k]]
  BY <1>6, <1>7, <1>8 DEF SessionTable
<1>10. /\ DOMAIN SessionTable = Logins
       /\ SessionTable[l] = [token |-> t, until |-> tokens[t].expires]
  BY <1>5, <1>7 DEF SessionTable
<1>11. SessionTable[l] # None
  <2>1. SessionTable[l] \in [token : Tokens, until : Nat]
    BY <1>1, <1>10 DEF IndInv, TypeOK
  <2> QED
    BY <2>1, RefreshConstants
<1> QED
  BY <1>0, <1>1, <1>3, <1>4, <1>7, <1>9, <1>10, <1>11
  DEF Sessions!Renew, Sessions!With, SessionTable

\* A logout with the active token ends the thread; one with any other token, or
\* a second one, changes nothing that can be seen.
LEMMA LogoutEnds ==
    ASSUME IndInv, IndInv', NEW t \in Tokens, Logout(t)
    PROVE  \/ Sessions!End(tokens[t].login)
           \/ SessionTable' = SessionTable /\ DOMAIN tokens' = DOMAIN tokens
<1>0. PICK l : l = tokens[t].login
  OBVIOUS
<1>1. /\ t \in DOMAIN tokens
      /\ DOMAIN tokens' = DOMAIN tokens
      /\ tokens'[t].revoked
      /\ \A s \in DOMAIN tokens :
            /\ s # t => tokens'[s] = tokens[s]
            /\ tokens'[s].login = tokens[s].login /\ tokens'[s].from = tokens[s].from
            /\ tokens'[s].expires = tokens[s].expires
  BY LogoutIs DEF IndInv
<1>2. Logins' = Logins /\ l \in Logins
  BY <1>0, <1>1 DEF Logins, IndInv, ChainsSound
<1>3. ASSUME NEW k \in Logins, k # l \/ tokens[t].revoked
      PROVE  SessionOf(k)' = SessionOf(k)
  <2>1. ActiveOf(k)' = ActiveOf(k)
    BY <1>0, <1>1, <1>3 DEF ActiveOf
  <2> QED
    BY <1>1, <2>1, SessionKept DEF ActiveOf
<1>4. CASE tokens[t].revoked
  BY <1>1, <1>2, <1>3, <1>4 DEF SessionTable
<1>5. CASE ~tokens[t].revoked
  <2>1. t \in ActiveOf(l)
    BY <1>0, <1>1, <1>5 DEF ActiveOf
  <2>2. SessionOf(l) = [token |-> t, until |-> tokens[t].expires]
    BY <2>1, SessionOfActive DEF IndInv
  <2>3. SessionOf(l) # None
    <3>1. SessionOf(l) \in [token : Tokens, until : Nat]
      BY <1>1, <2>2 DEF IndInv, TypeOK
    <3> QED
      BY <3>1, RefreshConstants
  <2>4. ActiveOf(l)' = {}
    BY <1>1, <2>1 DEF ActiveOf, IndInv, OneActivePerLogin
  <2>5. SessionOf(l)' = None
    BY <2>4 DEF SessionOf
  <2>6. SessionTable' = [k \in Logins \cup {l} |-> IF k = l THEN None ELSE SessionTable[k]]
    BY <1>2, <1>3, <2>5 DEF SessionTable
  <2>7. SessionTable[l] # None /\ DOMAIN SessionTable = Logins
    BY <1>2, <2>3 DEF SessionTable
  <2>8. UNCHANGED clock
    BY DEF Logout
  <2> QED
    BY <1>0, <1>1, <2>6, <2>7, <2>8 DEF Sessions!End, Sessions!With, SessionTable
<1> QED
  BY <1>4, <1>5

\* src/auth implements LoginSessions: every step of a request is a step of the
\* thread of one login, or none that a reader of the table could see.
THEOREM Refinement == Spec => ImplementsSessions
<1>1. Init => Sessions!SessionInit
  <2> SUFFICES ASSUME Init PROVE Sessions!SessionInit
    OBVIOUS
  <2>1. tokens = <<>> /\ DOMAIN tokens = {} /\ clock = 0
    BY DEF Init
  <2>2. Logins = {}
    BY <2>1 DEF Logins
  <2>3. [l \in Logins |-> SessionOf(l)] = <<>>
    BY <2>2
  <2> QED
    BY <2>1, <2>3 DEF Sessions!SessionInit
<1>2. IndInv /\ IndInv' /\ [Next]_vars => [Sessions!SessionNext]_(Sessions!sessionVars)
  <2> SUFFICES ASSUME IndInv, IndInv', [Next]_vars
               PROVE  \/ Sessions!SessionNext
                      \/ SessionTable' = SessionTable /\ UNCHANGED clock
                         /\ DOMAIN tokens' = DOMAIN tokens
    BY DEF Sessions!sessionVars, SessionTable
  <2>1. ASSUME UNCHANGED tokens PROVE SessionTable' = SessionTable
    BY <2>1 DEF SessionTable, SessionOf, ActiveOf, Logins
  <2>2. CASE UNCHANGED <<tokens, clock>>
    BY <2>1, <2>2
  <2>3. ASSUME NEW r \in Requests, PersistRefresh(r) PROVE Sessions!SessionNext
    <3>1. req[r].token \in Tokens
      BY <2>3 DEF PersistRefresh, IndInv, RequestsSound, TypeOK
    <3> QED
      BY <2>3, <3>1, PersistStarts DEF Sessions!SessionNext
  <2>4. ASSUME NEW r \in Requests, NEW h \in Tokens, RotateRefresh(r, h)
        PROVE  Sessions!SessionNext
    <3>1. tokens[req[r].token].login \in Logins
      BY <2>4, RotatedIs DEF IndInv, ChainsSound
    <3> QED
      BY <2>4, <3>1, RotationRenews DEF Sessions!SessionNext
  <2>5. ASSUME NEW t \in Tokens, Logout(t)
        PROVE  \/ Sessions!SessionNext
               \/ SessionTable' = SessionTable /\ UNCHANGED clock
                  /\ DOMAIN tokens' = DOMAIN tokens
    <3>1. tokens[t].login \in Logins /\ UNCHANGED clock
      BY <2>5 DEF Logout, IndInv, ChainsSound
    <3> QED
      BY <2>5, <3>1, LogoutEnds DEF Sessions!SessionNext
  <2>6. CASE Tick
    BY <2>1, <2>6 DEF Tick, Sessions!SessionNext, Sessions!Pass, SessionTable
  <2>7. CASE Crash
    BY <2>2, <2>7 DEF Crash
  <2>8. ASSUME NEW r \in Requests, RotateRefused(r) \/ Deliver(r) \/ LoseAnswer(r)
        PROVE  UNCHANGED <<tokens, clock>>
    BY <2>8 DEF RotateRefused, Deliver, LoseAnswer
  <2>9. ASSUME NEW r \in Requests, NEW t \in Tokens,
               Login(r, t) \/ EnsureRefreshValid(r, t)
        PROVE  UNCHANGED <<tokens, clock>>
    BY <2>9 DEF Login, EnsureRefreshValid
  <2> QED
    BY <2>2, <2>3, <2>4, <2>5, <2>6, <2>7, <2>8, <2>9 DEF Next, vars
<1> QED
  BY <1>1, <1>2, Invariance, PTL DEF Spec, ImplementsSessions, Sessions!SessionSpec
=============================================================================
