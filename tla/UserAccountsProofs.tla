-------------------------- MODULE UserAccountsProofs --------------------------
(***************************************************************************)
(* What requests about one account keep of each other's work, for every    *)
(* set of accounts, uploads and requests in flight.  AccountsInv of        *)
(* UserAccounts says what a request knows when it stores the row it loaded *)
(* earlier: in which columns the wanted row may differ from the loaded     *)
(* one, that its avatar is of one upload and its time not in the past of   *)
(* the loaded one.                                                         *)
(***************************************************************************)
EXTENDS UserAccounts, TLAPS

(***************************************************************************)
(* The shape of a request's local state, by its step.                      *)
(***************************************************************************)
LEMMA Shapes ==
    ASSUME NEW q \in AccountRequestState
    PROVE  /\ q.step \in {"idle", "insert", "stamp", "store"}
           /\ q.step = "insert" => q \in [step : {"insert"}, name : Names, password : Passwords]
           /\ q.step = "stamp" =>
                 q \in [step : {"stamp"}, name : Names, force : BOOLEAN, loaded : AccountRow]
           /\ q.step = "store" =>
                 q \in [step : {"store"}, op : {"seen", "bio", "avatar"}, name : Names,
                        loaded : AccountRow, wanted : AccountRow]
BY DEF AccountRequestState, AIdle

(***************************************************************************)
(* One request changes its local state to q.                               *)
(***************************************************************************)
LEMMA OneAccountRequestMoves ==
    ASSUME AccountsTypeOK, NEW r \in AccountRequests, NEW q \in AccountRequestState,
           areq' = [areq EXCEPT ![r] = q]
    PROVE  /\ areq' \in [AccountRequests -> AccountRequestState]
           /\ areq'[r] = q
           /\ \A s \in AccountRequests \ {r} : areq'[s] = areq[s]
BY DEF AccountsTypeOK

LEMMA AIdleTyped == AIdle \in AccountRequestState /\ AIdle.step = "idle"
BY DEF AIdle, AccountRequestState

LEMMA AccountsInitInv == AccountsInit => AccountsInv
<1> SUFFICES ASSUME AccountsInit PROVE AccountsInv
  OBVIOUS
<1>1. AccountsTypeOK
  BY AIdleTyped DEF AccountsInit, AccountsTypeOK
<1>2. \A r \in AccountRequests : areq[r].step = "idle"
  BY AIdleTyped DEF AccountsInit
<1> QED
  BY <1>1, <1>2 DEF AccountsInit, AccountsInv, PendingSound

(***************************************************************************)
(* While accounts only gain rows and the clock does not go back, the rows  *)
(* and the other requests stay sound when request r moves to a sound q.    *)
(***************************************************************************)
LEMMA RequestMoves ==
    ASSUME AccountsInv, NEW r \in AccountRequests, NEW q \in AccountRequestState,
           areq' = [areq EXCEPT ![r] = q],
           accounts' \in [DOMAIN accounts' -> AccountRow],
           DOMAIN accounts \subseteq DOMAIN accounts', DOMAIN accounts' \subseteq Names,
           \A n \in DOMAIN accounts' : RowSound(accounts'[n], now'),
           now' \in Nat, now <= now',
           PendingSound(r)'
    PROVE  AccountsInv'
<1>1. AccountsTypeOK'
  BY OneAccountRequestMoves DEF AccountsInv, AccountsTypeOK
<1>2. ASSUME NEW s \in AccountRequests, s # r
      PROVE  PendingSound(s)'
  <2>1. areq'[s] = areq[s] /\ areq[s] \in AccountRequestState
    BY <1>2, OneAccountRequestMoves DEF AccountsInv, AccountsTypeOK
  <2>2. PendingSound(s)
    BY DEF AccountsInv
  <2>3. CASE areq[s].step = "stamp"
    <3>1. areq[s].loaded \in AccountRow
      BY <2>1, <2>3, Shapes
    <3>2. RowSound(areq[s].loaded, now')
      BY <2>1, <2>2, <2>3, <3>1 DEF PendingSound, RowSound, AccountRow, AccountsInv, AccountsTypeOK
    <3> QED
      BY <2>1, <2>2, <2>3, <3>2 DEF PendingSound
  <2>4. CASE areq[s].step = "store"
    <3>1. areq[s].loaded \in AccountRow /\ areq[s].wanted \in AccountRow
      BY <2>1, <2>4, Shapes
    <3>2. RowSound(areq[s].loaded, now') /\ RowSound(areq[s].wanted, now')
      BY <2>1, <2>2, <2>4, <3>1
      DEF PendingSound, StoreSound, RowSound, AccountRow, AccountsInv, AccountsTypeOK
    <3>3. StoreSound(areq[s], now')
      BY <2>1, <2>2, <2>4, <3>2 DEF PendingSound, StoreSound, Whole
    <3> QED
      BY <2>1, <2>2, <2>4, <3>2, <3>3 DEF PendingSound
  <2> QED
    BY <2>1, <2>3, <2>4 DEF PendingSound
<1> QED
  BY <1>1, <1>2 DEF AccountsInv

LEMMA RowsKept ==
    ASSUME AccountsInv, UNCHANGED accounts, now' \in Nat, now <= now'
    PROVE  /\ accounts' \in [DOMAIN accounts' -> AccountRow]
           /\ DOMAIN accounts \subseteq DOMAIN accounts' /\ DOMAIN accounts' \subseteq Names
           /\ \A n \in DOMAIN accounts' : RowSound(accounts'[n], now')
BY DEF AccountsInv, AccountsTypeOK, RowSound, AccountRow

LEMMA AnswerKeeps ==
    ASSUME AccountsInv, NEW r \in AccountRequests, AnswerAccount(r),
           accounts' \in [DOMAIN accounts' -> AccountRow],
           DOMAIN accounts \subseteq DOMAIN accounts', DOMAIN accounts' \subseteq Names,
           \A n \in DOMAIN accounts' : RowSound(accounts'[n], now'),
           now' \in Nat, now <= now'
    PROVE  AccountsInv'
<1>1. areq'[r] = AIdle
  BY DEF AnswerAccount, AccountsInv, AccountsTypeOK
<1>2. PendingSound(r)'
  BY <1>1, AIdleTyped DEF PendingSound
<1> QED
  BY <1>2, RequestMoves, AIdleTyped DEF AnswerAccount

LEMMA RegisterLookupStep ==
    ASSUME AccountsInv, NEW r \in AccountRequests, NEW n \in Names, NEW p \in Passwords,
           RegisterLookup(r, n, p)
    PROVE  AccountsInv'
<1> DEFINE q == [step |-> "insert", name |-> n, password |-> p]
<1>1. q \in AccountRequestState
  BY DEF AccountRequestState
<1>2. areq' = [areq EXCEPT ![r] = q] /\ UNCHANGED <<accounts, now>>
  BY DEF RegisterLookup
<1>3. PendingSound(r)'
  BY <1>1, <1>2, OneAccountRequestMoves DEF PendingSound, AccountsInv
<1>4. now' \in Nat /\ now <= now'
  BY <1>2 DEF AccountsInv, AccountsTypeOK
<1> HIDE DEF q
<1> QED
  BY <1>1, <1>2, <1>3, <1>4, RowsKept, RequestMoves

LEMMA RegisterCommitStep ==
    ASSUME AccountsInv, NEW r \in AccountRequests, RegisterCommit(r) PROVE AccountsInv'
<1>1. areq[r].name \in Names /\ areq[r].password \in Passwords
  BY Shapes DEF RegisterCommit, AccountsInv, AccountsTypeOK
<1>2. now' = now /\ now \in Nat /\ AnswerAccount(r)
  BY DEF RegisterCommit, AccountsInv, AccountsTypeOK
<1>3. CASE AddAccount(areq[r].name, NewAccount(areq[r].password))
  <2> DEFINE row == NewAccount(areq[r].password)
  <2>1. row \in AccountRow /\ row.avatar = NoValue /\ row.seen = NoValue
    BY <1>1 DEF NewAccount, AccountRow
  <2>2. /\ DOMAIN accounts' = DOMAIN accounts \cup {areq[r].name}
        /\ \A n \in DOMAIN accounts' : accounts'[n] = IF n = areq[r].name THEN row ELSE accounts[n]
        /\ accounts' \in [DOMAIN accounts' -> AccountRow]
    BY <1>3, <2>1 DEF AddAccount, AccountsInv, AccountsTypeOK
  <2>3. \A n \in DOMAIN accounts' : RowSound(accounts'[n], now')
    BY <1>2, <2>1, <2>2, AccountConstants DEF RowSound, AccountsInv
  <2> QED
    BY <1>1, <1>2, <2>2, <2>3, AnswerKeeps DEF AccountsInv, AccountsTypeOK
<1>4. CASE UNCHANGED accounts
  BY <1>2, <1>4, RowsKept, AnswerKeeps
<1> QED
  BY <1>3, <1>4 DEF RegisterCommit

LEMMA LoadForSeenStep ==
    ASSUME AccountsInv, NEW r \in AccountRequests, NEW n \in Names, NEW force \in BOOLEAN,
           LoadForSeen(r, n, force)
    PROVE  AccountsInv'
<1> DEFINE q == [step |-> "stamp", name |-> n, force |-> force, loaded |-> accounts[n]]
<1>1. accounts[n] \in AccountRow /\ RowSound(accounts[n], now)
  BY DEF LoadForSeen, AccountsInv, AccountsTypeOK
<1>2. q \in AccountRequestState
  BY <1>1 DEF AccountRequestState
<1>3. areq' = [areq EXCEPT ![r] = q] /\ UNCHANGED <<accounts, now>>
  BY DEF LoadForSeen
<1>4. areq'[r] = q
  BY <1>2, <1>3, OneAccountRequestMoves DEF AccountsInv
<1>5. PendingSound(r)'
  BY <1>1, <1>3, <1>4 DEF PendingSound, RowSound, LoadForSeen
<1>6. now' \in Nat /\ now <= now'
  BY <1>3 DEF AccountsInv, AccountsTypeOK
<1> HIDE DEF q
<1> QED
  BY <1>2, <1>3, <1>5, <1>6, RowsKept, RequestMoves

(***************************************************************************)
(* A request that is to store a row leaves its check.                      *)
(***************************************************************************)
LEMMA ToStoreStep ==
    ASSUME AccountsInv, NEW r \in AccountRequests, NEW op \in {"seen", "bio", "avatar"},
           NEW n \in DOMAIN accounts, NEW loaded \in AccountRow, NEW wanted \in AccountRow,
           ToStore(r, op, n, loaded, wanted), UNCHANGED accounts, now' \in Nat, now <= now',
           RowSound(loaded, now'),
           StoreSound([step |-> "store", op |-> op, name |-> n,
                       loaded |-> loaded, wanted |-> wanted], now')
    PROVE  AccountsInv'
<1> DEFINE q == [step |-> "store", op |-> op, name |-> n, loaded |-> loaded, wanted |-> wanted]
<1>1. q \in AccountRequestState /\ q.step = "store" /\ q.name = n /\ q.loaded = loaded
  BY DEF AccountRequestState, AccountsInv, AccountsTypeOK
<1>2. areq' = [areq EXCEPT ![r] = q]
  BY DEF ToStore
<1>3. areq'[r] = q
  BY <1>1, <1>2, OneAccountRequestMoves DEF AccountsInv
<1>4. StoreSound(areq'[r], now')
  BY <1>3 DEF StoreSound
<1>5. PendingSound(r)'
  BY <1>1, <1>3, <1>4 DEF PendingSound
<1> HIDE DEF q
<1> QED
  BY <1>1, <1>2, <1>5, RowsKept, RequestMoves

LEMMA StampStep ==
    ASSUME AccountsInv, NEW r \in AccountRequests, Stamp(r) PROVE AccountsInv'
<1> DEFINE q == areq[r]
           t == now + 1
           wanted == [q.loaded EXCEPT !.seen = t]
<1>1. /\ q.name \in Names /\ q.loaded \in AccountRow
      /\ q.name \in DOMAIN accounts /\ RowSound(q.loaded, now)
  BY Shapes DEF Stamp, AccountsInv, AccountsTypeOK, PendingSound
<1>2. now \in Nat /\ now' = t /\ t \in Nat /\ now <= t /\ UNCHANGED accounts
  BY DEF Stamp, AccountsInv, AccountsTypeOK
<1>3. CASE ToStore(r, "seen", q.name, q.loaded, wanted)
  <2>1. /\ wanted \in AccountRow /\ wanted.seen = t
        /\ wanted.password = q.loaded.password /\ wanted.bio = q.loaded.bio
        /\ wanted.avatar = q.loaded.avatar /\ wanted.mime = q.loaded.mime
    BY <1>1, <1>2 DEF AccountRow
  <2>2. RowSound(q.loaded, now')
    BY <1>1, <1>2 DEF RowSound, AccountRow
  <2> HIDE DEF wanted
  <2>3. StoreSound([step |-> "store", op |-> "seen", name |-> q.name,
                    loaded |-> q.loaded, wanted |-> wanted], now')
    BY <1>1, <1>2, <2>1, <2>2, AccountConstants DEF StoreSound, RowSound
  <2> QED
    BY <1>1, <1>2, <1>3, <2>1, <2>2, <2>3, ToStoreStep
<1>4. CASE AnswerAccount(r)
  BY <1>2, <1>4, RowsKept, AnswerKeeps
<1> QED
  BY <1>3, <1>4 DEF Stamp

(***************************************************************************)
(* A request for a bio or an avatar loads the row and changes its copy.    *)
(***************************************************************************)
LEMMA LoadedRow ==
    ASSUME AccountsInv, NEW n \in DOMAIN accounts
    PROVE  accounts[n] \in AccountRow /\ RowSound(accounts[n], now)
BY DEF AccountsInv, AccountsTypeOK

LEMMA LoadForBioStep ==
    ASSUME AccountsInv, NEW r \in AccountRequests, NEW n \in Names,
           NEW b \in Bios \cup {NoValue}, LoadForBio(r, n, b)
    PROVE  AccountsInv'
<1> DEFINE l == accounts[n]
           w == [l EXCEPT !.bio = b]
<1>1. /\ n \in DOMAIN accounts /\ UNCHANGED <<accounts, now>> /\ now \in Nat
      /\ ToStore(r, "bio", n, l, w)
  BY DEF LoadForBio, AccountsInv, AccountsTypeOK
<1>2. l \in AccountRow /\ RowSound(l, now)
  BY <1>1, LoadedRow
<1>3. /\ w \in AccountRow /\ w.password = l.password /\ w.seen = l.seen
      /\ w.avatar = l.avatar /\ w.mime = l.mime
  BY <1>2 DEF AccountRow
<1> HIDE DEF w, l
<1>4. StoreSound([step |-> "store", op |-> "bio", name |-> n, loaded |-> l, wanted |-> w], now)
  BY <1>2, <1>3 DEF StoreSound, RowSound
<1> QED
  BY <1>1, <1>2, <1>3, <1>4, ToStoreStep

LEMMA AvatarStep ==
    ASSUME AccountsInv, NEW r \in AccountRequests, NEW n \in DOMAIN accounts,
           NEW a \in Files \cup {NoValue},
           NEW m \in {MimeOf[f] : f \in Files} \cup {NoValue},
           a # EmptyFile, IF a = NoValue THEN m = NoValue ELSE m = MimeOf[a],
           ToStore(r, "avatar", n, accounts[n], [accounts[n] EXCEPT !.avatar = a, !.mime = m]),
           UNCHANGED <<accounts, now>>
    PROVE  AccountsInv'
<1> DEFINE l == accounts[n]
           w == [l EXCEPT !.avatar = a, !.mime = m]
<1>1. ToStore(r, "avatar", n, l, w) /\ now \in Nat
  BY DEF AccountsInv, AccountsTypeOK
<1>2. l \in AccountRow /\ RowSound(l, now)
  BY LoadedRow
<1>3. /\ w \in AccountRow /\ w.password = l.password /\ w.seen = l.seen /\ w.bio = l.bio
      /\ w.avatar = a /\ w.mime = m
  BY <1>2 DEF AccountRow
<1> HIDE DEF w, l
<1>4. StoreSound([step |-> "store", op |-> "avatar", name |-> n, loaded |-> l, wanted |-> w], now)
  BY <1>2, <1>3 DEF StoreSound, RowSound, Whole
<1> QED
  BY <1>1, <1>2, <1>3, <1>4, ToStoreStep

LEMMA LoadForUploadStep ==
    ASSUME AccountsInv, NEW r \in AccountRequests, NEW n \in Names, NEW f \in Files,
           LoadForUpload(r, n, f)
    PROVE  AccountsInv'
<1>1. MimeOf[f] \in {MimeOf[g] : g \in Files} /\ f # NoValue /\ f # EmptyFile
  BY AccountConstants DEF LoadForUpload
<1> QED
  BY <1>1, AvatarStep DEF LoadForUpload, UploadUnchecked

LEMMA LoadForRemovalStep ==
    ASSUME AccountsInv, NEW r \in AccountRequests, NEW n \in Names, LoadForRemoval(r, n)
    PROVE  AccountsInv'
BY AvatarStep, AccountConstants DEF LoadForRemoval

(***************************************************************************)
(* The UPDATE of a request: in each column the wanted value, if it differs *)
(* from the loaded one, and otherwise what is stored.                      *)
(***************************************************************************)
LEMMA UpdatedRow ==
    ASSUME NEW row \in AccountRow, NEW l \in AccountRow, NEW w \in AccountRow
    PROVE  /\ Updated(row, l, w) \in AccountRow
           /\ Updated(row, l, w).password = IF w.password = l.password THEN row.password ELSE w.password
           /\ Updated(row, l, w).bio = IF w.bio = l.bio THEN row.bio ELSE w.bio
           /\ Updated(row, l, w).seen = IF w.seen = l.seen THEN row.seen ELSE w.seen
           /\ Updated(row, l, w).avatar = IF w.avatar = l.avatar THEN row.avatar ELSE w.avatar
           /\ Updated(row, l, w).mime = IF w.mime = l.mime THEN row.mime ELSE w.mime
BY DEF Updated, AccountRow

LEMMA StoreOutcome ==
    ASSUME AccountsInv, NEW r \in AccountRequests, Store(r)
    PROVE  /\ areq[r] \in [step : {"store"}, op : {"seen", "bio", "avatar"}, name : Names,
                           loaded : AccountRow, wanted : AccountRow]
           /\ areq[r].name \in DOMAIN accounts /\ DOMAIN accounts' = DOMAIN accounts
           /\ accounts'[areq[r].name] =
                 Updated(accounts[areq[r].name], areq[r].loaded, areq[r].wanted)
           /\ \A n \in DOMAIN accounts \ {areq[r].name} : accounts'[n] = accounts[n]
           /\ StoreSound(areq[r], now)
BY Shapes DEF Store, AccountsInv, AccountsTypeOK, PendingSound

LEMMA StoreStep ==
    ASSUME AccountsInv, NEW r \in AccountRequests, Store(r) PROVE AccountsInv'
<1> DEFINE n == areq[r].name
           l == areq[r].loaded
           w == areq[r].wanted
           row == accounts[n]
<1>1. /\ n \in DOMAIN accounts /\ l \in AccountRow /\ w \in AccountRow
      /\ row \in AccountRow /\ RowSound(row, now) /\ RowSound(w, now)
  BY StoreOutcome DEF StoreSound, AccountsInv, AccountsTypeOK
<1>2. Updated(row, l, w) \in AccountRow /\ RowSound(Updated(row, l, w), now)
  BY <1>1, UpdatedRow DEF RowSound
<1>3. accounts' = [accounts EXCEPT ![n] = Updated(row, l, w)] /\ now' = now /\ now \in Nat
  BY DEF Store, AccountsInv, AccountsTypeOK
<1>4. accounts' \in [DOMAIN accounts' -> AccountRow] /\ DOMAIN accounts' = DOMAIN accounts
  BY <1>1, <1>2, <1>3 DEF AccountsInv, AccountsTypeOK
<1>5. \A m \in DOMAIN accounts' : RowSound(accounts'[m], now')
  BY <1>1, <1>2, <1>3 DEF AccountsInv, AccountsTypeOK
<1> QED
  BY <1>3, <1>4, <1>5, AnswerKeeps DEF Store, AccountsInv, AccountsTypeOK

LEMMA AccountsStepInv == AccountsInv /\ [AccountsNext]_accountVars => AccountsInv'
<1> SUFFICES ASSUME AccountsInv, [AccountsNext]_accountVars PROVE AccountsInv'
  OBVIOUS
<1>1. CASE UNCHANGED accountVars
  BY <1>1 DEF accountVars, AccountsInv, AccountsTypeOK, PendingSound
<1>2. ASSUME NEW r \in AccountRequests, NEW n \in Names, NEW p \in Passwords,
             RegisterLookup(r, n, p)
      PROVE  AccountsInv'
  BY <1>2, RegisterLookupStep
<1>3. ASSUME NEW r \in AccountRequests,
             RegisterCommit(r) \/ Stamp(r) \/ Store(r)
      PROVE  AccountsInv'
  BY <1>3, RegisterCommitStep, StampStep, StoreStep
<1>4. ASSUME NEW r \in AccountRequests, NEW n \in Names, NEW force \in BOOLEAN,
             LoadForSeen(r, n, force)
      PROVE  AccountsInv'
  BY <1>4, LoadForSeenStep
<1>5. ASSUME NEW r \in AccountRequests, NEW n \in Names, NEW b \in Bios \cup {NoValue},
             LoadForBio(r, n, b)
      PROVE  AccountsInv'
  BY <1>5, LoadForBioStep
<1>6. ASSUME NEW r \in AccountRequests, NEW n \in Names, NEW f \in Files,
             LoadForUpload(r, n, f)
      PROVE  AccountsInv'
  BY <1>6, LoadForUploadStep
<1>7. ASSUME NEW r \in AccountRequests, NEW n \in Names, LoadForRemoval(r, n)
      PROVE  AccountsInv'
  BY <1>7, LoadForRemovalStep
<1> QED
  BY <1>1, <1>2, <1>3, <1>4, <1>5, <1>6, <1>7 DEF AccountsNext

\* The inductive invariant of the accounts and of the requests under way holds in
\* every reachable state.
THEOREM AccountsInvariance == AccountsSpec => []AccountsInv
<1>1. AccountsInit => AccountsInv
  BY AccountsInitInv
<1>2. AccountsInv /\ [AccountsNext]_accountVars => AccountsInv'
  BY AccountsStepInv
<1> QED
  BY <1>1, <1>2, PTL DEF AccountsSpec

\* Rows and local variables of the handlers of users/service.py keep their types.
THEOREM AccountsTypeCorrect == AccountsSpec => []AccountsTypeOK
<1>1. AccountsInv => AccountsTypeOK
  BY DEF AccountsInv
<1> QED
  BY <1>1, AccountsInvariance, PTL

\* An avatar that serialize_profile speaks of is one get_user_avatar serves, for
\* whatever is uploaded: an upload without bytes is never stored.
THEOREM AvatarsServed == AccountsSpec => []AdvertisedAvatarServed
<1>1. AccountsInv => AdvertisedAvatarServed
  BY AccountConstants
  DEF AccountsInv, AdvertisedAvatarServed, RowSound, HasAvatar, AvatarFound
<1> QED
  BY <1>1, AccountsInvariance, PTL

(***************************************************************************)
(* The row of an account changes by the commit of a request only.          *)
(***************************************************************************)
LEMMA OnlyStoreChanges ==
    ASSUME AccountsInv, AccountsNext, NEW n \in DOMAIN accounts
    PROVE  /\ n \in DOMAIN accounts'
           /\ accounts'[n] # accounts[n] =>
                 \E r \in AccountRequests : Store(r) /\ areq[r].name = n
<1>1. ASSUME NEW r \in AccountRequests, Store(r)
      PROVE  /\ n \in DOMAIN accounts'
             /\ accounts'[n] # accounts[n] => areq[r].name = n
  BY <1>1, StoreOutcome
<1>2. ASSUME NEW r \in AccountRequests, RegisterCommit(r)
      PROVE  n \in DOMAIN accounts' /\ accounts'[n] = accounts[n]
  BY <1>2 DEF RegisterCommit, AddAccount
<1>3. ASSUME UNCHANGED accounts
      PROVE  n \in DOMAIN accounts' /\ accounts'[n] = accounts[n]
  BY <1>3
<1>4. \/ UNCHANGED accounts
      \/ \E r \in AccountRequests : RegisterCommit(r) \/ Store(r)
  BY DEF AccountsNext, RegisterLookup, LoadForSeen, Stamp, LoadForBio, LoadForUpload,
         UploadUnchecked, LoadForRemoval
<1> QED
  BY <1>1, <1>2, <1>3, <1>4

\* A request that loaded the row earlier stores the columns it is about and no
\* others, so that none undoes another's, and accounts are never replaced.
THEOREM ColumnsKept == AccountsSpec => NoLostColumn
<1>1. ASSUME AccountsInv, AccountsNext, NEW n \in DOMAIN accounts
      PROVE  /\ n \in DOMAIN accounts'
             /\ \A col \in DOMAIN accounts[n] :
                   accounts'[n][col] # accounts[n][col] =>
                      \E r \in AccountRequests :
                         /\ areq[r].step = "store" /\ areq'[r].step = "idle"
                         /\ areq[r].name = n
                         /\ col \in Columns[areq[r].op]
  <2>1. n \in DOMAIN accounts'
    BY <1>1, OnlyStoreChanges
  <2>2. ASSUME NEW col \in DOMAIN accounts[n], accounts'[n][col] # accounts[n][col]
        PROVE  \E r \in AccountRequests :
                  /\ areq[r].step = "store" /\ areq'[r].step = "idle"
                  /\ areq[r].name = n
                  /\ col \in Columns[areq[r].op]
    <3>1. PICK r \in AccountRequests : Store(r) /\ areq[r].name = n
      BY <1>1, <2>2, OnlyStoreChanges
    <3> DEFINE l == areq[r].loaded
               w == areq[r].wanted
               row == accounts[n]
    <3>2. /\ l \in AccountRow /\ w \in AccountRow /\ row \in AccountRow
          /\ areq[r].op \in {"seen", "bio", "avatar"}
          /\ accounts'[n] = Updated(row, l, w) /\ StoreSound(areq[r], now)
      BY <1>1, <3>1, StoreOutcome DEF AccountsInv, AccountsTypeOK
    <3>3. areq[r].step = "store" /\ areq'[r].step = "idle"
      BY <1>1, <3>1, AIdleTyped DEF Store, AnswerAccount, AccountsInv, AccountsTypeOK
    <3>4. col \in {"password", "bio", "seen", "avatar", "mime"}
      BY <3>2 DEF AccountRow
    <3>5. col \in Columns[areq[r].op]
      <4>1. w[col] # l[col]
        BY <2>2, <3>2 DEF Updated
      <4>2. CASE areq[r].op = "seen"
        BY <3>2, <3>4, <4>1, <4>2 DEF StoreSound, Columns
      <4>3. CASE areq[r].op = "bio"
        BY <3>2, <3>4, <4>1, <4>3 DEF StoreSound, Columns
      <4>4. CASE areq[r].op = "avatar"
        BY <3>2, <3>4, <4>1, <4>4 DEF StoreSound, Columns
      <4> QED
        BY <3>2, <4>2, <4>3, <4>4
    <3> QED
      BY <3>1, <3>3, <3>5
  <2> QED
    BY <2>1, <2>2
<1>2. AccountsInv /\ [AccountsNext]_accountVars =>
         [\A n \in DOMAIN accounts :
             /\ n \in DOMAIN accounts'
             /\ \A col \in DOMAIN accounts[n] :
                   accounts'[n][col] # accounts[n][col] =>
                      \E r \in AccountRequests :
                         /\ areq[r].step = "store" /\ areq'[r].step = "idle"
                         /\ areq[r].name = n
                         /\ col \in Columns[areq[r].op]]_accountVars
  BY <1>1
<1> QED
  BY <1>2, AccountsInvariance, PTL DEF AccountsSpec, NoLostColumn

(***************************************************************************)
(* A request at its commit answers by that commit, one at its stamp by the *)
(* stamp.                                                                  *)
(***************************************************************************)
LEMMA WhoAnswers ==
    ASSUME AccountsInv, AccountsNext, NEW r \in AccountRequests, areq'[r].step = "idle"
    PROVE  /\ areq[r].step = "store" => Store(r)
           /\ areq[r].step = "stamp" => Stamp(r)
<1>1. ASSUME NEW s \in AccountRequests, s # r, NEW q, areq' = [areq EXCEPT ![s] = q]
      PROVE  areq'[r] = areq[r]
  BY <1>1 DEF AccountsInv, AccountsTypeOK
<1>2. ASSUME NEW s \in AccountRequests, s # r, areq[r].step \in {"store", "stamp"}
      PROVE  /\ \A n \in Names, p \in Passwords : ~RegisterLookup(s, n, p)
             /\ ~RegisterCommit(s) /\ ~Stamp(s) /\ ~Store(s)
             /\ \A n \in Names, force \in BOOLEAN : ~LoadForSeen(s, n, force)
             /\ \A n \in Names, b \in Bios \cup {NoValue} : ~LoadForBio(s, n, b)
             /\ \A n \in Names, f \in Files : ~LoadForUpload(s, n, f)
             /\ \A n \in Names : ~LoadForRemoval(s, n)
  BY <1>1, <1>2
  DEF RegisterLookup, RegisterCommit, Stamp, Store, LoadForSeen, LoadForBio, LoadForUpload,
      UploadUnchecked, LoadForRemoval, ToStore, AnswerAccount
<1>3. ASSUME areq[r].step \in {"store", "stamp"}
      PROVE  /\ \A n \in Names, p \in Passwords : ~RegisterLookup(r, n, p)
             /\ ~RegisterCommit(r)
             /\ \A n \in Names, force \in BOOLEAN : ~LoadForSeen(r, n, force)
             /\ \A n \in Names, b \in Bios \cup {NoValue} : ~LoadForBio(r, n, b)
             /\ \A n \in Names, f \in Files : ~LoadForUpload(r, n, f)
             /\ \A n \in Names : ~LoadForRemoval(r, n)
             /\ Stamp(r) => areq[r].step = "stamp"
             /\ Store(r) => areq[r].step = "store"
  BY <1>3
  DEF RegisterLookup, RegisterCommit, Stamp, Store, LoadForSeen, LoadForBio, LoadForUpload,
      UploadUnchecked, LoadForRemoval
<1> QED
  BY <1>2, <1>3 DEF AccountsNext

\* save_avatar and remove_avatar leave the bytes and the type of one upload, or
\* none, unless another request has changed them since the row was loaded.
THEOREM AvatarsWhole == AccountsSpec => AvatarWholeUnlessRaced
<1>1. ASSUME AccountsInv, AccountsNext, NEW r \in AccountRequests, StoresAvatar(r),
             accounts[areq[r].name].avatar = areq[r].loaded.avatar,
             accounts[areq[r].name].mime = areq[r].loaded.mime
      PROVE  Whole(accounts'[areq[r].name])
  <2> DEFINE l == areq[r].loaded
             w == areq[r].wanted
             row == accounts[areq[r].name]
  <2>1. Store(r) /\ areq[r].op = "avatar"
    BY <1>1, WhoAnswers DEF StoresAvatar
  <2>2. /\ l \in AccountRow /\ w \in AccountRow /\ row \in AccountRow
        /\ accounts'[areq[r].name] = Updated(row, l, w) /\ Whole(w)
    BY <1>1, <2>1, StoreOutcome DEF AccountsInv, AccountsTypeOK, StoreSound
  <2>3. Updated(row, l, w).avatar = w.avatar /\ Updated(row, l, w).mime = w.mime
    BY <1>1, <2>2, UpdatedRow
  <2> QED
    BY <2>2, <2>3 DEF Whole
<1>2. AccountsInv /\ [AccountsNext]_accountVars =>
         [\A r \in AccountRequests :
             StoresAvatar(r) =>
                LET row == accounts[areq[r].name]  loaded == areq[r].loaded IN
                (row.avatar = loaded.avatar /\ row.mime = loaded.mime) =>
                   Whole(accounts'[areq[r].name])]_accountVars
  BY <1>1
<1> QED
  BY <1>2, AccountsInvariance, PTL DEF AccountsSpec, AvatarWholeUnlessRaced

\* update_last_seen leaves a time that is not before the stored one and less than
\* the throttle behind the clock, unless another request has stored one meanwhile.
THEOREM SeenFresh == AccountsSpec => SeenKeptFresh
<1>1. ASSUME AccountsInv, AccountsNext, NEW r \in AccountRequests, SeenHandled(r),
             accounts[areq[r].name].seen = areq[r].loaded.seen
      PROVE  LET old == accounts[areq[r].name].seen
                 new == accounts'[areq[r].name].seen IN
             /\ new # NoValue
             /\ old # NoValue => old <= new
             /\ new = SeenAt(r) \/ SeenAt(r) - new < Throttle
  <2> DEFINE l == areq[r].loaded
             w == areq[r].wanted
             row == accounts[areq[r].name]
  <2>1. CASE areq[r].step = "stamp"
    <3>1. Stamp(r) /\ areq'[r].step = "idle"
      BY <1>1, <2>1, WhoAnswers DEF SeenHandled
    <3>2. l \in AccountRow /\ RowSound(l, now) /\ now \in Nat /\ now' = now + 1
      BY <1>1, <2>1, <3>1, Shapes DEF Stamp, AccountsInv, AccountsTypeOK, PendingSound
    <3>3. ~Due(areq[r], now + 1)
      BY <1>1, <3>1 DEF Stamp, ToStore, AccountsInv, AccountsTypeOK
    <3>4. l.seen \in Nat /\ now + 1 - l.seen < Throttle
      BY <3>2, <3>3, AccountConstants DEF Due, AccountRow
    <3>5. accounts' = accounts
      BY <3>1 DEF Stamp
    <3> QED
      BY <1>1, <2>1, <3>2, <3>4, <3>5, AccountConstants DEF SeenAt
  <2>2. CASE areq[r].step = "store" /\ areq[r].op = "seen"
    <3>1. Store(r)
      BY <1>1, <2>2, WhoAnswers DEF SeenHandled
    <3>2. /\ l \in AccountRow /\ w \in AccountRow /\ row \in AccountRow
          /\ accounts'[areq[r].name] = Updated(row, l, w)
          /\ w.seen # NoValue /\ (l.seen # NoValue => l.seen <= w.seen)
      BY <1>1, <2>2, <3>1, StoreOutcome DEF AccountsInv, AccountsTypeOK, StoreSound
    <3>3. Updated(row, l, w).seen = w.seen
      BY <1>1, <3>2, UpdatedRow
    <3> QED
      BY <1>1, <2>2, <3>2, <3>3 DEF SeenAt
  <2> QED
    BY <1>1, <2>1, <2>2 DEF SeenHandled
<1>2. AccountsInv /\ [AccountsNext]_accountVars =>
         [\A r \in AccountRequests :
             SeenHandled(r) =>
                LET old == accounts[areq[r].name].seen
                    new == accounts'[areq[r].name].seen IN
                old = areq[r].loaded.seen =>
                   /\ new # NoValue
                   /\ old # NoValue => old <= new
                   /\ new = SeenAt(r) \/ SeenAt(r) - new < Throttle]_accountVars
  BY <1>1
<1> QED
  BY <1>2, AccountsInvariance, PTL DEF AccountsSpec, SeenKeptFresh
=============================================================================
