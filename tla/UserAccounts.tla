---------------------------- MODULE UserAccounts ----------------------------
(***************************************************************************)
(* The table users: registration (src/auth/router.py), profile, avatar and *)
(* last seen (src/users/service.py, src/users/router.py).                  *)
(*                                                                         *)
(* A request about an account loads its row (get_current_user, or          *)
(* authenticate_user for a login), changes the loaded object and commits.  *)
(* The UPDATE names the columns whose value differs from the loaded one    *)
(* and no others; without any there is no UPDATE.  Nothing locks the row,  *)
(* and other requests run between load and commit.  Reading endpoints and  *)
(* refused requests change nothing and are left out, and so is what the    *)
(* answer repeats of the stored row.                                       *)
(***************************************************************************)
EXTENDS Integers

CONSTANTS
    Names,              \* usernames; an account is known by its name
    Passwords, Bios,
    Files,              \* uploads of an image type and within the size limit
    EmptyFile,          \* the one of them that has no bytes
    MimeOf,             \* the content type a file is sent with
    Throttle,           \* LAST_SEEN_THROTTLE_SECONDS
    MaxNow,             \* bound: no request that reads the clock begins later
    NoValue,            \* NULL
    AccountRequests     \* the HTTP requests that may be in flight together

ASSUME AccountConstants ==
    /\ NoValue \notin Nat \cup Files
    /\ EmptyFile \in Files
    /\ \A f \in Files : MimeOf[f] # NoValue
    /\ Throttle \in Nat /\ MaxNow \in Nat

VARIABLES
    accounts,       \* users: name -> its row
    now,            \* the last reading of datetime.now()
    areq            \* the local state of each request

accountVars == <<accounts, now, areq>>

NewAccount(p) ==
    [password |-> p, bio |-> NoValue, seen |-> NoValue, avatar |-> NoValue, mime |-> NoValue]

\* The row after the UPDATE of a request that loaded one row and wanted another.
Updated(row, loaded, wanted) ==
    [col \in DOMAIN row |-> IF wanted[col] = loaded[col] THEN row[col] ELSE wanted[col]]

AIdle == [step |-> "idle"]

AnswerAccount(r) == areq' = [areq EXCEPT ![r] = AIdle]

\* Request r, about account n, is to store the row wanted.
ToStore(r, op, n, loaded, wanted) ==
    areq' = [areq EXCEPT ![r] = [step |-> "store", op |-> op, name |-> n,
                                 loaded |-> loaded, wanted |-> wanted]]

AccountsInit ==
    /\ accounts = <<>> /\ now = 0
    /\ areq = [r \in AccountRequests |-> AIdle]

(* register *)

RegisterLookup(r, n, p) ==
    /\ areq[r].step = "idle"
    /\ n \notin DOMAIN accounts
    /\ areq' = [areq EXCEPT ![r] = [step |-> "insert", name |-> n, password |-> p]]
    /\ UNCHANGED <<accounts, now>>

AddAccount(n, row) ==
    accounts' = [m \in DOMAIN accounts \cup {n} |-> IF m = n THEN row ELSE accounts[m]]

\* create_user.  A name taken since the lookup costs the request its answer: the
\* IntegrityError is not handled.
RegisterCommit(r) ==
    /\ areq[r].step = "insert"
    /\ \/ /\ areq[r].name \notin DOMAIN accounts
          /\ AddAccount(areq[r].name, NewAccount(areq[r].password))
       \/ /\ areq[r].name \in DOMAIN accounts
          /\ UNCHANGED accounts
    /\ AnswerAccount(r)
    /\ UNCHANGED now

(* login, whoami, patch_my_last_seen *)

\* whoami does not force the stamp, the other two do.
LoadForSeen(r, n, force) ==
    /\ areq[r].step = "idle"
    /\ n \in DOMAIN accounts
    /\ now < MaxNow
    /\ areq' = [areq EXCEPT ![r] = [step |-> "stamp", name |-> n, force |-> force,
                                    loaded |-> accounts[n]]]
    /\ UNCHANGED <<accounts, now>>

Due(q, t) == q.force \/ q.loaded.seen = NoValue \/ q.loaded.seen <= t - Throttle

\* Faulty variant: the comparison with the throttle turned round.
StampReversed(r) ==
    LET q == areq[r]  t == now + 1
        due == q.force \/ q.loaded.seen = NoValue \/ q.loaded.seen > t - Throttle IN
    /\ q.step = "stamp"
    /\ now' = t
    /\ IF due THEN ToStore(r, "seen", q.name, q.loaded, [q.loaded EXCEPT !.seen = t])
              ELSE AnswerAccount(r)
    /\ UNCHANGED accounts

\* update_last_seen: the stamp is taken before it is stored, and compared with
\* what was loaded.
Stamp(r) ==
    LET q == areq[r]  t == now + 1 IN
    /\ q.step = "stamp"
    /\ now' = t
    /\ IF Due(q, t)
       THEN ToStore(r, "seen", q.name, q.loaded, [q.loaded EXCEPT !.seen = t])
       ELSE AnswerAccount(r)
    /\ UNCHANGED accounts

(* patch_my_profile, put_my_avatar, delete_my_avatar *)

\* A bio of blanks only is stored as NULL.
LoadForBio(r, n, b) ==
    /\ areq[r].step = "idle"
    /\ n \in DOMAIN accounts
    /\ ToStore(r, "bio", n, accounts[n], [accounts[n] EXCEPT !.bio = b])
    /\ UNCHANGED <<accounts, now>>

\* Faulty variant: the upload not checked for being empty.
UploadUnchecked(r, n, f) ==
    /\ areq[r].step = "idle"
    /\ n \in DOMAIN accounts
    /\ ToStore(r, "avatar", n, accounts[n],
               [accounts[n] EXCEPT !.avatar = f, !.mime = MimeOf[f]])
    /\ UNCHANGED <<accounts, now>>

\* Faulty variant: bytes and type change places.
UploadSwapped(r, n, f) ==
    /\ areq[r].step = "idle"
    /\ n \in DOMAIN accounts
    /\ f # EmptyFile
    /\ ToStore(r, "avatar", n, accounts[n],
               [accounts[n] EXCEPT !.avatar = MimeOf[f], !.mime = f])
    /\ UNCHANGED <<accounts, now>>

\* The row is loaded before the upload is read; bytes and type are set together.
LoadForUpload(r, n, f) ==
    /\ f # EmptyFile
    /\ UploadUnchecked(r, n, f)

\* Faulty variant: the type of the removed avatar is kept.
RemoveBytesOnly(r, n) ==
    /\ areq[r].step = "idle"
    /\ n \in DOMAIN accounts
    /\ ToStore(r, "avatar", n, accounts[n], [accounts[n] EXCEPT !.avatar = NoValue])
    /\ UNCHANGED <<accounts, now>>

LoadForRemoval(r, n) ==
    /\ areq[r].step = "idle"
    /\ n \in DOMAIN accounts
    /\ ToStore(r, "avatar", n, accounts[n],
               [accounts[n] EXCEPT !.avatar = NoValue, !.mime = NoValue])
    /\ UNCHANGED <<accounts, now>>

\* Faulty variant: the UPDATE names every column.
StoreWholeRow(r) ==
    /\ areq[r].step = "store"
    /\ accounts' = [accounts EXCEPT ![areq[r].name] = areq[r].wanted]
    /\ AnswerAccount(r)
    /\ UNCHANGED now

\* commit, in update_last_seen, update_bio, save_avatar and remove_avatar.
Store(r) ==
    /\ areq[r].step = "store"
    /\ accounts' = [accounts EXCEPT ![areq[r].name] =
                       Updated(@, areq[r].loaded, areq[r].wanted)]
    /\ AnswerAccount(r)
    /\ UNCHANGED now

-----------------------------------------------------------------------------
AccountsNext ==
    \E r \in AccountRequests :
        \/ \E n \in Names, p \in Passwords : RegisterLookup(r, n, p)
        \/ RegisterCommit(r)
        \/ \E n \in Names, force \in BOOLEAN : LoadForSeen(r, n, force)
        \/ Stamp(r)
        \/ \E n \in Names, b \in Bios \cup {NoValue} : LoadForBio(r, n, b)
        \/ \E n \in Names, f \in Files : LoadForUpload(r, n, f)
        \/ \E n \in Names : LoadForRemoval(r, n)
        \/ Store(r)

AccountsSpec == AccountsInit /\ [][AccountsNext]_accountVars

-----------------------------------------------------------------------------
(* Properties. *)

AccountRow ==
    [password : Passwords, bio : Bios \cup {NoValue}, seen : Nat \cup {NoValue},
     avatar : Files \cup {NoValue}, mime : {MimeOf[f] : f \in Files} \cup {NoValue}]

AccountRequestState ==
    {AIdle}
      \cup [step : {"insert"}, name : Names, password : Passwords]
      \cup [step : {"stamp"}, name : Names, force : BOOLEAN, loaded : AccountRow]
      \cup [step : {"store"}, op : {"seen", "bio", "avatar"}, name : Names,
            loaded : AccountRow, wanted : AccountRow]

\* The rows and the local variables of the handlers have their types.
AccountsTypeOK ==
    /\ DOMAIN accounts \subseteq Names
    /\ accounts \in [DOMAIN accounts -> AccountRow]
    /\ now \in Nat
    /\ areq \in [AccountRequests -> AccountRequestState]

Columns == [seen |-> {"seen"}, bio |-> {"bio"}, avatar |-> {"avatar", "mime"}]

\* No request undoes what another one stored in a column it is not about, however
\* old the row it has loaded, and no registration replaces an account, however
\* many find the name free.
NoLostColumn ==
    [][\A n \in DOMAIN accounts :
          /\ n \in DOMAIN accounts'
          /\ \A col \in DOMAIN accounts[n] :
                accounts'[n][col] # accounts[n][col] =>
                   \E r \in AccountRequests :
                      /\ areq[r].step = "store" /\ areq'[r].step = "idle"
                      /\ areq[r].name = n
                      /\ col \in Columns[areq[r].op]]_accountVars

\* The profile (serialize_profile) and the avatar's own endpoint
\* (get_user_avatar) decide with different tests whether there is an avatar.
HasAvatar(row) == row.avatar # NoValue /\ row.mime # NoValue
AvatarFound(row) == row.avatar \notin {NoValue, EmptyFile} /\ row.mime # NoValue

\* An avatar the profile speaks of can be fetched.
AdvertisedAvatarServed ==
    \A n \in DOMAIN accounts : HasAvatar(accounts[n]) <=> AvatarFound(accounts[n])

\* Bytes and type are of one upload, or there is no avatar at all.
Whole(row) ==
    IF row.avatar = NoValue THEN row.mime = NoValue ELSE row.mime = MimeOf[row.avatar]

\* Request r stores an avatar or its removal.
StoresAvatar(r) ==
    areq[r].step = "store" /\ areq[r].op = "avatar" /\ areq'[r].step = "idle"

\* An upload or a removal leaves the avatar whole, unless another request has
\* changed it since this one loaded the row; it repairs what was torn before.
AvatarWholeUnlessRaced ==
    [][\A r \in AccountRequests :
          StoresAvatar(r) =>
             LET row == accounts[areq[r].name]  loaded == areq[r].loaded IN
             (row.avatar = loaded.avatar /\ row.mime = loaded.mime) =>
                Whole(accounts'[areq[r].name])]_accountVars

\* Request r has dealt with the last seen time of its account.
SeenHandled(r) ==
    /\ areq'[r].step = "idle"
    /\ \/ areq[r].step = "stamp"
       \/ areq[r].step = "store" /\ areq[r].op = "seen"

\* The time at which it read the clock.
SeenAt(r) == IF areq[r].step = "stamp" THEN now' ELSE areq[r].wanted.seen

\* When login, whoami or patch_my_last_seen answers and no other request has
\* stored a last seen time since it loaded the row, the stored time has not moved
\* back and is less than the throttle behind the request's clock.
SeenKeptFresh ==
    [][\A r \in AccountRequests :
          SeenHandled(r) =>
             LET old == accounts[areq[r].name].seen  new == accounts'[areq[r].name].seen IN
             old = areq[r].loaded.seen =>
                /\ new # NoValue
                /\ old # NoValue => old <= new
                /\ new = SeenAt(r) \/ SeenAt(r) - new < Throttle]_accountVars

-----------------------------------------------------------------------------
(* The inductive invariant behind the properties. *)

\* At time t no row has an avatar without bytes or was seen in the future.
RowSound(row, t) ==
    /\ row.avatar # EmptyFile
    /\ row.seen # NoValue => row.seen <= t

\* A request differs from what it has loaded in the columns it is about only, its
\* avatar is whole, and its time is not before the one it has loaded.
StoreSound(q, t) ==
    /\ RowSound(q.wanted, t)
    /\ q.wanted.password = q.loaded.password
    /\ q.op # "bio" => q.wanted.bio = q.loaded.bio
    /\ q.op # "seen" => q.wanted.seen = q.loaded.seen
    /\ q.op # "avatar" => q.wanted.avatar = q.loaded.avatar /\ q.wanted.mime = q.loaded.mime
    /\ q.op = "avatar" => Whole(q.wanted)
    /\ q.op = "seen" =>
          /\ q.wanted.seen # NoValue
          /\ q.loaded.seen # NoValue => q.loaded.seen <= q.wanted.seen

\* The account a request has loaded stays.
PendingSound(r) ==
    /\ areq[r].step \in {"stamp", "store"} =>
          areq[r].name \in DOMAIN accounts /\ RowSound(areq[r].loaded, now)
    /\ areq[r].step = "store" => StoreSound(areq[r], now)

AccountsInv ==
    /\ AccountsTypeOK
    /\ \A n \in DOMAIN accounts : RowSound(accounts[n], now)
    /\ \A r \in AccountRequests : PendingSound(r)
=============================================================================
