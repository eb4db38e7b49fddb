---------------------------- MODULE DeviceTokens ----------------------------
(***************************************************************************)
(* Firebase push tokens: src/devices/service.py over the table             *)
(* firebase_device_tokens, which is unique in token and in user_id with    *)
(* device_id.                                                              *)
(*                                                                         *)
(* A request looks a row up, changes the loaded object and commits.  The   *)
(* UPDATE goes to the row's id, whatever has become of the row, and names  *)
(* the columns that differ from what was loaded; updated_at or             *)
(* invalidated_at is always among them.  An UPDATE that finds no row and a *)
(* violated constraint raise, nothing handles it, and the answer is 500;   *)
(* so does the refresh of a row that is gone after the commit.  A DELETE   *)
(* that finds no row is only a warning.  platform, last_error and the      *)
(* times are left out.                                                     *)
(***************************************************************************)
EXTENDS Functions, FiniteSets

CONSTANTS
    Owners,             \* users
    PushTokens,         \* tokens given out by Firebase
    Devices,            \* device_id
    NoDevice,           \* its NULL
    BlankDevice,        \* the empty string, a device_id like any other to the table
    RowIds,             \* the uuid4 values of rows
    NoRow,
    DeviceRequests      \* the requests that may be in flight together

ASSUME DeviceConstants ==
    /\ NoDevice \notin Devices
    /\ BlankDevice \in Devices
    /\ NoRow \notin RowIds

VARIABLES
    pushRows,       \* firebase_device_tokens: id -> its row
    dreq            \* the local state of each request

deviceVars == <<pushRows, dreq>>

PushRow == [user : Owners, token : PushTokens, device : Devices \cup {NoDevice},
            active : BOOLEAN]

DIdle == [step |-> "idle"]

\* A registration: what the request asks for, and the row it is to be stored in
\* with what was loaded of it.
Registering(step, u, t, d) ==
    [step |-> step, user |-> u, token |-> t, device |-> d]

Keeping(step, i, loaded, wanted) ==
    [step |-> step, row |-> i, loaded |-> loaded, wanted |-> wanted]

DGoto(r, q) == dreq' = [dreq EXCEPT ![r] = q]

DFailed == [step |-> "failed"]

\* A row that the unique constraints do not allow beside the others.
Clash(i, row) ==
    \E j \in DOMAIN pushRows \ {i} :
        \/ pushRows[j].token = row.token
        \/ /\ row.device # NoDevice
           /\ pushRows[j].user = row.user
           /\ pushRows[j].device = row.device

\* The row after an UPDATE of the columns in which wanted differs from loaded.
ColumnsSet(row, loaded, wanted) ==
    [col \in DOMAIN row |-> IF wanted[col] = loaded[col] THEN row[col] ELSE wanted[col]]

\* get_active_tokens
ActiveTokens(u) ==
    {pushRows[i].token : i \in {j \in DOMAIN pushRows : /\ pushRows[j].user = u
                                                        /\ pushRows[j].active}}

DevicesInit ==
    /\ pushRows = <<>>
    /\ dreq = [r \in DeviceRequests |-> DIdle]

(* upsert_firebase_token *)

\* Faulty variant: a known token is not made active again.
FoundInactive(r, u, t, d) ==
    /\ dreq[r].step = "idle"
    /\ \E i \in DOMAIN pushRows :
          /\ pushRows[i].token = t
          /\ DGoto(r, Keeping("update", i, pushRows[i],
                              [pushRows[i] EXCEPT !.user = u, !.device = d]))
    /\ UNCHANGED pushRows

\* The token is known: its row goes to the user and the device.
UpsertFound(r, u, t, d) ==
    /\ dreq[r].step = "idle"
    /\ \E i \in DOMAIN pushRows :
          /\ pushRows[i].token = t
          /\ DGoto(r, Keeping("update", i, pushRows[i],
                              [user |-> u, token |-> t, device |-> d, active |-> TRUE]))
    /\ UNCHANGED pushRows

\* A device_id that is missing or empty is not looked for.
UpsertUnknown(r, u, t, d) ==
    /\ dreq[r].step = "idle"
    /\ \A i \in DOMAIN pushRows : pushRows[i].token # t
    /\ LET step == IF d \in {NoDevice, BlankDevice} THEN "insert" ELSE "device" IN
       DGoto(r, Registering(step, u, t, d))
    /\ UNCHANGED pushRows

\* Faulty variant: the device's name stored as its token.
UpsertDeviceSwapped(r) ==
    LET q == dreq[r] IN
    /\ q.step = "device"
    /\ \E i \in DOMAIN pushRows :
          /\ pushRows[i].user = q.user /\ pushRows[i].device = q.device
          /\ DGoto(r, Keeping("update", i, pushRows[i],
                              [pushRows[i] EXCEPT !.token = q.device, !.active = TRUE]))
    /\ UNCHANGED pushRows

\* The user has a row for the device, which gets the new token, or none.
UpsertDevice(r) ==
    LET q == dreq[r]
        own == {i \in DOMAIN pushRows :
                   pushRows[i].user = q.user /\ pushRows[i].device = q.device} IN
    /\ q.step = "device"
    /\ \/ \E i \in own :
             DGoto(r, Keeping("update", i, pushRows[i],
                              [pushRows[i] EXCEPT !.token = q.token, !.active = TRUE]))
       \/ own = {} /\ DGoto(r, [q EXCEPT !.step = "insert"])
    /\ UNCHANGED pushRows

\* Faulty variant: a lost race is answered like a won one, no constraint in the way.
InsertUnconstrained(r) ==
    LET q == dreq[r]
        row == [user |-> q.user, token |-> q.token, device |-> q.device, active |-> TRUE] IN
    /\ q.step = "insert"
    /\ \E i \in RowIds \ DOMAIN pushRows :
          pushRows' = [j \in DOMAIN pushRows \cup {i} |-> IF j = i THEN row ELSE pushRows[j]]
    /\ DGoto(r, DIdle)

\* An id that no request remembers, as a uuid is.
Fresh(i) ==
    /\ i \notin DOMAIN pushRows
    /\ \A r \in DeviceRequests :
          dreq[r].step \in {"update", "delete", "refuse", "refresh"} => dreq[r].row # i

UpsertInsert(r) ==
    LET q == dreq[r]
        row == [user |-> q.user, token |-> q.token, device |-> q.device, active |-> TRUE] IN
    /\ q.step = "insert"
    /\ \/ /\ ~Clash(NoRow, row)
          /\ \E i \in RowIds :
                /\ Fresh(i)
                /\ pushRows' = [j \in DOMAIN pushRows \cup {i} |->
                                   IF j = i THEN row ELSE pushRows[j]]
                /\ DGoto(r, [step |-> "refresh", row |-> i])
       \/ /\ Clash(NoRow, row)
          /\ DGoto(r, DFailed)
          /\ UNCHANGED pushRows

UpsertUpdate(r) ==
    LET q == dreq[r]
        row == ColumnsSet(pushRows[q.row], q.loaded, q.wanted) IN
    /\ q.step = "update"
    /\ \/ /\ q.row \in DOMAIN pushRows
          /\ ~Clash(q.row, row)
          /\ pushRows' = [pushRows EXCEPT ![q.row] = row]
          /\ DGoto(r, [step |-> "refresh", row |-> q.row])
       \/ /\ q.row \in DOMAIN pushRows => Clash(q.row, row)
          /\ DGoto(r, DFailed)
          /\ UNCHANGED pushRows

UpsertRefresh(r) ==
    /\ dreq[r].step = "refresh"
    /\ DGoto(r, IF dreq[r].row \in DOMAIN pushRows THEN DIdle ELSE DFailed)
    /\ UNCHANGED pushRows

(* delete_firebase_token *)

DeleteLookup(r, u, t) ==
    /\ dreq[r].step = "idle"
    /\ \E i \in DOMAIN pushRows :
          /\ pushRows[i].user = u /\ pushRows[i].token = t
          /\ DGoto(r, [step |-> "delete", row |-> i])
    /\ UNCHANGED pushRows

DeleteCommit(r) ==
    /\ dreq[r].step = "delete"
    /\ pushRows' = Restrict(pushRows, DOMAIN pushRows \ {dreq[r].row})
    /\ DGoto(r, DIdle)

(* invalidate_token, called by a request whose push Firebase has refused *)

RefuseLookup(r, t) ==
    /\ dreq[r].step = "idle"
    /\ \E i \in DOMAIN pushRows :
          /\ pushRows[i].token = t
          /\ DGoto(r, Keeping("refuse", i, pushRows[i],
                              [pushRows[i] EXCEPT !.active = FALSE]))
    /\ UNCHANGED pushRows

RefuseCommit(r) ==
    LET q == dreq[r] IN
    /\ q.step = "refuse"
    /\ \/ /\ q.row \in DOMAIN pushRows
          /\ pushRows' = [pushRows EXCEPT ![q.row] = ColumnsSet(@, q.loaded, q.wanted)]
          /\ DGoto(r, DIdle)
       \/ /\ q.row \notin DOMAIN pushRows
          /\ DGoto(r, DFailed)
          /\ UNCHANGED pushRows

DeviceError(r) ==
    /\ dreq[r].step = "failed"
    /\ DGoto(r, DIdle)
    /\ UNCHANGED pushRows

-----------------------------------------------------------------------------
DevicesNext ==
    \E r \in DeviceRequests :
        \/ \E u \in Owners, t \in PushTokens, d \in Devices \cup {NoDevice} :
              UpsertFound(r, u, t, d) \/ UpsertUnknown(r, u, t, d)
        \/ UpsertDevice(r)
        \/ UpsertInsert(r)
        \/ UpsertUpdate(r)
        \/ UpsertRefresh(r)
        \/ \E u \in Owners, t \in PushTokens : DeleteLookup(r, u, t)
        \/ DeleteCommit(r)
        \/ \E t \in PushTokens : RefuseLookup(r, t)
        \/ RefuseCommit(r)
        \/ DeviceError(r)

DevicesSpec == DevicesInit /\ [][DevicesNext]_deviceVars

-----------------------------------------------------------------------------
(* Properties. *)

DeviceRequestState ==
    {DIdle, DFailed}
      \cup [step : {"device", "insert"}, user : Owners, token : PushTokens,
            device : Devices \cup {NoDevice}]
      \cup [step : {"update", "refuse"}, row : RowIds, loaded : PushRow, wanted : PushRow]
      \cup [step : {"delete", "refresh"}, row : RowIds]

\* The rows and the local variables of the handlers have their types.
DevicesTypeOK ==
    /\ DOMAIN pushRows \subseteq RowIds
    /\ pushRows \in [DOMAIN pushRows -> PushRow]
    /\ dreq \in [DeviceRequests -> DeviceRequestState]

\* However registrations of one token or one device overtake each other, a push
\* goes out once per token and a user's device has one row.  The lookups
\* (scalar_one_or_none) raise otherwise.
PushRowsUnique ==
    \A i, j \in DOMAIN pushRows :
        \/ pushRows[i].token = pushRows[j].token
        \/ /\ pushRows[i].user = pushRows[j].user
           /\ pushRows[i].device = pushRows[j].device
           /\ pushRows[i].device # NoDevice
        => i = j

\* Request r stores its registration in a row that it has looked up.
StoresRegistration(r) == dreq[r].step = "update" /\ dreq'[r].step = "refresh"

\* A registration that is stored in a row nobody has changed since the lookup
\* brings the pushes of its user, and of nobody else, to its token, whoever had
\* the row before and whether or not Firebase had refused it.
RegistrationReaches ==
    [][\A r \in DeviceRequests :
          LET q == dreq[r] IN
          (StoresRegistration(r) /\ pushRows[q.row] = q.loaded) =>
             \A u \in Owners :
                q.wanted.token \in ActiveTokens(u)' <=> u = q.wanted.user]_deviceVars

-----------------------------------------------------------------------------
(* The inductive invariant behind the properties. *)

\* A registration wants its row active; a refusal wants it inactive and otherwise
\* as it was loaded.
KeepingSound(q) ==
    /\ q.step = "update" => q.wanted.active
    /\ q.step = "refuse" => q.wanted = [q.loaded EXCEPT !.active = FALSE]

DevicesInv ==
    /\ DevicesTypeOK
    /\ PushRowsUnique
    /\ \A r \in DeviceRequests : KeepingSound(dreq[r])

-----------------------------------------------------------------------------
(* A statement of the tests that the code does not live up to. *)

\* tests/test_push_fallback.py: registering a token is answered with 200.  A known
\* token that moves to a device for which the user has another row never is, and
\* neither is a second token without a device name, even when no other request is
\* under way.
RegistrationSucceeds == \A r \in DeviceRequests : dreq[r].step # "failed"
=============================================================================
