-------------------------- MODULE DeviceTokensProofs --------------------------
(***************************************************************************)
(* Registrations, deletions and refusals of push tokens, for every set of  *)
(* users, tokens, devices and requests in flight.  What makes the rows     *)
(* unique is the constraints alone: the lookups find nothing to rely on.   *)
(* DevicesInv of DeviceTokens adds what a request wants of the row it is   *)
(* about to store.  The UPDATE of a refusal leaves alone the columns that  *)
(* the constraints are about, so it cannot violate them.                   *)
(***************************************************************************)
EXTENDS DeviceTokens, TLAPS

(***************************************************************************)
(* The shape of a request's local state, by its step.                      *)
(***************************************************************************)
LEMMA DeviceShapes ==
    ASSUME NEW q \in DeviceRequestState
    PROVE  /\ q.step \in {"idle", "failed", "device", "insert", "update", "refuse",
                          "delete", "refresh"}
           /\ q.step \in {"device", "insert"} =>
                 q \in [step : {"device", "insert"}, user : Owners, token : PushTokens,
                        device : Devices \cup {NoDevice}]
           /\ q.step \in {"update", "refuse"} =>
                 q \in [step : {"update", "refuse"}, row : RowIds, loaded : PushRow,
                        wanted : PushRow]
           /\ q.step \in {"delete", "refresh"} =>
                 q \in [step : {"delete", "refresh"}, row : RowIds]
BY DEF DeviceRequestState, DIdle, DFailed

LEMMA RestingStates ==
    /\ DIdle \in DeviceRequestState /\ DIdle.step = "idle"
    /\ DFailed \in DeviceRequestState /\ DFailed.step = "failed"
BY DEF DIdle, DFailed, DeviceRequestState

LEMMA DevicesInitInv == DevicesInit => DevicesInv
<1> SUFFICES ASSUME DevicesInit PROVE DevicesInv
  OBVIOUS
<1>1. DevicesTypeOK
  BY RestingStates DEF DevicesInit, DevicesTypeOK
<1>2. PushRowsUnique
  BY DEF DevicesInit, PushRowsUnique
<1>3. \A r \in DeviceRequests : dreq[r].step = "idle"
  BY RestingStates DEF DevicesInit
<1> QED
  BY <1>1, <1>2, <1>3 DEF DevicesInv, KeepingSound

(***************************************************************************)
(* One request changes its local state to q, and the rows stay typed and   *)
(* unique.                                                                 *)
(***************************************************************************)
LEMMA DeviceRequestMoves ==
    ASSUME DevicesInv, NEW r \in DeviceRequests, NEW q \in DeviceRequestState, DGoto(r, q),
           KeepingSound(q),
           DOMAIN pushRows' \subseteq RowIds, pushRows' \in [DOMAIN pushRows' -> PushRow],
           PushRowsUnique'
    PROVE  DevicesInv'
<1>1. dreq' \in [DeviceRequests -> DeviceRequestState]
  BY DEF DGoto, DevicesInv, DevicesTypeOK
<1>2. \A s \in DeviceRequests : dreq'[s] = IF s = r THEN q ELSE dreq[s]
  BY DEF DGoto, DevicesInv, DevicesTypeOK
<1>3. \A s \in DeviceRequests : KeepingSound(dreq'[s])
  BY <1>2 DEF DevicesInv
<1>4. DevicesTypeOK'
  BY <1>1 DEF DevicesTypeOK
<1> QED
  BY <1>3, <1>4 DEF DevicesInv

(***************************************************************************)
(* The same when the rows do not change.                                   *)
(***************************************************************************)
LEMMA DeviceRequestThinks ==
    ASSUME DevicesInv, NEW r \in DeviceRequests, NEW q \in DeviceRequestState, DGoto(r, q),
           KeepingSound(q), UNCHANGED pushRows
    PROVE  DevicesInv'
<1>1. PushRowsUnique'
  BY DEF DevicesInv, PushRowsUnique
<1> QED
  BY <1>1, DeviceRequestMoves DEF DevicesInv, DevicesTypeOK

(***************************************************************************)
(* A request that remembers a row i with what it has loaded and wants.     *)
(***************************************************************************)
LEMMA KeepingTyped ==
    ASSUME NEW step \in {"update", "refuse"}, NEW i \in RowIds, NEW loaded \in PushRow,
           NEW wanted \in PushRow
    PROVE  LET q == Keeping(step, i, loaded, wanted) IN
           /\ q \in DeviceRequestState
           /\ q.step = step /\ q.loaded = loaded /\ q.wanted = wanted
BY DEF Keeping, DeviceRequestState

LEMMA RowTyped ==
    ASSUME DevicesInv, NEW i \in DOMAIN pushRows
    PROVE  i \in RowIds /\ pushRows[i] \in PushRow
BY DEF DevicesInv, DevicesTypeOK

LEMMA UpsertFoundStep ==
    ASSUME DevicesInv, NEW r \in DeviceRequests, NEW u \in Owners, NEW t \in PushTokens,
           NEW d \in Devices \cup {NoDevice}, UpsertFound(r, u, t, d)
    PROVE  DevicesInv'
<1> DEFINE row == [user |-> u, token |-> t, device |-> d, active |-> TRUE]
<1>1. row \in PushRow /\ row.active
  BY DEF PushRow
<1>2. PICK i \in DOMAIN pushRows : DGoto(r, Keeping("update", i, pushRows[i], row))
  BY DEF UpsertFound
<1> HIDE DEF row
<1> DEFINE q == Keeping("update", i, pushRows[i], row)
<1>3. q \in DeviceRequestState /\ q.step = "update" /\ q.wanted = row
  BY <1>1, RowTyped, KeepingTyped
<1> HIDE DEF q
<1>4. KeepingSound(q)
  BY <1>1, <1>3 DEF KeepingSound
<1> QED
  BY <1>2, <1>3, <1>4, DeviceRequestThinks DEF UpsertFound, q

LEMMA UpsertUnknownStep ==
    ASSUME DevicesInv, NEW r \in DeviceRequests, NEW u \in Owners, NEW t \in PushTokens,
           NEW d \in Devices \cup {NoDevice}, UpsertUnknown(r, u, t, d)
    PROVE  DevicesInv'
<1>1. PICK step \in {"insert", "device"} : DGoto(r, Registering(step, u, t, d))
  BY DEF UpsertUnknown
<1> DEFINE q == Registering(step, u, t, d)
<1>2. q \in DeviceRequestState /\ q.step \in {"insert", "device"}
  BY DEF Registering, DeviceRequestState
<1> HIDE DEF q
<1> QED
  BY <1>1, <1>2, DeviceRequestThinks DEF UpsertUnknown, KeepingSound, q

LEMMA UpsertDeviceStep ==
    ASSUME DevicesInv, NEW r \in DeviceRequests, UpsertDevice(r) PROVE DevicesInv'
<1>1. dreq[r] \in [step : {"device", "insert"}, user : Owners, token : PushTokens,
                   device : Devices \cup {NoDevice}]
  BY DeviceShapes DEF UpsertDevice, DevicesInv, DevicesTypeOK
<1>2. CASE \E i \in DOMAIN pushRows :
              DGoto(r, Keeping("update", i, pushRows[i],
                       [pushRows[i] EXCEPT !.token = dreq[r].token, !.active = TRUE]))
  <2>1. PICK i \in DOMAIN pushRows :
              DGoto(r, Keeping("update", i, pushRows[i],
                       [pushRows[i] EXCEPT !.token = dreq[r].token, !.active = TRUE]))
    BY <1>2
  <2> DEFINE row == [pushRows[i] EXCEPT !.token = dreq[r].token, !.active = TRUE]
             q == Keeping("update", i, pushRows[i], row)
  <2>2. row \in PushRow /\ row.active
    BY <1>1, RowTyped DEF PushRow
  <2> HIDE DEF row
  <2>3. q \in DeviceRequestState /\ q.step = "update" /\ q.wanted = row
    BY <2>2, RowTyped, KeepingTyped
  <2>4. DGoto(r, q)
    BY <2>1 DEF row
  <2> HIDE DEF q
  <2>5. KeepingSound(q)
    BY <2>2, <2>3 DEF KeepingSound
  <2> QED
    BY <2>3, <2>4, <2>5, DeviceRequestThinks DEF UpsertDevice
<1>3. CASE DGoto(r, [dreq[r] EXCEPT !.step = "insert"])
  <2> DEFINE q == [dreq[r] EXCEPT !.step = "insert"]
  <2>1. q \in DeviceRequestState /\ q.step = "insert"
    BY <1>1 DEF DeviceRequestState
  <2> HIDE DEF q
  <2> QED
    BY <1>3, <2>1, DeviceRequestThinks DEF UpsertDevice, KeepingSound, q
<1> QED
  BY <1>2, <1>3 DEF UpsertDevice

LEMMA UpsertInsertStep ==
    ASSUME DevicesInv, NEW r \in DeviceRequests, UpsertInsert(r) PROVE DevicesInv'
<1> DEFINE q == dreq[r]
           row == [user |-> q.user, token |-> q.token, device |-> q.device, active |-> TRUE]
<1>1. row \in PushRow
  BY DeviceShapes DEF UpsertInsert, DevicesInv, DevicesTypeOK, PushRow
<1> HIDE DEF row
<1>2. CASE UNCHANGED pushRows /\ DGoto(r, DFailed)
  BY <1>2, RestingStates, DeviceRequestThinks DEF KeepingSound
<1>3. CASE /\ ~Clash(NoRow, row)
           /\ \E i \in RowIds :
                 /\ Fresh(i)
                 /\ pushRows' = [j \in DOMAIN pushRows \cup {i} |->
                                    IF j = i THEN row ELSE pushRows[j]]
                 /\ DGoto(r, [step |-> "refresh", row |-> i])
  <2>1. PICK i \in RowIds :
              /\ Fresh(i)
              /\ pushRows' = [j \in DOMAIN pushRows \cup {i} |->
                                 IF j = i THEN row ELSE pushRows[j]]
              /\ DGoto(r, [step |-> "refresh", row |-> i])
    BY <1>3
  <2>2. /\ DOMAIN pushRows' = DOMAIN pushRows \cup {i}
        /\ pushRows'[i] = row
        /\ \A j \in DOMAIN pushRows : pushRows'[j] = pushRows[j]
    BY <2>1 DEF Fresh
  <2>3. /\ DOMAIN pushRows' \subseteq RowIds
        /\ pushRows' \in [DOMAIN pushRows' -> PushRow]
    BY <1>1, <2>1, <2>2, RowTyped
  <2>4. \A j \in DOMAIN pushRows :
           /\ pushRows[j].token # row.token
           /\ row.device # NoDevice =>
                 ~(pushRows[j].user = row.user /\ pushRows[j].device = row.device)
    BY <1>3, RowTyped, DeviceConstants DEF Clash
  <2>5. PushRowsUnique'
    BY <2>2, <2>4 DEF PushRowsUnique, DevicesInv
  <2> DEFINE next == [step |-> "refresh", row |-> i]
  <2>6. next \in DeviceRequestState /\ next.step = "refresh"
    BY DEF DeviceRequestState
  <2>7. DGoto(r, next)
    BY <2>1
  <2> HIDE DEF next
  <2> QED
    BY <2>3, <2>5, <2>6, <2>7, DeviceRequestMoves DEF KeepingSound
<1> QED
  BY <1>2, <1>3 DEF UpsertInsert, row

(***************************************************************************)
(* The row a request stores takes each column from the row as it is or     *)
(* from the row it wants.                                                  *)
(***************************************************************************)
LEMMA ColumnsSetRow ==
    ASSUME NEW row \in PushRow, NEW loaded \in PushRow, NEW wanted \in PushRow
    PROVE  /\ ColumnsSet(row, loaded, wanted) \in PushRow
           /\ \A col \in {"user", "token", "device"} :
                 wanted[col] = loaded[col] => ColumnsSet(row, loaded, wanted)[col] = row[col]
           /\ row = loaded => ColumnsSet(row, loaded, wanted) = wanted
BY DEF ColumnsSet, PushRow

LEMMA KeptRow ==
    ASSUME DevicesInv, NEW r \in DeviceRequests, dreq[r].step \in {"update", "refuse"}
    PROVE  dreq[r].row \in RowIds /\ dreq[r].loaded \in PushRow /\ dreq[r].wanted \in PushRow
BY DeviceShapes DEF DevicesInv, DevicesTypeOK

LEMMA UpsertUpdateStep ==
    ASSUME DevicesInv, NEW r \in DeviceRequests, UpsertUpdate(r) PROVE DevicesInv'
<1> DEFINE q == dreq[r]
           row == ColumnsSet(pushRows[q.row], q.loaded, q.wanted)
<1>1. q.row \in RowIds /\ q.loaded \in PushRow /\ q.wanted \in PushRow
  BY KeptRow DEF UpsertUpdate
<1>2. CASE UNCHANGED pushRows /\ DGoto(r, DFailed)
  BY <1>2, RestingStates, DeviceRequestThinks DEF KeepingSound
<1>3. CASE /\ q.row \in DOMAIN pushRows
           /\ ~Clash(q.row, row)
           /\ pushRows' = [pushRows EXCEPT ![q.row] = row]
           /\ DGoto(r, [step |-> "refresh", row |-> q.row])
  <2>1. row \in PushRow
    BY <1>1, <1>3, RowTyped, ColumnsSetRow
  <2> DEFINE i == q.row
             next == [step |-> "refresh", row |-> i]
  <2>2. next \in DeviceRequestState /\ next.step = "refresh"
    BY <1>1 DEF DeviceRequestState
  <2> HIDE DEF row
  <2>3. /\ DOMAIN pushRows' = DOMAIN pushRows
        /\ pushRows'[i] = row
        /\ \A j \in DOMAIN pushRows \ {i} : pushRows'[j] = pushRows[j]
    BY <1>3
  <2>4. /\ DOMAIN pushRows' \subseteq RowIds
        /\ pushRows' \in [DOMAIN pushRows' -> PushRow]
    BY <1>3, <2>1, RowTyped DEF DevicesInv, DevicesTypeOK
  <2>5. \A j \in DOMAIN pushRows \ {i} :
           /\ pushRows[j].token # row.token
           /\ row.device # NoDevice =>
                 ~(pushRows[j].user = row.user /\ pushRows[j].device = row.device)
    BY <1>3 DEF Clash
  <2>6. DGoto(r, next)
    BY <1>3
  <2> HIDE DEF next, i
  <2>7. PushRowsUnique'
    BY <2>3, <2>5 DEF PushRowsUnique, DevicesInv
  <2> QED
    BY <2>2, <2>4, <2>6, <2>7, DeviceRequestMoves DEF KeepingSound
<1> QED
  BY <1>2, <1>3 DEF UpsertUpdate

LEMMA DeleteCommitStep ==
    ASSUME DevicesInv, NEW r \in DeviceRequests, DeleteCommit(r) PROVE DevicesInv'
<1>1. /\ DOMAIN pushRows' = DOMAIN pushRows \ {dreq[r].row}
      /\ \A j \in DOMAIN pushRows' : pushRows'[j] = pushRows[j]
  BY DEF DeleteCommit, Restrict
<1>2. pushRows' \in [DOMAIN pushRows' -> PushRow]
  BY <1>1, RowTyped DEF DeleteCommit, Restrict
<1>3. PushRowsUnique'
  BY <1>1 DEF PushRowsUnique, DevicesInv
<1> QED
  BY <1>1, <1>2, <1>3, RowTyped, RestingStates, DeviceRequestMoves DEF DeleteCommit, KeepingSound

LEMMA RefuseLookupStep ==
    ASSUME DevicesInv, NEW r \in DeviceRequests, NEW t \in PushTokens, RefuseLookup(r, t)
    PROVE  DevicesInv'
<1>1. PICK i \in DOMAIN pushRows :
            DGoto(r, Keeping("refuse", i, pushRows[i], [pushRows[i] EXCEPT !.active = FALSE]))
  BY DEF RefuseLookup
<1> DEFINE row == [pushRows[i] EXCEPT !.active = FALSE]
           q == Keeping("refuse", i, pushRows[i], row)
<1>2. row \in PushRow
  BY RowTyped DEF PushRow
<1>3. DGoto(r, q)
  BY <1>1
<1> HIDE DEF row
<1>4. q \in DeviceRequestState /\ q.step = "refuse" /\ q.loaded = pushRows[i] /\ q.wanted = row
  BY <1>2, RowTyped, KeepingTyped
<1> HIDE DEF q
<1>5. KeepingSound(q)
  BY <1>4 DEF KeepingSound, row
<1> QED
  BY <1>3, <1>4, <1>5, DeviceRequestThinks DEF RefuseLookup

LEMMA RefuseCommitStep ==
    ASSUME DevicesInv, NEW r \in DeviceRequests, RefuseCommit(r) PROVE DevicesInv'
<1> DEFINE q == dreq[r]
           row == ColumnsSet(pushRows[q.row], q.loaded, q.wanted)
<1>1. q.row \in RowIds /\ q.loaded \in PushRow /\ q.wanted \in PushRow
  BY KeptRow DEF RefuseCommit
<1>2. CASE UNCHANGED pushRows /\ DGoto(r, DFailed)
  BY <1>2, RestingStates, DeviceRequestThinks DEF KeepingSound
<1>3. CASE /\ q.row \in DOMAIN pushRows
           /\ pushRows' = [pushRows EXCEPT ![q.row] = row]
           /\ DGoto(r, DIdle)
  <2>1. row \in PushRow /\ pushRows[q.row] \in PushRow
    BY <1>1, <1>3, RowTyped, ColumnsSetRow
  <2>2. q.wanted = [q.loaded EXCEPT !.active = FALSE]
    BY DEF RefuseCommit, DevicesInv, KeepingSound
  <2>3. \A col \in {"user", "token", "device"} : q.wanted[col] = q.loaded[col]
    BY <1>1, <2>2 DEF PushRow
  <2>4. /\ row.user = pushRows[q.row].user /\ row.token = pushRows[q.row].token
        /\ row.device = pushRows[q.row].device
    BY <1>1, <2>1, <2>3, ColumnsSetRow
  <2> HIDE DEF row
  <2>5. /\ DOMAIN pushRows' = DOMAIN pushRows
        /\ pushRows'[q.row] = row
        /\ \A j \in DOMAIN pushRows \ {q.row} : pushRows'[j] = pushRows[j]
    BY <1>3
  <2>6. \A j \in DOMAIN pushRows : /\ pushRows'[j].user = pushRows[j].user
                                   /\ pushRows'[j].token = pushRows[j].token
                                   /\ pushRows'[j].device = pushRows[j].device
    BY <2>4, <2>5
  <2>7. PushRowsUnique'
    BY <2>5, <2>6 DEF PushRowsUnique, DevicesInv
  <2>8. /\ DOMAIN pushRows' \subseteq RowIds
        /\ pushRows' \in [DOMAIN pushRows' -> PushRow]
    BY <1>3, <2>1, RowTyped DEF DevicesInv, DevicesTypeOK
  <2> QED
    BY <1>3, <2>7, <2>8, RestingStates, DeviceRequestMoves DEF KeepingSound
<1> QED
  BY <1>2, <1>3 DEF RefuseCommit

LEMMA DevicesStepInv == DevicesInv /\ [DevicesNext]_deviceVars => DevicesInv'
<1> SUFFICES ASSUME DevicesInv, [DevicesNext]_deviceVars PROVE DevicesInv'
  OBVIOUS
<1>1. CASE UNCHANGED deviceVars
  BY <1>1 DEF deviceVars, DevicesInv, DevicesTypeOK, PushRowsUnique
<1>2. ASSUME NEW r \in DeviceRequests, UpsertRefresh(r) \/ DeviceError(r)
      PROVE  DevicesInv'
  BY <1>2, RestingStates, DeviceRequestThinks DEF UpsertRefresh, DeviceError, KeepingSound
<1>3. ASSUME NEW r \in DeviceRequests, NEW u \in Owners, NEW t \in PushTokens,
             DeleteLookup(r, u, t)
      PROVE  DevicesInv'
  <2>1. PICK i \in DOMAIN pushRows : DGoto(r, [step |-> "delete", row |-> i])
    BY <1>3 DEF DeleteLookup
  <2> DEFINE q == [step |-> "delete", row |-> i]
  <2>2. q \in DeviceRequestState /\ q.step = "delete"
    BY RowTyped DEF DeviceRequestState
  <2>3. DGoto(r, q)
    BY <2>1
  <2> HIDE DEF q
  <2> QED
    BY <1>3, <2>2, <2>3, DeviceRequestThinks DEF DeleteLookup, KeepingSound
<1> QED
  BY <1>1, <1>2, <1>3, UpsertFoundStep, UpsertUnknownStep, UpsertDeviceStep, UpsertInsertStep,
     UpsertUpdateStep, DeleteCommitStep, RefuseLookupStep, RefuseCommitStep
  DEF DevicesNext

(***************************************************************************)
(* The inductive invariant holds in every reachable state.                 *)
(***************************************************************************)
THEOREM DevicesInvariance == DevicesSpec => []DevicesInv
BY DevicesInitInv, DevicesStepInv, PTL DEF DevicesSpec

(***************************************************************************)
(* The rows and the local variables of the handlers have their types.      *)
(***************************************************************************)
THEOREM DevicesTypeCorrect == DevicesSpec => []DevicesTypeOK
<1>1. DevicesInv => DevicesTypeOK
  BY DEF DevicesInv
<1> QED
  BY <1>1, DevicesInvariance, PTL

(***************************************************************************)
(* A token has one row, and so has a device of a user, however             *)
(* registrations overtake each other.                                      *)
(***************************************************************************)
THEOREM RowsUnique == DevicesSpec => []PushRowsUnique
<1>1. DevicesInv => PushRowsUnique
  BY DEF DevicesInv
<1> QED
  BY <1>1, DevicesInvariance, PTL

(***************************************************************************)
(* A step that stores a registration is UpsertUpdate of that request.      *)
(***************************************************************************)
LEMMA WhoStores ==
    ASSUME DevicesInv, [DevicesNext]_deviceVars, NEW r \in DeviceRequests, StoresRegistration(r)
    PROVE  UpsertUpdate(r) /\ dreq[r].row \in DOMAIN pushRows
<1>1. dreq[r].step = "update" /\ dreq'[r] # dreq[r] /\ dreq'[r].step = "refresh"
  BY DEF StoresRegistration
<1>2. ~UNCHANGED deviceVars
  BY <1>1 DEF deviceVars
<1>3. \A s \in DeviceRequests : \A q : DGoto(s, q) => s = r
  BY <1>1 DEF DGoto, DevicesInv, DevicesTypeOK
<1>4. UpsertUpdate(r)
  BY <1>1, <1>2, <1>3
  DEF DevicesNext, UpsertFound, UpsertUnknown, UpsertDevice, UpsertInsert, UpsertUpdate,
      UpsertRefresh, DeleteLookup, DeleteCommit, RefuseLookup, RefuseCommit, DeviceError
<1>5. ~DGoto(r, DFailed)
  BY <1>1, RestingStates DEF DGoto, DevicesInv, DevicesTypeOK
<1> QED
  BY <1>4, <1>5 DEF UpsertUpdate

(***************************************************************************)
(* A registration stored in a row that nobody has changed since the lookup *)
(* brings the pushes of its user, and of nobody else, to its token.        *)
(***************************************************************************)
THEOREM RegistrationArrives == DevicesSpec => RegistrationReaches
<1> DEFINE Arrives == \A r \in DeviceRequests :
              LET q == dreq[r] IN
              (StoresRegistration(r) /\ pushRows[q.row] = q.loaded) =>
                 \A u \in Owners : q.wanted.token \in ActiveTokens(u)' <=> u = q.wanted.user
<1>1. ASSUME DevicesInv, [DevicesNext]_deviceVars PROVE Arrives
  <2> SUFFICES ASSUME NEW r \in DeviceRequests, StoresRegistration(r),
                      pushRows[dreq[r].row] = dreq[r].loaded, NEW u \in Owners
               PROVE  dreq[r].wanted.token \in ActiveTokens(u)' <=> u = dreq[r].wanted.user
    OBVIOUS
  <2> DEFINE i == dreq[r].row
             row == dreq[r].wanted
  <2>1. UpsertUpdate(r) /\ i \in DOMAIN pushRows /\ dreq[r].step = "update"
    BY <1>1, WhoStores DEF StoresRegistration
  <2>2. row \in PushRow /\ dreq[r].loaded \in PushRow /\ row.active
    BY <1>1, <2>1, KeptRow DEF DevicesInv, KeepingSound
  <2>3. ColumnsSet(pushRows[i], dreq[r].loaded, row) = row
    BY <2>2, ColumnsSetRow
  <2>4. ~DGoto(r, DFailed)
    BY <1>1, RestingStates DEF StoresRegistration, DGoto, DevicesInv, DevicesTypeOK
  <2>5. ~Clash(i, row) /\ pushRows' = [pushRows EXCEPT ![i] = row]
    BY <2>1, <2>3, <2>4 DEF UpsertUpdate
  <2>6. /\ DOMAIN pushRows' = DOMAIN pushRows
        /\ pushRows'[i] = row
        /\ \A j \in DOMAIN pushRows \ {i} : pushRows'[j] = pushRows[j]
    BY <1>1, <2>1, <2>5 DEF DevicesInv, DevicesTypeOK
  <2>7. \A j \in DOMAIN pushRows' : pushRows'[j].token = row.token <=> j = i
    BY <2>5, <2>6 DEF Clash
  <2>8. ActiveTokens(u)' = {pushRows'[j].token :
                               j \in {k \in DOMAIN pushRows' : /\ pushRows'[k].user = u
                                                               /\ pushRows'[k].active}}
    BY DEF ActiveTokens
  <2> HIDE DEF i, row
  <2>9. row.token \in ActiveTokens(u)' <=> u = row.user
    BY <2>1, <2>2, <2>6, <2>7, <2>8
  <2> QED
    BY <2>9 DEF row
<1>2. DevicesSpec => [][Arrives]_deviceVars
  BY <1>1, DevicesInvariance, PTL DEF DevicesSpec
<1> QED
  BY <1>2 DEF RegistrationReaches
=============================================================================
