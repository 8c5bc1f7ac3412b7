----------------------------- MODULE Ksp11Proofs -----------------------------
(***************************************************************************)
(* The invariants of the PKCS#11 module for every number of sessions,      *)
(* keys, object tables, mechanisms, inputs and bounds.                     *)
(*                                                                         *)
(* None of the safety properties is inductive alone.  SignOnChosenKey      *)
(* rests on NothingLeftBehind (a session opened in a used slot starts      *)
(* without an operation), OperationAsAsked on both (the key of a running   *)
(* operation does not change), and DeliveredAsPermitted on all three.      *)
(* Their conjunction Inv is inductive.                                     *)
(***************************************************************************)
EXTENDS Ksp11, SigningInputProofs, FiniteSetTheorems

\* The inductive invariant.
Inv == /\ TypeOK
       /\ HandlesUnique
       /\ NothingLeftBehind
       /\ SignOnChosenKey
       /\ OperationAsAsked
       /\ DeliveredAsPermitted
       /\ SizeQueryBinding
       /\ FindWithinTable
       /\ FinalizeSafe

RetType == [rv : CK_RV, sess : Nat, sig : SUBSET Signature, size : Nat]

(***************************************************************************)
(* Lookups                                                                 *)
(***************************************************************************)
\* A slot find_session returns is open under that handle.
LEMMA FoundSession ==
  ASSUME NEW h, NEW s \in find_session(h)
  PROVE  s \in Slots /\ g_sessions[s].open /\ g_sessions[s].handle = h
BY DEF find_session, Holds

\* The slot C_OpenSession takes has no session.
LEMMA FreeSlotIsClosed ==
  ASSUME NEW s \in FreeSlot
  PROVE  s \in Slots /\ ~g_sessions[s].open
BY DEF FreeSlot

\* Return values without a signature.
LEMMA ReturnsType ==
  ASSUME NEW rv \in CK_RV
  PROVE  Returns(rv) \in RetType /\ Returns(rv).sig = {}
BY DEF Returns, Returned, RetType

\* What a call that names its session returns is well typed.
LEMMA ReturnedType ==
  ASSUME NEW rv \in CK_RV, NEW h \in Nat, NEW n \in Nat
  PROVE  Returned(rv, h, {}, n) \in RetType /\ Returned(rv, h, {}, n).sig = {}
BY DEF Returned, RetType

\* Setting one field of an operation.
LEMMA SetCached ==
  ASSUME NEW st \in SignState, NEW c
  PROVE  LET u == [st EXCEPT !.cached = c] IN
         /\ u.cached = c
         /\ u.active = st.active /\ u.obj_index = st.obj_index
         /\ u.digest_mech = st.digest_mech /\ u.md = st.md /\ u.pss = st.pss
         /\ u.hash_alg = st.hash_alg /\ u.buf = st.buf
         /\ c \in SUBSET Signature => u \in SignState
BY Zenon DEF SignState

\* The cleared values have their types.
LEMMA ClearedTypes ==
  /\ sign_reset \in SignState
  /\ ClosedSession \in [open : BOOLEAN, handle : Nat]
  /\ NothingAsked \in Asked
  /\ NoFind \in [active : BOOLEAN, handles : Seq(Nat), pos : Nat, stale : BOOLEAN]
<1>1. << >> \in Seq(Parts) /\ << >> \in Seq(Nat)
  OBVIOUS
<1>2. "none" \in MechType \cup {"none"} /\ "NoParams" \in PssParam
  BY DEF PssParam
<1>3. NothingAsked \in Asked
  BY <1>1, <1>2 DEF NothingAsked, History, Asked
<1>4. QED
  BY <1>1, <1>3 DEF sign_reset, SignState, ClosedSession, NoFind, Search

(***************************************************************************)
(* Calls that change nothing but the return value                          *)
(***************************************************************************)
\* A call that refuses or only reports keeps every invariant.
LEMMA ReportOnly ==
  ASSUME Inv, ret' \in RetType, ret'.sig = {},
         UNCHANGED <<libVars, g_objects, g_sessions, g_next_handle, g_sign, g_find, asked>>
  PROVE  Inv'
<1>1. TypeOK'
  BY DEF Inv, TypeOK, RetType, libVars
<1>2. HandlesUnique' /\ NothingLeftBehind' /\ SignOnChosenKey'
  BY DEF Inv, HandlesUnique, NothingLeftBehind, SignOnChosenKey, Holds, libVars
<1>3. OperationAsAsked' /\ SizeQueryBinding'
  BY DEF Inv, OperationAsAsked, SizeQueryBinding
<1>4. DeliveredAsPermitted'
  BY DEF DeliveredAsPermitted
<1>5. FindWithinTable' /\ FinalizeSafe'
  BY DEF Inv, FindWithinTable, FinalizeSafe, libVars
<1>6. QED
  BY <1>1, <1>2, <1>3, <1>4, <1>5 DEF Inv

(***************************************************************************)
(* C_Initialize and C_Finalize                                             *)
(***************************************************************************)
\* A failed C_Initialize leaves no client; a crash ends the process.
LEMMA FailedLibraryCall ==
  ASSUME Inv,
         \/ InitializeLoadFails \/ InitializeBridgeFails
         \/ InitializeNoMemory \/ FinalizeCrashes
  PROVE  Inv'
<1>1. /\ UNCHANGED <<g_initialized, g_objects, g_sessions, g_next_handle, g_sign, g_find, asked>>
      /\ ~g_initialized
  BY DEF Inv, FinalizeSafe, InitializeLoadFails, InitializeBridgeFails,
         InitializeNoMemory, FinalizeCrashes
<1>2. /\ shutdown_ptr' \in BOOLEAN /\ connected' \in BOOLEAN /\ crashed' \in BOOLEAN
      /\ ~connected => ~connected'
      /\ ret' = ret \/ (ret' \in RetType /\ ret'.sig = {})
  <2>1. CASE InitializeLoadFails
    <3>1. shutdown_ptr' \in BOOLEAN /\ connected' = connected /\ crashed' = crashed
      BY <2>1 DEF InitializeLoadFails, Inv, TypeOK
    <3>2. ret' \in RetType /\ ret'.sig = {}
      BY <2>1, ReturnsType DEF InitializeLoadFails, CK_RV
    <3>3. QED
      BY <3>1, <3>2 DEF Inv, TypeOK
  <2>2. CASE InitializeBridgeFails
    <3>1. shutdown_ptr' \in BOOLEAN /\ connected' \in BOOLEAN /\ crashed' = crashed
      BY <2>2 DEF InitializeBridgeFails, Inv, TypeOK
    <3>2. ~connected => ~connected'
      BY <2>2 DEF InitializeBridgeFails, Inv, TypeOK
    <3>3. ret' \in RetType /\ ret'.sig = {}
      BY <2>2, ReturnsType DEF InitializeBridgeFails, CK_RV
    <3>4. QED
      BY <3>1, <3>2, <3>3 DEF Inv, TypeOK
  <2>3. CASE InitializeNoMemory
    BY <2>3, ReturnsType DEF InitializeNoMemory, Inv, TypeOK, CK_RV
  <2>4. CASE FinalizeCrashes
    BY <2>4 DEF FinalizeCrashes, Inv, TypeOK
  <2>5. QED
    BY <2>1, <2>2, <2>3, <2>4
<1>3. TypeOK'
  BY <1>1, <1>2 DEF Inv, TypeOK, RetType
<1>4. HandlesUnique' /\ NothingLeftBehind' /\ SignOnChosenKey'
  BY <1>1, <1>2 DEF Inv, HandlesUnique, NothingLeftBehind, SignOnChosenKey, Holds
<1>5. OperationAsAsked' /\ SizeQueryBinding'
  BY <1>1 DEF Inv, OperationAsAsked, SizeQueryBinding
<1>6. DeliveredAsPermitted'
  BY <1>1, <1>2 DEF Inv, DeliveredAsPermitted
<1>7. FindWithinTable' /\ FinalizeSafe'
  BY <1>1, <1>2 DEF Inv, FindWithinTable, FinalizeSafe
<1>8. QED
  BY <1>3, <1>4, <1>5, <1>6, <1>7 DEF Inv

\* C_Initialize starts from an empty table, so its objects are the
\* enumerated ones, and from slots without operations.
LEMMA InitializeKeeps ==
  ASSUME Inv, NEW table \in Enumerations, C_Initialize(table)
  PROVE  Inv'
<1>1. table \in Seq(Keys)
  BY Ksp11Assumption
<1>2. g_objects' = table
  BY <1>1 DEF Inv, NothingLeftBehind, C_Initialize
<1>3. ret' \in RetType /\ ret'.sig = {}
  BY ReturnsType DEF C_Initialize, CK_RV
<1>4. TypeOK'
  BY <1>1, <1>2, <1>3, ClearedTypes DEF Inv, TypeOK, RetType, C_Initialize
<1>5. \A s \in Slots : ~g_sessions'[s].open /\ g_sign'[s] = sign_reset /\ ~g_sign'[s].active
  BY DEF C_Initialize, ClosedSession, sign_reset
<1>6. /\ HandlesUnique' /\ NothingLeftBehind' /\ SignOnChosenKey'
      /\ OperationAsAsked' /\ SizeQueryBinding'
  BY <1>5 DEF C_Initialize, HandlesUnique, NothingLeftBehind, SignOnChosenKey,
              OperationAsAsked, SizeQueryBinding
<1>7. DeliveredAsPermitted' /\ FinalizeSafe'
  BY <1>3 DEF C_Initialize, DeliveredAsPermitted, FinalizeSafe, Running
<1>8. FindWithinTable'
  BY <1>2 DEF Inv, NothingLeftBehind, FindWithinTable, C_Initialize
<1>9. QED
  BY <1>4, <1>6, <1>7, <1>8 DEF Inv

\* C_Finalize clears the sessions and the objects; a search goes stale.
LEMMA FinalizeKeeps ==
  ASSUME Inv, C_Finalize
  PROVE  Inv'
<1>1. ret' \in RetType /\ ret'.sig = {}
  BY ReturnsType DEF C_Finalize, CK_RV
<1>2. TypeOK'
  <2>1. g_sessions' \in [Slots -> [open : BOOLEAN, handle : Nat]]
    BY DEF Inv, TypeOK, C_Finalize, Closed
  <2>2. g_find' \in [active : BOOLEAN, handles : Seq(Nat), pos : Nat, stale : BOOLEAN]
    BY DEF Inv, TypeOK, C_Finalize, Search
  <2>3. g_sign' \in [Slots -> SignState] /\ g_objects' \in Seq(Keys)
    BY ClearedTypes DEF C_Finalize
  <2>4. QED
    BY <1>1, <2>1, <2>2, <2>3 DEF Inv, TypeOK, RetType, C_Finalize
<1>3. \A s \in Slots : ~g_sessions'[s].open /\ g_sign'[s] = sign_reset /\ ~g_sign'[s].active
  BY DEF C_Finalize, sign_reset, Closed
<1>4. /\ HandlesUnique' /\ NothingLeftBehind' /\ SignOnChosenKey'
      /\ OperationAsAsked' /\ SizeQueryBinding'
  BY <1>3 DEF C_Finalize, HandlesUnique, NothingLeftBehind, SignOnChosenKey,
              OperationAsAsked, SizeQueryBinding
<1>5. DeliveredAsPermitted' /\ FinalizeSafe'
  BY <1>1 DEF C_Finalize, DeliveredAsPermitted, FinalizeSafe
<1>6. FindWithinTable'
  <2>1. /\ g_find'.pos = g_find.pos /\ g_find'.handles = g_find.handles
        /\ g_find'.active = g_find.active /\ g_find'.stale = g_find.active
    BY DEF Inv, TypeOK, C_Finalize, Search
  <2>2. CASE g_find.active
    BY <2>1, <2>2 DEF Inv, FindWithinTable
  <2>3. CASE ~g_find.active
    <3>1. g_find = NoFind
      BY <2>3 DEF Inv, FindWithinTable
    <3>2. g_find' = NoFind /\ NoFind.handles = << >> /\ NoFind.pos = 0
      BY <3>1 DEF C_Finalize, NoFind, Search
    <3>3. QED
      BY <3>2 DEF FindWithinTable
  <2>4. QED
    BY <2>2, <2>3
<1>7. QED
  BY <1>2, <1>4, <1>5, <1>6 DEF Inv

(***************************************************************************)
(* Sessions                                                                *)
(***************************************************************************)
\* A new session takes a fresh handle and a slot without an operation.
LEMMA OpenSessionKeeps ==
  ASSUME Inv, C_OpenSession
  PROVE  Inv'
<1>1. PICK s \in FreeSlot :
        g_sessions' = [g_sessions EXCEPT ![s] = [open |-> TRUE, handle |-> g_next_handle]]
  BY DEF C_OpenSession
<1>2. s \in Slots /\ ~g_sessions[s].open
  BY FreeSlotIsClosed
<1>3. /\ g_sessions'[s].open /\ g_sessions'[s].handle = g_next_handle
      /\ \A t \in Slots : t # s => g_sessions'[t] = g_sessions[t]
  BY <1>1, <1>2 DEF Inv, TypeOK
<1>4. g_next_handle \in Nat /\ g_next_handle >= 1 /\ g_next_handle' = g_next_handle + 1
  BY DEF Inv, TypeOK, C_OpenSession
<1>5. ret' \in RetType /\ ret'.sig = {}
  BY <1>4, ReturnedType DEF C_OpenSession, CK_RV
<1>6. TypeOK'
  <2>1. g_sessions' \in [Slots -> [open : BOOLEAN, handle : Nat]]
    BY <1>1, <1>4 DEF Inv, TypeOK
  <2>2. QED
    BY <1>4, <1>5, <2>1 DEF Inv, TypeOK, RetType, C_OpenSession, libVars
<1>7. HandlesUnique'
  <2>1. SUFFICES ASSUME NEW t \in Slots, NEW u \in Slots, g_sessions'[t].open
                 PROVE  /\ g_sessions'[t].handle \in 1 .. g_next_handle' - 1
                        /\ (g_sessions'[u].open /\ g_sessions'[u].handle = g_sessions'[t].handle)
                              => t = u
    BY DEF HandlesUnique, Holds
  <2>2. \A v \in Slots \ {s} : g_sessions[v].open =>
           g_sessions[v].handle \in 1 .. g_next_handle - 1
    BY DEF Inv, HandlesUnique
  <2>3. CASE t = s \/ u = s
    BY <1>3, <1>4, <2>1, <2>2, <2>3
  <2>4. CASE t # s /\ u # s
    BY <1>3, <1>4, <2>1, <2>2, <2>4 DEF Inv, HandlesUnique, Holds
  <2>5. QED
    BY <2>3, <2>4
<1>8. g_sign[s] = sign_reset /\ ~g_sign[s].active
  BY <1>2 DEF Inv, NothingLeftBehind, sign_reset
<1>9. NothingLeftBehind'
  BY <1>2, <1>3 DEF Inv, NothingLeftBehind, C_OpenSession, libVars
<1>10. SignOnChosenKey'
  BY <1>3, <1>8 DEF Inv, SignOnChosenKey, Holds, C_OpenSession, libVars
<1>11. OperationAsAsked' /\ SizeQueryBinding'
  BY DEF Inv, OperationAsAsked, SizeQueryBinding, C_OpenSession
<1>12. DeliveredAsPermitted' /\ FindWithinTable' /\ FinalizeSafe'
  BY <1>5 DEF Inv, DeliveredAsPermitted, FindWithinTable, FinalizeSafe, C_OpenSession, libVars
<1>13. QED
  BY <1>6, <1>7, <1>9, <1>10, <1>11, <1>12 DEF Inv

\* Closing sessions (one or all) ends their operations and touches no other slot.
LEMMA CloseKeeps ==
  ASSUME Inv, NEW C \in SUBSET Slots,
         g_sessions' = [s \in Slots |-> IF s \in C THEN Closed(g_sessions[s]) ELSE g_sessions[s]],
         g_sign' = [s \in Slots |-> IF s \in C THEN sign_reset ELSE g_sign[s]],
         g_initialized, ret' \in RetType, ret'.sig = {},
         UNCHANGED <<libVars, g_objects, g_next_handle, g_find, asked>>
  PROVE  Inv'
<1>1. \A s \in C : ~g_sessions'[s].open /\ g_sign'[s] = sign_reset /\ ~g_sign'[s].active
  BY DEF Closed, sign_reset
<1>2. \A s \in Slots \ C : g_sessions'[s] = g_sessions[s] /\ g_sign'[s] = g_sign[s]
  OBVIOUS
<1>3. TypeOK'
  <2>1. g_sessions' \in [Slots -> [open : BOOLEAN, handle : Nat]]
    BY DEF Inv, TypeOK, Closed
  <2>2. g_sign' \in [Slots -> SignState]
    BY ClearedTypes DEF Inv, TypeOK
  <2>3. QED
    BY <2>1, <2>2 DEF Inv, TypeOK, RetType, libVars
<1>4. HandlesUnique'
  BY <1>1, <1>2 DEF Inv, HandlesUnique, Holds
<1>5. NothingLeftBehind'
  BY <1>1, <1>2 DEF Inv, NothingLeftBehind, libVars
<1>6. SignOnChosenKey'
  BY <1>1, <1>2 DEF Inv, SignOnChosenKey, Holds, libVars
<1>7. OperationAsAsked' /\ SizeQueryBinding'
  BY <1>1, <1>2 DEF Inv, OperationAsAsked, SizeQueryBinding
<1>8. DeliveredAsPermitted' /\ FindWithinTable' /\ FinalizeSafe'
  BY DEF Inv, DeliveredAsPermitted, FindWithinTable, FinalizeSafe, libVars
<1>9. QED
  BY <1>3, <1>4, <1>5, <1>6, <1>7, <1>8 DEF Inv

\* C_CloseSession resets the operation of the slot it closes.
LEMMA CloseSessionKeeps ==
  ASSUME Inv, NEW h \in Handles, C_CloseSession(h)
  PROVE  Inv'
<1>1. PICK s \in find_session(h) :
        /\ g_sign' = [g_sign EXCEPT ![s] = sign_reset]
        /\ g_sessions' = [g_sessions EXCEPT ![s] = Closed(@)]
  BY DEF C_CloseSession
<1>2. {s} \in SUBSET Slots
  BY FoundSession
<1>3. /\ g_sessions' = [t \in Slots |-> IF t \in {s} THEN Closed(g_sessions[t])
                                                   ELSE g_sessions[t]]
      /\ g_sign' = [t \in Slots |-> IF t \in {s} THEN sign_reset ELSE g_sign[t]]
  BY <1>1 DEF Inv, TypeOK
<1>4. ret' \in RetType /\ ret'.sig = {}
  BY ReturnsType DEF C_CloseSession, CK_RV
<1>5. QED
  BY <1>2, <1>3, <1>4, CloseKeeps DEF C_CloseSession

\* C_CloseAllSessions resets the operation of every slot it closes.
LEMMA CloseAllSessionsKeeps ==
  ASSUME Inv, C_CloseAllSessions
  PROVE  Inv'
<1> DEFINE C == {s \in Slots : g_sessions[s].open}
<1>1. g_sign' = [s \in Slots |-> IF s \in C THEN sign_reset ELSE g_sign[s]]
  BY DEF C_CloseAllSessions
<1>2. ASSUME NEW s \in Slots, s \notin C
      PROVE  Closed(g_sessions[s]) = g_sessions[s]
  BY <1>2 DEF Closed, Inv, TypeOK
<1>3. g_sessions' = [s \in Slots |-> IF s \in C THEN Closed(g_sessions[s]) ELSE g_sessions[s]]
  BY <1>2 DEF C_CloseAllSessions
<1>4. ret' \in RetType /\ ret'.sig = {}
  BY ReturnsType DEF C_CloseAllSessions, CK_RV
<1>5. C \in SUBSET Slots
  OBVIOUS
<1> HIDE DEF C
<1>6. QED
  BY <1>1, <1>3, <1>4, <1>5, CloseKeeps DEF C_CloseAllSessions

(***************************************************************************)
(* Search                                                                  *)
(***************************************************************************)
FindType == [active : BOOLEAN, handles : Seq(Nat), pos : Nat, stale : BOOLEAN]

\* A call that changes the search alone.
LEMMA FindKeeps ==
  ASSUME Inv, g_find' \in FindType, FindWithinTable', ret' \in RetType, ret'.sig = {},
         UNCHANGED <<libVars, g_objects, g_sessions, g_next_handle, g_sign, asked>>
  PROVE  Inv'
<1>1. TypeOK'
  BY DEF Inv, TypeOK, RetType, FindType, libVars
<1>2. HandlesUnique' /\ NothingLeftBehind' /\ SignOnChosenKey'
  BY DEF Inv, HandlesUnique, NothingLeftBehind, SignOnChosenKey, Holds, libVars
<1>3. OperationAsAsked' /\ SizeQueryBinding'
  BY DEF Inv, OperationAsAsked, SizeQueryBinding
<1>4. DeliveredAsPermitted' /\ FinalizeSafe'
  BY DEF Inv, DeliveredAsPermitted, FinalizeSafe, libVars
<1>5. QED
  BY <1>1, <1>2, <1>3, <1>4 DEF Inv

\* The list C_FindObjectsInit builds holds handles of the table, in order.
LEMMA InOrderList ==
  ASSUME g_objects \in Seq(Keys), NEW S \in SUBSET DOMAIN g_objects, NEW q \in InOrder(S)
  PROVE  /\ q \in Seq(Nat)
         /\ \A i \in DOMAIN q : q[i] \in DOMAIN g_objects
         /\ \A i, j \in DOMAIN q : i < j => q[i] < q[j]
<1>1. S \in SUBSET (1 .. Len(g_objects)) /\ Len(g_objects) \in Nat
  OBVIOUS
<1>2. IsFiniteSet(1 .. Len(g_objects))
  BY <1>1, FS_Interval
<1>3. IsFiniteSet(S)
  BY <1>1, <1>2, FS_Subset
<1>4. Cardinality(S) \in Nat
  BY <1>3, FS_CardinalityType
<1>5. /\ q \in [1 .. Cardinality(S) -> S]
      /\ \A i, j \in 1 .. Cardinality(S) : i < j => q[i] < q[j]
  BY DEF InOrder
<1>6. q \in Seq(S)
  BY <1>4, <1>5
<1>7. QED
  BY <1>1, <1>5, <1>6

\* C_FindObjectsInit lists objects of the table, in order.
LEMMA FindObjectsInitKeeps ==
  ASSUME Inv, NEW h \in Handles, NEW tmpl, C_FindObjectsInit(h, tmpl)
  PROVE  Inv'
<1> DEFINE S == {i \in DOMAIN g_objects : object_matches(g_objects[i], tmpl)}
<1>1. PICK q \in InOrder(S) : g_find' = Search(TRUE, q, 0, FALSE)
  BY DEF C_FindObjectsInit
<1>2. g_objects \in Seq(Keys) /\ S \in SUBSET DOMAIN g_objects
  BY DEF Inv, TypeOK
<1> HIDE DEF S
<1>3. /\ q \in Seq(Nat)
      /\ \A i \in DOMAIN q : q[i] \in DOMAIN g_objects
      /\ \A i, j \in DOMAIN q : i < j => q[i] < q[j]
  BY <1>2, InOrderList
<1>4. g_find' \in FindType
  BY <1>1, <1>3 DEF Search, FindType
<1>5. FindWithinTable'
  <2>1. /\ g_find'.active /\ g_find'.handles = q /\ g_find'.pos = 0
        /\ g_objects' = g_objects
    BY <1>1 DEF Search, C_FindObjectsInit
  <2>2. QED
    BY <1>3, <2>1 DEF FindWithinTable
<1>6. ret' \in RetType /\ ret'.sig = {}
  BY ReturnedType DEF C_FindObjectsInit, CK_RV, Handles
<1>7. QED
  BY <1>4, <1>5, <1>6, FindKeeps DEF C_FindObjectsInit

\* Ending a search, or failing to begin one, leaves the empty search.
LEMMA NoFindKeeps ==
  ASSUME Inv, g_find' = NoFind, ret' \in RetType, ret'.sig = {},
         UNCHANGED <<libVars, g_objects, g_sessions, g_next_handle, g_sign, asked>>
  PROVE  Inv'
<1>1. NoFind \in FindType /\ NoFind.handles = << >> /\ NoFind.pos = 0
  BY ClearedTypes DEF NoFind, Search, FindType
<1>2. FindWithinTable'
  BY <1>1 DEF FindWithinTable
<1>3. QED
  BY <1>1, <1>2, FindKeeps

\* C_FindObjects advances within the list.
LEMMA FindObjectsKeeps ==
  ASSUME Inv, NEW h \in Handles, NEW max \in 0 .. MaxFind, C_FindObjects(h, max)
  PROVE  Inv'
<1> DEFINE n == Taken(max)
<1>1. /\ g_find.active
      /\ g_find' = Search(TRUE, g_find.handles, g_find.pos + n, g_find.stale)
      /\ ret' = Returned("CKR_OK", h, {}, n)
      /\ g_objects' = g_objects
  BY DEF C_FindObjects
<1>2. /\ g_find.pos \in Nat /\ Len(g_find.handles) \in Nat /\ g_find.handles \in Seq(Nat)
      /\ g_find.pos <= Len(g_find.handles) /\ max \in Nat /\ g_find.stale \in BOOLEAN
  BY Ksp11Assumption DEF Inv, TypeOK, FindWithinTable
<1>3. n \in Nat /\ g_find.pos + n \in Nat /\ g_find.pos + n <= Len(g_find.handles)
  BY <1>2 DEF Taken
<1> HIDE DEF n
<1>4. /\ g_find'.handles = g_find.handles /\ g_find'.pos = g_find.pos + n
      /\ g_find'.stale = g_find.stale /\ g_find'.active
  BY <1>1 DEF Search
<1>5. g_find' \in FindType
  BY <1>1, <1>2, <1>3 DEF Search, FindType
<1>6. FindWithinTable'
  BY <1>1, <1>3, <1>4 DEF Inv, FindWithinTable
<1>7. ret' \in RetType /\ ret'.sig = {}
  BY <1>1, <1>3, ReturnedType DEF CK_RV, Handles
<1>8. QED
  BY <1>5, <1>6, <1>7, FindKeeps DEF C_FindObjects

(***************************************************************************)
(* Signing                                                                 *)
(***************************************************************************)
\* Appending a part, and the history of a call: one field changes.
LEMMA SetBuf ==
  ASSUME NEW st \in SignState, NEW b
  PROVE  LET u == [st EXCEPT !.buf = b] IN
         /\ u.buf = b
         /\ u.active = st.active /\ u.obj_index = st.obj_index
         /\ u.digest_mech = st.digest_mech /\ u.md = st.md /\ u.pss = st.pss
         /\ u.hash_alg = st.hash_alg /\ u.cached = st.cached
         /\ b \in Seq(Parts) => u \in SignState
BY Zenon DEF SignState

\* C_SignUpdate's history changes nothing but the parts fed.
LEMMA FedFields ==
  ASSUME NEW a \in Asked, NEW p \in Parts
  PROVE  /\ Fed(a, p) \in Asked /\ Fed(a, p).fed = Append(a.fed, p)
         /\ Fed(a, p).sess = a.sess /\ Fed(a, p).key = a.key /\ Fed(a, p).mech = a.mech
         /\ Fed(a, p).par = a.par /\ Fed(a, p).input = a.input /\ Fed(a, p).told = a.told
BY DEF Asked, Fed, History

\* The history of C_Sign and C_SignFinal changes the first input and the size told.
LEMMA HeardFields ==
  ASSUME NEW a \in Asked, NEW ps \in Seq(Parts), NEW cap, NEW r \in RetType
  PROVE  LET b == Heard(a, ps, cap, r) IN
         /\ b \in Asked
         /\ b.input = IF a.input = {} THEN {ps} ELSE a.input
         /\ b.told = IF cap = NullBuf /\ r.rv = "CKR_OK" THEN {r.size} ELSE a.told
         /\ b.sess = a.sess /\ b.key = a.key /\ b.mech = a.mech
         /\ b.par = a.par /\ b.fed = a.fed
BY DEF Asked, RetType, Heard, History

\* What the properties say of an active operation st with history a in slot s.
OpInv(st, a, s) ==
  /\ g_initialized /\ connected /\ Holds(s, a.sess)
  /\ st.obj_index \in DOMAIN g_objects /\ a.key = {g_objects[st.obj_index]}
  /\ a.mech \in MechType
  /\ mech_ok_for_type(a.mech, ktype(g_objects[st.obj_index]))
  /\ st.digest_mech = ksp_mechs[a.mech].digest_mech
  /\ st.md = ksp_mechs[a.mech].md
  /\ st.pss = ksp_mechs[a.mech].pss
  /\ st.hash_alg = InitHashAlg(a.mech, a.par)
  /\ st.buf = a.fed
  /\ st.cached = {} => a.input = {}
  /\ \A sig \in st.cached : a.key = {sig.key} /\ PermittedFor(a, sig)
  /\ \/ a.told = {} /\ st.cached = {}
     \/ \E sig \in st.cached : st.cached = {sig} /\ a.told = {SigLen[sig.key]}

SlotInv(s) == g_sign[s].active => OpInv(g_sign[s], asked[s], s)

\* OpInv of every slot is what the three invariants on operations say together.
LEMMA SlotByName ==
  (\A s \in Slots : SlotInv(s))
     <=> (SignOnChosenKey /\ OperationAsAsked /\ SizeQueryBinding)
BY DEF SlotInv, OpInv, SignOnChosenKey, OperationAsAsked, SizeQueryBinding

\* A call that changes the operation of one slot alone.
LEMMA SignKeeps ==
  ASSUME Inv, NEW s \in Slots, g_sessions[s].open, g_initialized,
         NEW u \in SignState, NEW a \in Asked,
         g_sign' = [g_sign EXCEPT ![s] = u], asked' = [asked EXCEPT ![s] = a],
         u.active => OpInv(u, a, s), ret' \in RetType, DeliveredAsPermitted', UNCHANGED notSign
  PROVE  Inv'
<1>1. TypeOK'
  BY DEF Inv, TypeOK, RetType, notSign, libVars
<1>2. HandlesUnique' /\ FindWithinTable' /\ FinalizeSafe'
  BY DEF Inv, HandlesUnique, FindWithinTable, FinalizeSafe, Holds, notSign, libVars
<1>3. \A t \in Slots \ {s} : g_sign'[t] = g_sign[t] /\ asked'[t] = asked[t]
  BY DEF Inv, TypeOK
<1>4. NothingLeftBehind'
  BY <1>3 DEF Inv, NothingLeftBehind, notSign, libVars
<1>5. ASSUME NEW t \in Slots \ {s}
      PROVE  SlotInv(t)'
  <2>1. SlotInv(t)
    BY SlotByName DEF Inv
  <2>2. QED
    BY <1>3, <2>1 DEF SlotInv, OpInv, Holds, notSign, libVars, PermittedFor
<1>6. (\A t \in Slots : SlotInv(t))'
  <2>1. g_sign'[s] = u /\ asked'[s] = a
    BY DEF Inv, TypeOK
  <2>2. SlotInv(s)'
    BY <2>1 DEF SlotInv, OpInv, Holds, notSign, libVars, PermittedFor
  <2>3. QED
    BY <1>5, <2>2
<1>7. SignOnChosenKey' /\ OperationAsAsked' /\ SizeQueryBinding'
  BY <1>6 DEF SlotInv, OpInv, SignOnChosenKey, OperationAsAsked, SizeQueryBinding
<1>8. QED
  BY <1>1, <1>2, <1>4, <1>7 DEF Inv

\* C_SignInit sets the operation up from the table and the parameters.
LEMMA SignInitKeeps ==
  ASSUME Inv, NEW h \in Handles, NEW mech \in Mechs, NEW par \in Params, NEW o \in ObjHandles,
         C_SignInit(h, mech, par, o)
  PROVE  Inv'
<1>1. PICK s \in find_session(h), i \in object_by_handle(o) :
       /\ ~g_sign[s].active
       /\ mech \in MechType
       /\ mech_ok_for_type(mech, ktype(g_objects[i]))
       /\ g_sign' = [g_sign EXCEPT ![s] =
            [active |-> TRUE, obj_index |-> i,
             digest_mech |-> ksp_mechs[mech].digest_mech,
             md |-> ksp_mechs[mech].md, pss |-> ksp_mechs[mech].pss,
             hash_alg |-> InitHashAlg(mech, par), buf |-> << >>, cached |-> {}]]
       /\ asked' = [asked EXCEPT ![s] =
            History(h, {g_objects[i]}, mech, par, << >>, {}, {})]
  BY DEF C_SignInit
<1> DEFINE u == [active |-> TRUE, obj_index |-> i,
                 digest_mech |-> ksp_mechs[mech].digest_mech,
                 md |-> ksp_mechs[mech].md, pss |-> ksp_mechs[mech].pss,
                 hash_alg |-> InitHashAlg(mech, par), buf |-> << >>, cached |-> {}]
<1> DEFINE a == History(h, {g_objects[i]}, mech, par, << >>, {}, {})
<1>2. s \in Slots /\ g_sessions[s].open /\ g_sessions[s].handle = h
  BY FoundSession
<1>3. i \in DOMAIN g_objects /\ g_objects[i] \in Keys /\ i \in Nat
  BY DEF object_by_handle, Inv, TypeOK
<1>4. par \in PssParam /\ mech \in MechType /\ h \in Nat
  BY <1>1, Ksp11Assumption DEF Handles
<1>5. u \in SignState
  <2>1. /\ ksp_mechs[mech].digest_mech \in 0 .. 1 /\ ksp_mechs[mech].md \in 0 .. 3
        /\ ksp_mechs[mech].pss \in 0 .. 1 /\ InitHashAlg(mech, par) \in 0 .. 3
    BY <1>4, MechTable, InitHash
  <2>2. QED
    BY <1>3, <2>1 DEF SignState
<1>6. a \in Asked
  BY <1>3, <1>4 DEF Asked, History
<1>7. g_sign' = [g_sign EXCEPT ![s] = u] /\ asked' = [asked EXCEPT ![s] = a]
  BY <1>1
<1>8. /\ u.obj_index = i /\ u.digest_mech = ksp_mechs[mech].digest_mech
      /\ u.md = ksp_mechs[mech].md /\ u.pss = ksp_mechs[mech].pss
      /\ u.hash_alg = InitHashAlg(mech, par) /\ u.buf = << >> /\ u.cached = {}
      /\ a.sess = h /\ a.key = {g_objects[i]} /\ a.mech = mech /\ a.par = par
      /\ a.fed = << >> /\ a.input = {} /\ a.told = {}
  BY DEF History
<1>9. /\ g_initialized /\ connected /\ UNCHANGED notSign
      /\ ret' = Returned("CKR_OK", h, {}, 0)
  BY DEF C_SignInit, InSession, Inv, FinalizeSafe
<1>10. ret' \in RetType /\ ret'.sig = {}
  BY <1>4, <1>9, ReturnedType DEF CK_RV
<1> HIDE DEF u, a
<1>11. OpInv(u, a, s)
  BY <1>1, <1>2, <1>3, <1>4, <1>8, <1>9 DEF OpInv, Holds
<1>12. DeliveredAsPermitted'
  BY <1>10 DEF DeliveredAsPermitted
<1>13. QED
  BY <1>2, <1>5, <1>6, <1>7, <1>9, <1>10, <1>11, <1>12, SignKeeps

\* C_SignUpdate: the buffer and the history grow by the same part.
LEMMA SignUpdateKeeps ==
  ASSUME Inv, NEW h \in Handles, NEW p \in Parts, C_SignUpdate(h, p)
  PROVE  Inv'
<1>1. PICK s \in find_session(h) :
       /\ g_sign[s].active
       /\ g_sign' = [g_sign EXCEPT ![s] = [g_sign[s] EXCEPT !.buf = Append(g_sign[s].buf, p)]]
       /\ asked' = [asked EXCEPT ![s] = Fed(asked[s], p)]
  BY DEF C_SignUpdate
<1> DEFINE u == [g_sign[s] EXCEPT !.buf = Append(g_sign[s].buf, p)]
<1> DEFINE a == Fed(asked[s], p)
<1>2. s \in Slots /\ g_sessions[s].open
  BY FoundSession
<1>3. g_sign[s] \in SignState /\ asked[s] \in Asked
  BY <1>2 DEF Inv, TypeOK
<1>4. Append(g_sign[s].buf, p) \in Seq(Parts)
  BY <1>3 DEF SignState
<1>5. /\ u \in SignState /\ u.buf = Append(g_sign[s].buf, p)
      /\ u.active = g_sign[s].active /\ u.obj_index = g_sign[s].obj_index
      /\ u.digest_mech = g_sign[s].digest_mech /\ u.md = g_sign[s].md /\ u.pss = g_sign[s].pss
      /\ u.hash_alg = g_sign[s].hash_alg /\ u.cached = g_sign[s].cached
  BY <1>3, <1>4, SetBuf
<1>6. /\ a \in Asked /\ a.fed = Append(asked[s].fed, p)
      /\ a.sess = asked[s].sess /\ a.key = asked[s].key /\ a.mech = asked[s].mech
      /\ a.par = asked[s].par /\ a.input = asked[s].input /\ a.told = asked[s].told
  BY <1>3, FedFields
<1>7. g_sign' = [g_sign EXCEPT ![s] = u] /\ asked' = [asked EXCEPT ![s] = a]
  BY <1>1
<1> HIDE DEF u, a
<1>8. g_initialized /\ UNCHANGED notSign /\ ret' = Returned("CKR_OK", h, {}, 0)
  BY DEF C_SignUpdate, InSession
<1>9. ret' \in RetType /\ ret'.sig = {}
  BY <1>8, ReturnedType DEF CK_RV, Handles
<1>10. g_sign[s].active
  BY <1>1
<1>11. OpInv(u, a, s)
  <2>1. OpInv(g_sign[s], asked[s], s)
    BY <1>2, <1>10, SlotByName DEF Inv, SlotInv
  <2>2. \A sig : PermittedFor(asked[s], sig) => PermittedFor(a, sig)
    BY <1>6 DEF PermittedFor
  <2>3. QED
    BY <1>5, <1>6, <2>1, <2>2 DEF OpInv
<1>12. DeliveredAsPermitted'
  BY <1>9 DEF DeliveredAsPermitted
<1>13. QED
  BY <1>2, <1>5, <1>6, <1>7, <1>8, <1>9, <1>11, <1>12, SignKeeps

\* Permitted signatures are signatures.
LEMMA PermittedType ==
  ASSUME NEW key \in Keys, NEW mech \in MechType, NEW par, NEW ps \in Seq(Parts)
  PROVE  Permitted(key, mech, par, Concat(ps)) \subseteq Signature
<1>1. Concat(ps).msg = ps
  BY DEF Concat
<1>2. /\ Whole(Concat(ps)) \in Digest /\ Tail19(Concat(ps)) \in Digest
      /\ \A k \in HashAlg : Hashed(Concat(ps), k) \in Digest
  BY <1>1 DEF Whole, Tail19, Hashed, Digest, HashAlg
<1>3. MechScheme(mech) \in {"RSASSA-PSS", "RSASSA-PKCS1-v1_5", "ECDSA"}
  BY DEF MechScheme
<1>4. ASSUME NEW k \in HashAlg, NEW d \in Digest
      PROVE  [key |-> key, scheme |-> MechScheme(mech), hash |-> k, digest |-> d] \in Signature
  BY <1>3 DEF Signature
<1>5. CASE ksp_mechs[mech].digest_mech = 1
  <2>1. ksp_mechs[mech].md \in HashAlg
    BY <1>5, MechTable
  <2>2. QED
    BY <1>2, <1>4, <1>5, <2>1 DEF Permitted
<1>6. CASE ksp_mechs[mech].digest_mech # 1
  BY <1>2, <1>4, <1>6 DEF Permitted
<1>7. QED
  BY <1>5, <1>6

\* What the server signs for an active operation is what was asked for.
LEMMA ServerSignsAsAsked ==
  ASSUME Inv, NEW s \in Slots, g_sign[s].active, NEW ps \in Seq(Parts),
         NEW sig \in ServerSigns(g_sign[s], Concat(ps))
  PROVE  /\ sig \in Signature
         /\ asked[s].key = {sig.key}
         /\ sig \in Permitted(sig.key, asked[s].mech, asked[s].par, Concat(ps))
<1> DEFINE st == g_sign[s]
<1> DEFINE a == asked[s]
<1> DEFINE key == g_objects[st.obj_index]
<1> DEFINE x == DigestFor(st, Concat(ps))
<1>1. OpInv(g_sign[s], asked[s], s)
  BY SlotByName DEF Inv, SlotInv
<1>2. key \in Keys /\ CertKind[key] \in KeyKind
  BY <1>1, Ksp11Assumption DEF OpInv, Inv, TypeOK
<1>3. a.mech \in MechType /\ a.par \in PssParam
  BY <1>1 DEF OpInv, Inv, TypeOK, Asked
<1>4. mech_ok_for_type(a.mech, parse_cert_pubkey(CertKind[key]))
  BY <1>1 DEF OpInv, ktype
<1>5. x = BuildDigest(ksp_mechs[a.mech].digest_mech, ksp_mechs[a.mech].md,
                      ksp_mechs[a.mech].pss, InitHashAlg(a.mech, a.par),
                      parse_cert_pubkey(CertKind[key]), Concat(ps))
  BY <1>1 DEF OpInv, DigestFor, ktype
<1>6. x.ok /\ sig \in SignHash(key, CertKind[key], Request(x, ksp_mechs[a.mech].pss))
  BY <1>1 DEF ServerSigns, OpInv
<1> HIDE DEF x
<1>7. sig \in Permitted(key, a.mech, a.par, Concat(ps))
  BY <1>2, <1>3, <1>4, <1>5, <1>6, ServedAsPermitted
<1>8. sig.key = key
  BY <1>6 DEF SignHash
<1>9. QED
  BY <1>1, <1>2, <1>3, <1>7, <1>8, PermittedType DEF OpInv

\* The signature do_sign has at hand, kept or fresh, answers the first input.
LEMMA SignatureAtHand ==
  ASSUME Inv, NEW s \in Slots, g_sign[s].active, NEW ps \in Seq(Parts),
         NEW sig \in IF g_sign[s].cached # {} THEN g_sign[s].cached
                     ELSE ServerSigns(g_sign[s], Concat(ps))
  PROVE  /\ sig \in Signature
         /\ SigLen[sig.key] \in Nat
         /\ asked[s].key = {sig.key}
         /\ \E q \in IF asked[s].input = {} THEN {ps} ELSE asked[s].input :
               sig \in Permitted(sig.key, asked[s].mech, asked[s].par, Concat(q))
<1>1. OpInv(g_sign[s], asked[s], s)
  BY SlotByName DEF Inv, SlotInv
<1>2. sig \in Signature => sig.key \in Keys
  BY DEF Signature
<1>3. CASE g_sign[s].cached # {}
  <2>1. sig \in g_sign[s].cached /\ sig \in Signature
    BY <1>3 DEF Inv, TypeOK, SignState
  <2>2. asked[s].key = {sig.key} /\ PermittedFor(asked[s], sig)
    BY <1>1, <2>1 DEF OpInv
  <2>3. QED
    BY <1>2, <2>1, <2>2, Ksp11Assumption DEF PermittedFor
<1>4. CASE g_sign[s].cached = {}
  <2>1. sig \in ServerSigns(g_sign[s], Concat(ps))
    BY <1>4
  <2>2. /\ sig \in Signature /\ asked[s].key = {sig.key}
        /\ sig \in Permitted(sig.key, asked[s].mech, asked[s].par, Concat(ps))
    BY <2>1, ServerSignsAsAsked
  <2>3. asked[s].input = {}
    BY <1>1, <1>4 DEF OpInv
  <2>4. QED
    BY <1>2, <2>2, <2>3, Ksp11Assumption
<1>5. QED
  BY <1>3, <1>4

\* An operation that is over leaves its slot cleared.
LEMMA OperationOver ==
  ASSUME Inv, NEW s \in Slots, g_sessions[s].open, g_initialized, NEW b \in Asked,
         g_sign' = [g_sign EXCEPT ![s] = sign_reset], asked' = [asked EXCEPT ![s] = b],
         ret' \in RetType, DeliveredAsPermitted', UNCHANGED notSign
  PROVE  Inv'
<1>1. ~sign_reset.active
  BY DEF sign_reset
<1>2. QED
  BY <1>1, ClearedTypes, SignKeeps

\* C_Sign and C_SignFinal: the signature is kept, dropped, or handed over
\* to the session that asked for it.
LEMMA DoSignKeeps ==
  ASSUME Inv, NEW h \in Handles, NEW s \in find_session(h), g_initialized, g_sign[s].active,
         NEW ps \in Seq(Parts), NEW cap,
         do_sign(h, s, Concat(ps), cap) \/ do_sign_fails(h, s, Concat(ps)),
         Presented(s, ps, cap), UNCHANGED notSign
  PROVE  Inv'
<1>1. s \in Slots /\ g_sessions[s].open /\ g_sessions[s].handle = h /\ h \in Nat
  BY FoundSession DEF Handles
<1>2. OpInv(g_sign[s], asked[s], s) /\ asked[s] \in Asked
  BY <1>1, SlotByName DEF Inv, SlotInv, TypeOK
<1> DEFINE b == Heard(asked[s], ps, cap, ret')
<1>3. CASE do_sign_fails(h, s, Concat(ps))
  <2>1. ret' \in RetType /\ ret'.sig = {}
    BY <1>1, <1>3, ReturnedType DEF do_sign_fails, CK_RV
  <2>2. DeliveredAsPermitted'
    BY <2>1 DEF DeliveredAsPermitted
  <2>3. g_sign' = [g_sign EXCEPT ![s] = sign_reset]
    BY <1>3 DEF do_sign_fails
  <2>4. b \in Asked /\ asked' = [asked EXCEPT ![s] = b]
    BY <1>2, <2>1, HeardFields DEF Presented
  <2>5. QED
    BY <1>1, <2>1, <2>2, <2>3, <2>4, OperationOver
<1>4. CASE do_sign(h, s, Concat(ps), cap)
  <2>1. PICK sig \in IF g_sign[s].cached # {} THEN g_sign[s].cached
                     ELSE ServerSigns(g_sign[s], Concat(ps)) :
          HandOver(h, s, sig, cap)
    BY <1>4 DEF do_sign
  <2> DEFINE len == SigLen[sig.key]
  <2>2. /\ sig \in Signature /\ len \in Nat /\ asked[s].key = {sig.key}
        /\ \E q \in IF asked[s].input = {} THEN {ps} ELSE asked[s].input :
              sig \in Permitted(sig.key, asked[s].mech, asked[s].par, Concat(q))
    BY <1>1, SignatureAtHand
  <2>3. CASE /\ cap = NullBuf
             /\ g_sign' = [g_sign EXCEPT ![s] = [g_sign[s] EXCEPT !.cached = {sig}]]
             /\ ret' = Returned("CKR_OK", h, {}, len)
    <3> DEFINE u == [g_sign[s] EXCEPT !.cached = {sig}]
    <3>1. /\ ret' \in RetType /\ ret'.sig = {}
          /\ ret'.rv = "CKR_OK" /\ ret'.size = len
      BY <1>1, <2>2, <2>3, ReturnedType DEF CK_RV, Returned
    <3>2. /\ b \in Asked /\ asked' = [asked EXCEPT ![s] = b]
          /\ b.input = IF asked[s].input = {} THEN {ps} ELSE asked[s].input
          /\ b.told = {len}
          /\ b.sess = asked[s].sess /\ b.key = asked[s].key /\ b.mech = asked[s].mech
          /\ b.par = asked[s].par /\ b.fed = asked[s].fed
      <4>1. cap = NullBuf
        BY <2>3
      <4>2. asked' = [asked EXCEPT ![s] = b]
        BY DEF Presented
      <4>3. /\ b \in Asked
            /\ b.input = IF asked[s].input = {} THEN {ps} ELSE asked[s].input
            /\ b.told = IF cap = NullBuf /\ ret'.rv = "CKR_OK" THEN {ret'.size}
                        ELSE asked[s].told
            /\ b.sess = asked[s].sess /\ b.key = asked[s].key /\ b.mech = asked[s].mech
            /\ b.par = asked[s].par /\ b.fed = asked[s].fed
        <5>1. asked[s] \in Asked /\ ret' \in RetType
          BY <1>2, <3>1
        <5>2. QED
          BY <5>1 DEF Asked, RetType, Heard, History
      <4>4. QED
        BY <3>1, <4>1, <4>2, <4>3
    <3>3. g_sign[s] \in SignState /\ {sig} \in SUBSET Signature
      BY <1>1, <2>2 DEF Inv, TypeOK
    <3>4. /\ u \in SignState /\ u.cached = {sig} /\ u.active = g_sign[s].active
          /\ u.obj_index = g_sign[s].obj_index /\ u.digest_mech = g_sign[s].digest_mech
          /\ u.md = g_sign[s].md /\ u.pss = g_sign[s].pss
          /\ u.hash_alg = g_sign[s].hash_alg /\ u.buf = g_sign[s].buf
      BY <3>3, SetCached
    <3>5. g_sign' = [g_sign EXCEPT ![s] = u]
      BY <2>3
    <3> HIDE DEF u
    <3>6. PermittedFor(b, sig)
      BY <2>2, <3>2 DEF PermittedFor
    <3>7. OpInv(u, b, s)
      BY <1>2, <2>2, <3>2, <3>4, <3>6 DEF OpInv
    <3>8. DeliveredAsPermitted'
      BY <3>1 DEF DeliveredAsPermitted
    <3>9. QED
      BY <1>1, <3>1, <3>2, <3>4, <3>5, <3>7, <3>8, SignKeeps
  <2>4. CASE /\ g_sign' = [g_sign EXCEPT ![s] = sign_reset]
             /\ ret' = Returned("CKR_BUFFER_TOO_SMALL", h, {}, len)
    <3>1. ret' \in RetType /\ ret'.sig = {}
      BY <1>1, <2>2, <2>4, ReturnedType DEF CK_RV
    <3>2. DeliveredAsPermitted'
      BY <3>1 DEF DeliveredAsPermitted
    <3>3. b \in Asked /\ asked' = [asked EXCEPT ![s] = b]
      BY <1>2, <3>1, HeardFields DEF Presented
    <3>4. QED
      BY <1>1, <2>4, <3>1, <3>2, <3>3, OperationOver
  <2>5. CASE /\ g_sign' = [g_sign EXCEPT ![s] = sign_reset]
             /\ ret' = Returned("CKR_OK", h, {sig}, len)
    <3>1. ret' \in RetType /\ ret'.sig = {sig} /\ ret'.sess = h
      BY <1>1, <2>2, <2>5 DEF CK_RV, Returned, RetType
    <3>2. /\ b \in Asked /\ asked' = [asked EXCEPT ![s] = b]
          /\ b.input = IF asked[s].input = {} THEN {ps} ELSE asked[s].input
          /\ b.sess = asked[s].sess /\ b.key = asked[s].key /\ b.mech = asked[s].mech
          /\ b.par = asked[s].par
      <4>1. asked[s] \in Asked /\ ret' \in RetType
        BY <1>2, <3>1
      <4>2. QED
        BY <4>1 DEF Presented, Asked, RetType, Heard, History
    <3>3. asked[s].sess = h
      BY <1>1, <1>2 DEF OpInv, Holds
    <3>4. PermittedFor(b, sig) /\ b.key = {sig.key}
      BY <2>2, <3>2 DEF PermittedFor
    <3>5. DeliveredAsPermitted'
      <4>1. asked'[s] = b
        BY <1>1, <3>2 DEF Inv, TypeOK
      <4>2. QED
        BY <1>1, <3>1, <3>2, <3>3, <3>4, <4>1 DEF DeliveredAsPermitted, PermittedFor
    <3>6. QED
      BY <1>1, <2>5, <3>1, <3>2, <3>5, OperationOver
  <2>6. QED
    BY <2>1, <2>3, <2>4, <2>5 DEF HandOver
<1>5. QED
  BY <1>3, <1>4

(***************************************************************************)
(* Every step keeps the invariant                                          *)
(***************************************************************************)
LEMMA LibraryStep == ASSUME Inv, Library PROVE Inv'
<1>1. CASE InitializeRefused
  <2>1. ret' \in RetType /\ ret'.sig = {}
    BY <1>1, ReturnsType DEF InitializeRefused, CK_RV
  <2>2. QED
    BY <1>1, <2>1, ReportOnly DEF InitializeRefused
<1>2. CASE FinalizeRefused
  <2>1. ret' \in RetType /\ ret'.sig = {}
    BY <1>2, ReturnsType DEF FinalizeRefused, CK_RV
  <2>2. QED
    BY <1>2, <2>1, ReportOnly DEF FinalizeRefused
<1>3. QED
  BY <1>1, <1>2, FailedLibraryCall, InitializeKeeps, FinalizeKeeps DEF Library

\* Session calls keep the invariant.
LEMMA SessionStep == ASSUME Inv, Session PROVE Inv'
<1>1. CASE OpenSessionRefused
  <2>1. ret' \in RetType /\ ret'.sig = {}
    BY <1>1, ReturnsType DEF OpenSessionRefused, CK_RV
  <2>2. QED
    BY <1>1, <2>1, ReportOnly DEF OpenSessionRefused
<1>2. ASSUME NEW h \in Handles, SessionRefused(h)
      PROVE  Inv'
  <2>1. ret' \in RetType /\ ret'.sig = {}
    BY <1>2, ReturnsType DEF SessionRefused, CK_RV
  <2>2. QED
    BY <1>2, <2>1, ReportOnly DEF SessionRefused
<1>3. ASSUME NEW h \in Handles, SessionQuery(h)
      PROVE  Inv'
  <2>1. ret' \in RetType /\ ret'.sig = {}
    BY <1>3, ReturnedType DEF SessionQuery, CK_RV, Handles
  <2>2. QED
    BY <1>3, <2>1, ReportOnly DEF SessionQuery
<1>4. QED
  BY <1>1, <1>2, <1>3, OpenSessionKeeps, CloseSessionKeeps, CloseAllSessionsKeeps DEF Session

\* Object searches keep the invariant.
LEMMA FindStep == ASSUME Inv, Find PROVE Inv'
<1>1. PICK h \in Handles :
        \/ \E tmpl \in Templates : C_FindObjectsInit(h, tmpl)
        \/ FindObjectsInitRefused(h)
        \/ \E max \in 0 .. MaxFind : C_FindObjects(h, max)
        \/ FindObjectsRefused(h)
        \/ C_FindObjectsFinal(h)
  BY DEF Find
<1>2. CASE FindObjectsInitRefused(h)
  <2>1. ret' \in RetType /\ ret'.sig = {}
    BY <1>2, ReturnsType DEF FindObjectsInitRefused, CK_RV
  <2>2. g_find' = g_find \/ g_find' = NoFind
    BY <1>2 DEF FindObjectsInitRefused
  <2>3. QED
    BY <1>2, <2>1, <2>2, ReportOnly, NoFindKeeps DEF FindObjectsInitRefused
<1>3. CASE FindObjectsRefused(h)
  <2>1. ret' \in RetType /\ ret'.sig = {}
    BY <1>3, ReturnsType DEF FindObjectsRefused, CK_RV
  <2>2. QED
    BY <1>3, <2>1, ReportOnly DEF FindObjectsRefused
<1>4. CASE C_FindObjectsFinal(h)
  <2>1. ret' \in RetType /\ ret'.sig = {}
    BY <1>4, ReturnedType DEF C_FindObjectsFinal, CK_RV, Handles
  <2>2. QED
    BY <1>4, <2>1, NoFindKeeps DEF C_FindObjectsFinal
<1>5. QED
  BY <1>1, <1>2, <1>3, <1>4, FindObjectsInitKeeps, FindObjectsKeeps

\* A refused signing call changes the return value alone.
LEMMA SignRefusals ==
  ASSUME Inv, NEW h \in Handles,
         \/ \E mech \in Mechs, o \in ObjHandles : SignInitRefused(h, mech, o)
         \/ SignUpdateRefused(h) \/ SignRefused(h)
  PROVE  Inv'
<1>1. \E rv \in CK_RV : ret' = Returns(rv)
  BY DEF SignInitRefused, SignUpdateRefused, SignRefused, CK_RV
<1>2. ret' \in RetType /\ ret'.sig = {}
  BY <1>1, ReturnsType
<1>3. UNCHANGED <<libVars, g_objects, g_sessions, g_next_handle, g_sign, g_find, asked>>
  BY DEF SignInitRefused, SignUpdateRefused, SignRefused, notSign
<1>4. QED
  BY <1>2, <1>3, ReportOnly

\* Signing calls keep the invariant.
LEMMA SignStep == ASSUME Inv, Sign PROVE Inv'
<1>1. PICK h \in Handles :
        \/ \E mech \in Mechs, par \in Params, o \in ObjHandles : C_SignInit(h, mech, par, o)
        \/ \E mech \in Mechs, o \in ObjHandles : SignInitRefused(h, mech, o)
        \/ \E p \in Parts : C_SignUpdate(h, p)
        \/ SignUpdateRefused(h)
        \/ \E p \in Parts, cap \in Caps \cup {NullBuf} : C_Sign(h, p, cap)
        \/ \E cap \in Caps \cup {NullBuf} : C_SignFinal(h, cap)
        \/ SignRefused(h)
  BY DEF Sign
<1>2. ASSUME NEW p \in Parts, NEW cap \in Caps \cup {NullBuf}, C_Sign(h, p, cap)
      PROVE  Inv'
  <2>1. PICK s \in find_session(h) :
         /\ g_sign[s].active
         /\ do_sign(h, s, Concat(<<p>>), cap) \/ do_sign_fails(h, s, Concat(<<p>>))
         /\ Presented(s, <<p>>, cap)
    BY <1>2 DEF C_Sign
  <2>2. <<p>> \in Seq(Parts) /\ g_initialized /\ UNCHANGED notSign
    BY <1>2 DEF C_Sign, InSession
  <2>3. QED
    BY <2>1, <2>2, DoSignKeeps
<1>3. ASSUME NEW cap \in Caps \cup {NullBuf}, C_SignFinal(h, cap)
      PROVE  Inv'
  <2>1. PICK s \in find_session(h) :
         /\ g_sign[s].active
         /\ \/ do_sign(h, s, Concat(g_sign[s].buf), cap)
            \/ do_sign_fails(h, s, Concat(g_sign[s].buf))
         /\ Presented(s, asked[s].fed, cap)
    BY <1>3 DEF C_SignFinal
  <2>2. g_sign[s].buf \in Seq(Parts) /\ asked[s].fed = g_sign[s].buf
    BY <2>1, FoundSession DEF Inv, TypeOK, SignState, OperationAsAsked
  <2>3. g_initialized /\ UNCHANGED notSign
    BY <1>3 DEF C_SignFinal, InSession
  <2>4. QED
    BY <2>1, <2>2, <2>3, DoSignKeeps
<1>4. QED
  BY <1>1, <1>2, <1>3, SignInitKeeps, SignUpdateKeeps, SignRefusals

\* Every step keeps the invariant.
LEMMA InvStep == Inv /\ [Next]_vars => Inv'
<1>1. SUFFICES ASSUME Inv, [Next]_vars PROVE Inv'
  OBVIOUS
<1>2. CASE UNCHANGED vars
  <2>1. ret' = ret /\ UNCHANGED <<libVars, g_objects, g_sessions, g_next_handle,
                                 g_sign, g_find, asked>>
    BY <1>2 DEF vars
  <2>2. TypeOK' /\ FindWithinTable' /\ FinalizeSafe'
    BY <1>1, <2>1 DEF Inv, TypeOK, FindWithinTable, FinalizeSafe, libVars
  <2>3. HandlesUnique' /\ NothingLeftBehind' /\ SignOnChosenKey'
    BY <1>1, <2>1 DEF Inv, HandlesUnique, NothingLeftBehind, SignOnChosenKey, Holds, libVars
  <2>4. OperationAsAsked' /\ SizeQueryBinding' /\ DeliveredAsPermitted'
    BY <1>1, <2>1 DEF Inv, OperationAsAsked, SizeQueryBinding, DeliveredAsPermitted
  <2>5. QED
    BY <2>2, <2>3, <2>4 DEF Inv
<1>3. QED
  BY <1>1, <1>2, LibraryStep, SessionStep, FindStep, SignStep DEF Next

\* The invariant holds when the module has just been loaded.
LEMMA InvInit == Init => Inv
<1>1. SUFFICES ASSUME Init PROVE Inv
  OBVIOUS
<1>2. ret \in RetType /\ ret.sig = {}
  BY <1>1, ReturnsType DEF Init, CK_RV
<1>3. TypeOK
  <2>1. /\ g_sessions \in [Slots -> [open : BOOLEAN, handle : Nat]]
        /\ g_sign \in [Slots -> SignState]
        /\ asked \in [Slots -> Asked]
        /\ g_find \in FindType
    BY <1>1, ClearedTypes DEF Init, FindType
  <2>2. /\ g_initialized \in BOOLEAN /\ shutdown_ptr \in BOOLEAN
        /\ connected \in BOOLEAN /\ crashed \in BOOLEAN
    BY <1>1 DEF Init
  <2>3. g_objects \in Seq(Keys) /\ g_next_handle \in Nat \ {0}
    BY <1>1 DEF Init
  <2>4. QED
    BY <1>2, <2>1, <2>2, <2>3 DEF TypeOK, RetType, FindType
<1>4. \A s \in Slots : ~g_sessions[s].open /\ g_sign[s] = sign_reset /\ ~g_sign[s].active
  BY <1>1 DEF Init, ClosedSession, sign_reset
<1>5. /\ HandlesUnique /\ NothingLeftBehind /\ SignOnChosenKey
      /\ OperationAsAsked /\ SizeQueryBinding
  BY <1>1, <1>4 DEF Init, HandlesUnique, NothingLeftBehind, SignOnChosenKey,
                    OperationAsAsked, SizeQueryBinding
<1>6. DeliveredAsPermitted /\ FinalizeSafe
  BY <1>1, <1>2 DEF Init, DeliveredAsPermitted, FinalizeSafe
<1>7. FindWithinTable
  <2>1. g_find = NoFind /\ NoFind.handles = << >> /\ NoFind.pos = 0
    BY <1>1 DEF Init, NoFind, Search
  <2>2. QED
    BY <2>1 DEF FindWithinTable
<1>8. QED
  BY <1>3, <1>5, <1>6, <1>7 DEF Inv

(***************************************************************************)
(* Session handles are never reused                                        *)
(***************************************************************************)
\* An open session of the next state was open before, or is the new one.
LEMMA SessionsStep ==
  ASSUME Inv, [Next]_vars, NEW s \in Slots, g_sessions'[s].open
  PROVE  \/ g_sessions[s].open /\ g_sessions'[s].handle = g_sessions[s].handle
         \/ g_sessions'[s].handle = g_next_handle
<1>1. CASE g_sessions' = g_sessions
  BY <1>1
<1>2. CASE \E table \in Enumerations : C_Initialize(table)
  BY <1>2 DEF C_Initialize, ClosedSession
<1>3. CASE C_Finalize \/ C_CloseAllSessions
  BY <1>3 DEF C_Finalize, C_CloseAllSessions, Closed
<1>4. CASE C_OpenSession
  <2>1. PICK t \in FreeSlot :
          g_sessions' = [g_sessions EXCEPT ![t] = [open |-> TRUE, handle |-> g_next_handle]]
    BY <1>4 DEF C_OpenSession
  <2>2. QED
    BY <2>1, FreeSlotIsClosed DEF Inv, TypeOK
<1>5. CASE \E h \in Handles : C_CloseSession(h)
  <2>1. PICK h \in Handles : C_CloseSession(h)
    BY <1>5
  <2>2. PICK t \in find_session(h) : g_sessions' = [g_sessions EXCEPT ![t] = Closed(@)]
    BY <2>1 DEF C_CloseSession
  <2>3. QED
    BY <2>2, FoundSession DEF Inv, TypeOK, Closed
<1>6. CASE Library
  <2>1. CASE \/ InitializeRefused \/ InitializeLoadFails \/ InitializeBridgeFails
             \/ InitializeNoMemory \/ FinalizeCrashes \/ FinalizeRefused
    BY <1>1, <2>1 DEF InitializeRefused, InitializeLoadFails, InitializeBridgeFails,
                      InitializeNoMemory, FinalizeCrashes, FinalizeRefused
  <2>2. QED
    BY <1>2, <1>3, <1>6, <2>1 DEF Library
<1>7. CASE Session
  <2>1. CASE OpenSessionRefused \/ \E h \in Handles : SessionRefused(h) \/ SessionQuery(h)
    BY <1>1, <2>1 DEF OpenSessionRefused, SessionRefused, SessionQuery
  <2>2. QED
    BY <1>3, <1>4, <1>5, <1>7, <2>1 DEF Session
<1>8. CASE Find
  BY <1>1, <1>8 DEF Find, C_FindObjectsInit, FindObjectsInitRefused, C_FindObjects,
                    FindObjectsRefused, C_FindObjectsFinal
<1>9. CASE Sign
  <2>1. UNCHANGED notSign
    BY <1>9 DEF Sign, C_SignInit, SignInitRefused, C_SignUpdate, SignUpdateRefused,
                C_Sign, C_SignFinal, SignRefused
  <2>2. QED
    BY <1>1, <2>1 DEF notSign
<1>10. CASE UNCHANGED vars
  BY <1>1, <1>10 DEF vars
<1>11. QED
  BY <1>6, <1>7, <1>8, <1>9, <1>10 DEF Next

\* No step sets the counter back.
LEMMA CounterStep ==
  ASSUME Inv, [Next]_vars
  PROVE  g_next_handle' >= g_next_handle
<1>1. g_next_handle \in Nat
  BY DEF Inv, TypeOK
<1>2. CASE C_OpenSession
  BY <1>1, <1>2 DEF C_OpenSession
<1>3. CASE g_next_handle' = g_next_handle
  BY <1>1, <1>3
<1>4. CASE Library
  BY <1>3, <1>4 DEF Library, InitializeRefused, InitializeLoadFails, InitializeBridgeFails,
                    InitializeNoMemory, C_Initialize, C_Finalize, FinalizeCrashes, FinalizeRefused
<1>5. CASE Session
  BY <1>2, <1>3, <1>5 DEF Session, OpenSessionRefused, C_CloseAllSessions, SessionRefused,
                          SessionQuery, C_CloseSession
<1>6. CASE Find
  BY <1>3, <1>6 DEF Find, C_FindObjectsInit, FindObjectsInitRefused, C_FindObjects,
                    FindObjectsRefused, C_FindObjectsFinal
<1>7. CASE Sign
  <2>1. UNCHANGED notSign
    BY <1>7 DEF Sign, C_SignInit, SignInitRefused, C_SignUpdate, SignUpdateRefused,
                C_Sign, C_SignFinal, SignRefused
  <2>2. QED
    BY <1>3, <2>1 DEF notSign
<1>8. CASE UNCHANGED vars
  BY <1>3, <1>8 DEF vars
<1>9. QED
  BY <1>4, <1>5, <1>6, <1>7, <1>8 DEF Next

\* No step makes a closed handle valid again.
LEMMA ClosedStep ==
  ASSUME Inv, [Next]_vars, NEW h \in 1 .. g_next_handle - 1, find_session(h) = {}
  PROVE  find_session(h)' = {}
<1>1. g_next_handle \in Nat /\ h # g_next_handle
  BY DEF Inv, TypeOK
<1>2. ASSUME NEW s \in Slots
      PROVE  ~Holds(s, h)
  <2>1. ASSUME Holds(s, h)
        PROVE  FALSE
    <3>1. \A t \in Slots : Holds(t, h) => t = s
      BY <2>1 DEF Inv, HandlesUnique, Holds
    <3>2. \A t \in 1 .. s-1 : ~Holds(t, h)
      BY <3>1, Ksp11Assumption DEF Slots
    <3>3. QED
      BY <2>1, <3>2 DEF find_session
  <2>2. QED
    BY <2>1
<1>3. ASSUME NEW s \in find_session(h)'
      PROVE  FALSE
  <2>1. s \in Slots /\ g_sessions'[s].open /\ g_sessions'[s].handle = h
    BY <1>3 DEF find_session, Holds
  <2>2. QED
    BY <1>1, <1>2, <2>1, SessionsStep DEF Holds
<1>4. QED
  BY <1>3

(***************************************************************************)
(* Theorems                                                                *)
(***************************************************************************)
\* The conjunction of the invariants holds in every reachable state.
THEOREM Invariance == Spec => []Inv
BY InvInit, InvStep, PTL DEF Spec

\* Every variable of the module keeps its type.
THEOREM Typing == Spec => []TypeOK
<1>1. Inv => TypeOK
  BY DEF Inv
<1>2. QED
  BY <1>1, Invariance, PTL

\* Open sessions have distinct handles, all of them issued.
THEOREM UniqueHandles == Spec => []HandlesUnique
<1>1. Inv => HandlesUnique
  BY DEF Inv
<1>2. QED
  BY <1>1, Invariance, PTL

\* Closed slots hold no signing state, a module that is not initialised
\* holds nothing.
THEOREM CleanedUp == Spec => []NothingLeftBehind
<1>1. Inv => NothingLeftBehind
  BY DEF Inv
<1>2. QED
  BY <1>1, Invariance, PTL

\* do_sign always indexes the object table at the key that was chosen.
THEOREM ChosenKey == Spec => []SignOnChosenKey
<1>1. Inv => SignOnChosenKey
  BY DEF Inv
<1>2. QED
  BY <1>1, Invariance, PTL

\* A signature handed out is what its operation asked for.
THEOREM Delivery == Spec => []DeliveredAsPermitted
<1>1. Inv => DeliveredAsPermitted
  BY DEF Inv
<1>2. QED
  BY <1>1, Invariance, PTL

\* The answer to a size query binds the follow-up call.
THEOREM BindingSize == Spec => []SizeQueryBinding
<1>1. Inv => SizeQueryBinding
  BY DEF Inv
<1>2. QED
  BY <1>1, Invariance, PTL

\* The state of an operation is what its calls made it (C_SignInit,
\* C_SignUpdate, the kept signature).
THEOREM OperationState == Spec => []OperationAsAsked
<1>1. Inv => OperationAsAsked
  BY DEF Inv
<1>2. QED
  BY <1>1, Invariance, PTL

\* A search reports distinct objects of the table it was begun on and reads
\* no further than its list (C_FindObjects).
THEOREM SearchInTable == Spec => []FindWithinTable
<1>1. Inv => FindWithinTable
  BY DEF Inv
<1>2. QED
  BY <1>1, Invariance, PTL

\* An initialised module has a client and can be finalized, whatever calls of
\* C_Initialize failed before.
THEOREM SafeFinalize == Spec => []FinalizeSafe
<1>1. Inv => FinalizeSafe
  BY DEF Inv
<1>2. QED
  BY <1>1, Invariance, PTL

\* A handle whose session ended never becomes valid again.
THEOREM ClosedForever == Spec => ClosedHandleStaysClosed
<1>1. Inv /\ [Next]_vars =>
        [/\ g_next_handle' >= g_next_handle
         /\ \A h \in 1 .. g_next_handle - 1 :
              find_session(h) = {} => find_session(h)' = {}]_vars
  BY ClosedStep, CounterStep
<1>2. QED
  BY <1>1, Invariance, PTL DEF Spec, ClosedHandleStaysClosed
=============================================================================
