-------------------------------- MODULE Ksp11 --------------------------------
(***************************************************************************)
(* The Linux PKCS#11 module (ksp11/ksp11.c): initialisation, sessions,     *)
(* object search and signing, for an application that calls it in any      *)
(* order with any arguments.                                               *)
(*                                                                         *)
(* A C_* call is one action.  The module has no locks, so this is the      *)
(* behaviour of an application that makes one call at a time.  What lies   *)
(* beyond the bridge (the cert-server, memory, the dynamic linker) answers *)
(* nondeterministically: an RPC may fail at any time.                      *)
(***************************************************************************)
EXTENDS SigningInput, FiniteSets

CONSTANTS
  Keys,          \* server keys; a key stands for its thumbprint
  CertKind,      \* [Keys -> KeyKind]: what the certificate of a key holds
  Subject,       \* [Keys -> STRING]: CKA_LABEL, not necessarily unique
  SigLen,        \* [Keys -> Nat]: length of a signature as returned (EC: r||s)
  Enumerations,  \* the object tables C_Initialize may build
  MaxSessions,   \* MAX_SESSIONS (16 in the code)
  Mechs,         \* mechanisms the application tries
  Params,        \* PSS parameters it tries
  Parts,         \* inputs it signs, and the parts it feeds C_SignUpdate
  Templates,     \* search templates it uses
  Caps,          \* signature buffer sizes it offers
  ObjHandles,    \* object handles it tries
  MaxFind,       \* bound: largest ulMaxObjectCount it passes
  MaxHandle,     \* bound: session handles that are ever issued
  MaxParts       \* bound: C_SignUpdate calls per operation

ASSUME Ksp11Assumption ==
  /\ CertKind \in [Keys -> KeyKind]
  /\ SigLen \in [Keys -> Nat]
  /\ Enumerations \subseteq Seq(Keys)
  /\ MaxSessions \in Nat
  /\ Mechs \subseteq MechType \cup {"unknown"}
  /\ Params \subseteq PssParam
  /\ Caps \subseteq Nat
  /\ ObjHandles \subseteq Nat
  /\ MaxFind \in Nat
  /\ MaxHandle \in Nat
  /\ MaxParts \in Nat

VARIABLES
  g_initialized,
  shutdown_ptr,  \* is the function pointer bridge_shutdown non-NULL?
  connected,     \* does the Go side hold a client?
  crashed,       \* the process called through a NULL pointer
  g_objects,     \* sequence of keys; a handle is a position in it
  g_sessions,    \* [Slots -> [open, handle]]
  g_next_handle,
  g_sign,        \* [Slots -> the signing operation of the slot]
  g_find,        \* the one search, shared by every session
  ret,           \* what the last call returned
  asked          \* history: [Slots -> what the application asked for]

libVars == <<g_initialized, shutdown_ptr, connected, crashed>>
vars == <<libVars, g_objects, g_sessions, g_next_handle, g_sign, g_find, ret, asked>>

Slots == 1 .. MaxSessions
Handles == 1 .. MaxHandle

(***************************************************************************)
(* Values                                                                  *)
(***************************************************************************)
\* sign_reset: free the buffers, memset the slot.
sign_reset == [active |-> FALSE, obj_index |-> 0, digest_mech |-> 0,
               md |-> 0, pss |-> 0, hash_alg |-> 0, buf |-> << >>, cached |-> {}]

ClosedSession == [open |-> FALSE, handle |-> 0]
Closed(sess) == [open |-> FALSE, handle |-> sess.handle]

\* g_find_active, g_find_handles (of length g_find_n), g_find_pos, and
\* whether the search is older than the object table.
Search(active, handles, pos, stale) ==
  [active |-> active, handles |-> handles, pos |-> pos, stale |-> stale]
NoFind == Search(FALSE, << >>, 0, FALSE)

\* The return codes of these calls ("none": no call yet).
CK_RV == {"none", "CKR_OK", "CKR_HOST_MEMORY", "CKR_SLOT_ID_INVALID", "CKR_FUNCTION_FAILED",
          "CKR_ARGUMENTS_BAD", "CKR_DATA_INVALID", "CKR_DEVICE_ERROR",
          "CKR_KEY_HANDLE_INVALID", "CKR_MECHANISM_INVALID", "CKR_OPERATION_ACTIVE",
          "CKR_OPERATION_NOT_INITIALIZED", "CKR_SESSION_COUNT", "CKR_SESSION_HANDLE_INVALID",
          "CKR_SESSION_READ_ONLY", "CKR_BUFFER_TOO_SMALL", "CKR_CRYPTOKI_NOT_INITIALIZED",
          "CKR_CRYPTOKI_ALREADY_INITIALIZED"}

\* Return value, session, signature handed over (at most one), size reported.
Returned(rv, h, sig, size) == [rv |-> rv, sess |-> h, sig |-> sig, size |-> size]
Returns(rv) == Returned(rv, 0, {}, 0)

\* History of an operation: what C_SignInit was asked for, the parts fed
\* since, the input of the first signing call and the size it was told.
History(sess, key, mech, par, fed, input, told) ==
  [sess |-> sess, key |-> key, mech |-> mech, par |-> par,
   fed |-> fed, input |-> input, told |-> told]

NothingAsked == History(0, {}, "none", "NoParams", << >>, {}, {})

ktype(o) == parse_cert_pubkey(CertKind[o])

\* An input made of several parts: the lengths add up, the header is the first part's.
SumLen[ps \in Seq(Parts)] ==
  IF ps = << >> THEN 0 ELSE Head(ps).len + SumLen[Tail(ps)]

Concat(ps) == [len  |-> SumLen[ps],
               lead |-> IF ps = << >> THEN NoLead ELSE Head(ps).lead,
               msg  |-> ps]

(***************************************************************************)
(* Lookups                                                                 *)
(***************************************************************************)
Holds(s, h) == g_sessions[s].open /\ g_sessions[s].handle = h

\* The first slot that holds the handle; the empty set is NULL.
find_session(h) == {s \in Slots : Holds(s, h) /\ \A t \in 1 .. s-1 : ~Holds(t, h)}

FreeSlot == {s \in Slots : /\ ~g_sessions[s].open
                           /\ \A t \in 1 .. s-1 : g_sessions[t].open}

object_by_handle(h) == {i \in DOMAIN g_objects : i = h}

AttrMatches(o, a) ==
  CASE a.type = "CKA_CLASS"    -> a.value = "CKO_PRIVATE_KEY"
    [] a.type = "CKA_KEY_TYPE" -> a.value = ktype(o)
    [] a.type = "CKA_LABEL"    -> a.value = Subject[o]
    [] a.type = "CKA_ID"       -> a.value = o
    [] OTHER                   -> FALSE

object_matches(o, tmpl) == \A a \in tmpl : AttrMatches(o, a)

\* The elements of a set of numbers as an ascending sequence.
InOrder(S) == {q \in [1 .. Cardinality(S) -> S] :
                 \A i, j \in 1 .. Cardinality(S) : i < j => q[i] < q[j]}

(***************************************************************************)
(* Initial state: the module has just been loaded.                         *)
(***************************************************************************)
Init ==
  /\ g_initialized = FALSE
  /\ shutdown_ptr = FALSE
  /\ connected = FALSE
  /\ crashed = FALSE
  /\ g_objects = << >>
  /\ g_sessions = [s \in Slots |-> ClosedSession]
  /\ g_next_handle = 1
  /\ g_sign = [s \in Slots |-> sign_reset]
  /\ g_find = NoFind
  /\ ret = Returns("none")
  /\ asked = [s \in Slots |-> NothingAsked]

(***************************************************************************)
(* C_Initialize and C_Finalize                                             *)
(***************************************************************************)
Running == ~crashed

\* Already initialised, or pReserved set: nothing happens.
InitializeRefused ==
  /\ Running
  /\ \E rv \in {"CKR_CRYPTOKI_ALREADY_INITIALIZED", "CKR_ARGUMENTS_BAD"} :
       /\ (rv = "CKR_CRYPTOKI_ALREADY_INITIALIZED") <=> g_initialized
       /\ ret' = Returns(rv)
  /\ UNCHANGED <<libVars, g_objects, g_sessions, g_next_handle, g_sign, g_find, asked>>

\* Mutant: C_Initialize does not test g_initialized first.
InitializeLoadFails_any_time ==
  /\ Running
  /\ \/ UNCHANGED shutdown_ptr
     \/ shutdown_ptr' \in BOOLEAN
  /\ ret' = Returns("CKR_DEVICE_ERROR")
  /\ UNCHANGED <<g_initialized, connected, crashed, g_objects, g_sessions,
                 g_next_handle, g_sign, g_find, asked>>

\* bridge_load: dlopen fails (pointers keep their values), or a dlsym does
\* (before, at or after the pointer of tpmcert_shutdown).
InitializeLoadFails ==
  /\ Running /\ ~g_initialized
  /\ \/ UNCHANGED shutdown_ptr
     \/ shutdown_ptr' \in BOOLEAN
  /\ ret' = Returns("CKR_DEVICE_ERROR")
  /\ UNCHANGED <<g_initialized, connected, crashed, g_objects, g_sessions,
                 g_next_handle, g_sign, g_find, asked>>

\* tpmcert_init fails: no configuration (an earlier client, if any, stays),
\* or a client that cannot be built or does not answer (none is left).
InitializeBridgeFails ==
  /\ Running /\ ~g_initialized
  /\ shutdown_ptr' = TRUE
  /\ connected' \in {connected, FALSE}
  /\ ret' = Returns("CKR_DEVICE_ERROR")
  /\ UNCHANGED <<g_initialized, crashed, g_objects, g_sessions, g_next_handle,
                 g_sign, g_find, asked>>

\* The bridge is up and calloc of the object table fails.
InitializeNoMemory ==
  /\ Running /\ ~g_initialized
  /\ \E table \in Enumerations : table # << >>
  /\ shutdown_ptr' = TRUE
  /\ connected' = FALSE
  /\ ret' = Returns("CKR_HOST_MEMORY")
  /\ UNCHANGED <<g_initialized, crashed, g_objects, g_sessions, g_next_handle,
                 g_sign, g_find, asked>>

\* The object table is appended to what is there: the loop starts at
\* g_object_count, which C_Initialize itself does not reset.
C_Initialize(table) ==
  /\ Running /\ ~g_initialized
  /\ shutdown_ptr' = TRUE
  /\ connected' = TRUE
  /\ g_objects' = g_objects \o table
  /\ g_sessions' = [s \in Slots |-> ClosedSession]
  /\ g_sign' = [s \in Slots |-> sign_reset]
  /\ g_initialized' = TRUE
  /\ ret' = Returns("CKR_OK")
  /\ UNCHANGED <<crashed, g_next_handle, g_find, asked>>

\* No test of g_initialized; the search keeps its state.
C_Finalize ==
  /\ Running /\ shutdown_ptr
  /\ g_sign' = [s \in Slots |-> sign_reset]
  /\ g_sessions' = [s \in Slots |-> Closed(g_sessions[s])]
  /\ g_objects' = << >>
  /\ connected' = FALSE
  /\ g_initialized' = FALSE
  /\ g_find' = Search(g_find.active, g_find.handles, g_find.pos, g_find.active)
  /\ ret' = Returns("CKR_OK")
  /\ UNCHANGED <<shutdown_ptr, crashed, g_next_handle, asked>>

\* The sessions are closed and the objects freed, then the call through
\* the NULL pointer ends the process.
FinalizeCrashes ==
  /\ Running /\ ~shutdown_ptr
  /\ crashed' = TRUE
  /\ UNCHANGED <<g_initialized, shutdown_ptr, connected, g_objects, g_sessions,
                 g_next_handle, g_sign, g_find, ret, asked>>

FinalizeRefused ==                       \* pReserved is set
  /\ Running
  /\ ret' = Returns("CKR_ARGUMENTS_BAD")
  /\ UNCHANGED <<libVars, g_objects, g_sessions, g_next_handle, g_sign, g_find, asked>>

(***************************************************************************)
(* Sessions                                                                *)
(***************************************************************************)
\* Mutant: the counter is not advanced.
C_OpenSession_same_handle ==
  /\ Running /\ g_initialized
  /\ \E s \in FreeSlot :
       g_sessions' = [g_sessions EXCEPT ![s] = [open |-> TRUE, handle |-> g_next_handle]]
  /\ ret' = Returned("CKR_OK", g_next_handle, {}, 0)
  /\ UNCHANGED <<libVars, g_objects, g_next_handle, g_sign, g_find, asked>>

\* Mutant: the handle is the number of the slot.
C_OpenSession_slot_as_handle ==
  /\ Running /\ g_initialized
  /\ g_next_handle <= MaxHandle
  /\ \E s \in FreeSlot :
       /\ g_sessions' = [g_sessions EXCEPT ![s] = [open |-> TRUE, handle |-> s]]
       /\ ret' = Returned("CKR_OK", s, {}, 0)
  /\ g_next_handle' = g_next_handle + 1
  /\ UNCHANGED <<libVars, g_objects, g_sign, g_find, asked>>

C_OpenSession ==
  /\ Running /\ g_initialized
  /\ g_next_handle <= MaxHandle
  /\ \E s \in FreeSlot :
       g_sessions' = [g_sessions EXCEPT ![s] = [open |-> TRUE, handle |-> g_next_handle]]
  /\ g_next_handle' = g_next_handle + 1
  /\ ret' = Returned("CKR_OK", g_next_handle, {}, 0)
  /\ UNCHANGED <<libVars, g_objects, g_sign, g_find, asked>>

\* A wrong slot, a NULL result pointer, an uninitialised module, a
\* read-write session, or no free slot.
OpenSessionRefused ==
  /\ Running
  /\ \E rv \in {"CKR_SLOT_ID_INVALID", "CKR_ARGUMENTS_BAD", "CKR_CRYPTOKI_NOT_INITIALIZED",
                 "CKR_SESSION_READ_ONLY", "CKR_SESSION_COUNT"} :
       /\ rv = "CKR_CRYPTOKI_NOT_INITIALIZED" => ~g_initialized
       /\ rv \in {"CKR_SESSION_READ_ONLY", "CKR_SESSION_COUNT"} => g_initialized
       /\ rv = "CKR_SESSION_COUNT" => FreeSlot = {}
       /\ ret' = Returns(rv)
  /\ UNCHANGED <<libVars, g_objects, g_sessions, g_next_handle, g_sign, g_find, asked>>

\* The prologue of every session function.
SessionRefused(h) ==
  /\ Running
  /\ ~g_initialized \/ find_session(h) = {}
  /\ ret' = Returns(IF g_initialized THEN "CKR_SESSION_HANDLE_INVALID"
                                     ELSE "CKR_CRYPTOKI_NOT_INITIALIZED")
  /\ UNCHANGED <<libVars, g_objects, g_sessions, g_next_handle, g_sign, g_find, asked>>

\* C_GetSessionInfo, C_Login, C_Logout and C_GenerateRandom change nothing.
SessionQuery(h) ==
  /\ Running /\ g_initialized
  /\ find_session(h) # {}
  /\ ret' = Returned("CKR_OK", h, {}, 0)
  /\ UNCHANGED <<libVars, g_objects, g_sessions, g_next_handle, g_sign, g_find, asked>>

\* Mutant: the operation of the session is not reset.
C_CloseSession_keeps_sign(h) ==
  /\ Running /\ g_initialized
  /\ \E s \in find_session(h) : g_sessions' = [g_sessions EXCEPT ![s] = Closed(@)]
  /\ ret' = Returns("CKR_OK")
  /\ UNCHANGED <<libVars, g_objects, g_next_handle, g_sign, g_find, asked>>

C_CloseSession(h) ==
  /\ Running /\ g_initialized
  /\ \E s \in find_session(h) :
       /\ g_sign' = [g_sign EXCEPT ![s] = sign_reset]
       /\ g_sessions' = [g_sessions EXCEPT ![s] = Closed(@)]
  /\ ret' = Returns("CKR_OK")
  /\ UNCHANGED <<libVars, g_objects, g_next_handle, g_find, asked>>

\* Mutant: the operations of the sessions are not reset.
C_CloseAllSessions_keeps_sign ==
  /\ Running /\ g_initialized
  /\ g_sessions' = [s \in Slots |-> Closed(g_sessions[s])]
  /\ ret' = Returns("CKR_OK")
  /\ UNCHANGED <<libVars, g_objects, g_next_handle, g_sign, g_find, asked>>

C_CloseAllSessions ==
  /\ Running /\ g_initialized
  /\ g_sign' = [s \in Slots |-> IF g_sessions[s].open THEN sign_reset ELSE g_sign[s]]
  /\ g_sessions' = [s \in Slots |-> Closed(g_sessions[s])]
  /\ ret' = Returns("CKR_OK")
  /\ UNCHANGED <<libVars, g_objects, g_next_handle, g_find, asked>>

(***************************************************************************)
(* Search: one state for all sessions                                      *)
(***************************************************************************)
InSession(h) == Running /\ g_initialized /\ find_session(h) # {}

C_FindObjectsInit(h, tmpl) ==
  /\ InSession(h)
  /\ ~g_find.active
  /\ \E q \in InOrder({i \in DOMAIN g_objects : object_matches(g_objects[i], tmpl)}) :
       g_find' = Search(TRUE, q, 0, FALSE)
  /\ ret' = Returned("CKR_OK", h, {}, 0)
  /\ UNCHANGED <<libVars, g_objects, g_sessions, g_next_handle, g_sign, asked>>

\* A search is active, or malloc of the handle list fails.
FindObjectsInitRefused(h) ==
  /\ InSession(h)
  /\ \/ g_find.active /\ ret' = Returns("CKR_OPERATION_ACTIVE") /\ UNCHANGED g_find
     \/ /\ ~g_find.active /\ g_objects # << >>
        /\ ret' = Returns("CKR_HOST_MEMORY")
        /\ g_find' = NoFind
  /\ UNCHANGED <<libVars, g_objects, g_sessions, g_next_handle, g_sign, asked>>

\* How many handles the loop of C_FindObjects copies: at most `max', and
\* never past the end of the list.
Taken_past_end(max) == max                                           \* mutant

Taken_last_index(max) ==               \* mutant: the index of the last, not the count
  LET left == Len(g_find.handles) - g_find.pos IN (IF max < left THEN max ELSE left) - 1

Taken(max) ==
  LET left == Len(g_find.handles) - g_find.pos IN IF max < left THEN max ELSE left

\* From where the last call, of any session, stopped.
C_FindObjects(h, max) ==
  /\ InSession(h)
  /\ g_find.active
  /\ g_find' = Search(TRUE, g_find.handles, g_find.pos + Taken(max), g_find.stale)
  /\ ret' = Returned("CKR_OK", h, {}, Taken(max))
  /\ UNCHANGED <<libVars, g_objects, g_sessions, g_next_handle, g_sign, asked>>

FindObjectsRefused(h) ==
  /\ InSession(h)
  /\ \/ ~g_find.active /\ ret' = Returns("CKR_OPERATION_NOT_INITIALIZED")
     \/ g_find.active /\ ret' = Returns("CKR_ARGUMENTS_BAD")
  /\ UNCHANGED <<libVars, g_objects, g_sessions, g_next_handle, g_sign, g_find, asked>>

\* Any session ends the search, its own or another's; none need be active.
C_FindObjectsFinal(h) ==
  /\ InSession(h)
  /\ g_find' = NoFind
  /\ ret' = Returned("CKR_OK", h, {}, 0)
  /\ UNCHANGED <<libVars, g_objects, g_sessions, g_next_handle, g_sign, asked>>

(***************************************************************************)
(* Signing                                                                 *)
(***************************************************************************)
notSign == <<libVars, g_objects, g_sessions, g_next_handle, g_find>>

C_SignInit(h, mech, par, o) ==
  /\ InSession(h)
  /\ \E s \in find_session(h), i \in object_by_handle(o) :
       /\ ~g_sign[s].active
       /\ mech \in MechType
       /\ mech_ok_for_type(mech, ktype(g_objects[i]))
       /\ g_sign' = [g_sign EXCEPT ![s] =
            [active      |-> TRUE,
             obj_index   |-> i,
             digest_mech |-> ksp_mechs[mech].digest_mech,
             md          |-> ksp_mechs[mech].md,
             pss         |-> ksp_mechs[mech].pss,
             hash_alg    |-> InitHashAlg(mech, par),
             buf         |-> << >>,
             cached      |-> {}]]
       /\ asked' = [asked EXCEPT ![s] =
            History(h, {g_objects[i]}, mech, par, << >>, {}, {})]
  /\ ret' = Returned("CKR_OK", h, {}, 0)
  /\ UNCHANGED notSign

SignInitRefused(h, mech, o) ==
  /\ InSession(h)
  /\ \E s \in find_session(h) :
       \/ object_by_handle(o) = {} /\ ret' = Returns("CKR_KEY_HANDLE_INVALID")
       \/ object_by_handle(o) # {} /\ ret' = Returns("CKR_ARGUMENTS_BAD")
       \/ /\ object_by_handle(o) # {} /\ g_sign[s].active
          /\ ret' = Returns("CKR_OPERATION_ACTIVE")
       \/ \E i \in object_by_handle(o) :
            /\ ~g_sign[s].active
            /\ ~(mech \in MechType /\ mech_ok_for_type(mech, ktype(g_objects[i])))
            /\ ret' = Returns("CKR_MECHANISM_INVALID")
  /\ UNCHANGED <<notSign, g_sign, asked>>

Fed(a, p) == History(a.sess, a.key, a.mech, a.par, Append(a.fed, p), a.input, a.told)

\* Mutant: the part is copied to the start of the buffer.
C_SignUpdate_overwrites(h, p) ==
  /\ InSession(h)
  /\ \E s \in find_session(h) :
       /\ g_sign[s].active
       /\ Len(asked[s].fed) < MaxParts
       /\ g_sign' = [g_sign EXCEPT ![s] = [g_sign[s] EXCEPT !.buf = <<p>>]]
       /\ asked' = [asked EXCEPT ![s] = Fed(asked[s], p)]
  /\ ret' = Returned("CKR_OK", h, {}, 0)
  /\ UNCHANGED notSign

C_SignUpdate(h, p) ==
  /\ InSession(h)
  /\ \E s \in find_session(h) :
       /\ g_sign[s].active
       /\ Len(g_sign[s].buf) < MaxParts
       /\ g_sign' = [g_sign EXCEPT ![s] = [g_sign[s] EXCEPT !.buf = Append(g_sign[s].buf, p)]]
       /\ asked' = [asked EXCEPT ![s] = Fed(asked[s], p)]
  /\ ret' = Returned("CKR_OK", h, {}, 0)
  /\ UNCHANGED notSign

\* No operation, or realloc fails: the operation and its buffer stay.
SignUpdateRefused(h) ==
  /\ InSession(h)
  /\ \E s \in find_session(h) :
       ret' = Returns(IF g_sign[s].active THEN "CKR_HOST_MEMORY"
                                          ELSE "CKR_OPERATION_NOT_INITIALIZED")
  /\ UNCHANGED <<notSign, g_sign, asked>>

NullBuf == -1                            \* pSignature is NULL: a size query

\* The digest do_sign takes from the input, and what the server signs.
DigestFor(st, in) ==
  BuildDigest(st.digest_mech, st.md, st.pss, st.hash_alg, ktype(g_objects[st.obj_index]), in)

\* Mutant: the padding is not passed on.
ServerSigns_pkcs1(st, in) ==
  LET key == g_objects[st.obj_index]
      x   == DigestFor(st, in)
  IN  IF x.ok THEN SignHash(key, CertKind[key], Request(x, 0)) ELSE {}

ServerSigns(st, in) ==
  LET key == g_objects[st.obj_index]
      x   == DigestFor(st, in)
  IN  IF x.ok THEN SignHash(key, CertKind[key], Request(x, st.pss)) ELSE {}

\* Mutant: a buffer that is too small frees the signature but not the operation.
HandOver_stays_active(h, s, sig, cap) ==
  LET len == SigLen[sig.key] IN
  \/ /\ cap = NullBuf
     /\ g_sign' = [g_sign EXCEPT ![s] = [g_sign[s] EXCEPT !.cached = {sig}]]
     /\ ret' = Returned("CKR_OK", h, {}, len)
  \/ /\ cap # NullBuf /\ cap < len
     /\ g_sign' = [g_sign EXCEPT ![s] = [g_sign[s] EXCEPT !.cached = {}]]
     /\ ret' = Returned("CKR_BUFFER_TOO_SMALL", h, {}, len)
  \/ /\ cap # NullBuf /\ cap >= len
     /\ g_sign' = [g_sign EXCEPT ![s] = sign_reset]
     /\ ret' = Returned("CKR_OK", h, {sig}, len)

\* A signature is at hand: keep it for the next call, drop it, or copy it out.
HandOver(h, s, sig, cap) ==
  LET len == SigLen[sig.key] IN
  \/ /\ cap = NullBuf
     /\ g_sign' = [g_sign EXCEPT ![s] = [g_sign[s] EXCEPT !.cached = {sig}]]
     /\ ret' = Returned("CKR_OK", h, {}, len)
  \/ /\ cap # NullBuf /\ cap < len
     /\ g_sign' = [g_sign EXCEPT ![s] = sign_reset]
     /\ ret' = Returned("CKR_BUFFER_TOO_SMALL", h, {}, len)
  \/ /\ cap # NullBuf /\ cap >= len
     /\ g_sign' = [g_sign EXCEPT ![s] = sign_reset]
     /\ ret' = Returned("CKR_OK", h, {sig}, len)

\* A cached signature is used whatever the data; otherwise the server is
\* asked (twice: for the size, then for the bytes).
do_sign(h, s, in, cap) ==
  \E sig \in IF g_sign[s].cached # {} THEN g_sign[s].cached ELSE ServerSigns(g_sign[s], in) :
     HandOver(h, s, sig, cap)

\* No digest, no memory, or an RPC that fails: the operation is over.
do_sign_fails(h, s, in) ==
  /\ g_sign[s].cached = {}
  /\ g_sign' = [g_sign EXCEPT ![s] = sign_reset]
  /\ \E rv \in IF DigestFor(g_sign[s], in).ok
               THEN {"CKR_FUNCTION_FAILED", "CKR_HOST_MEMORY"} ELSE {"CKR_DATA_INVALID"} :
       ret' = Returned(rv, h, {}, 0)

\* History: the parts of the operation's first call, and the size it was told.
Heard(a, ps, cap, r) ==
  History(a.sess, a.key, a.mech, a.par, a.fed,
          IF a.input = {} THEN {ps} ELSE a.input,
          IF cap = NullBuf /\ r.rv = "CKR_OK" THEN {r.size} ELSE a.told)

Presented(s, ps, cap) == asked' = [asked EXCEPT ![s] = Heard(asked[s], ps, cap, ret')]

C_Sign(h, p, cap) ==
  /\ InSession(h)
  /\ \E s \in find_session(h) :
       /\ g_sign[s].active
       /\ do_sign(h, s, Concat(<<p>>), cap) \/ do_sign_fails(h, s, Concat(<<p>>))
       /\ Presented(s, <<p>>, cap)
  /\ UNCHANGED notSign

C_SignFinal(h, cap) ==
  /\ InSession(h)
  /\ \E s \in find_session(h) :
       /\ g_sign[s].active
       /\ \/ do_sign(h, s, Concat(g_sign[s].buf), cap)
          \/ do_sign_fails(h, s, Concat(g_sign[s].buf))
       /\ Presented(s, asked[s].fed, cap)
  /\ UNCHANGED notSign

\* C_Sign and C_SignFinal without an operation, or without a length pointer.
SignRefused(h) ==
  /\ InSession(h)
  /\ \E s \in find_session(h) :
       ret' = Returns(IF g_sign[s].active THEN "CKR_ARGUMENTS_BAD"
                                          ELSE "CKR_OPERATION_NOT_INITIALIZED")
  /\ UNCHANGED <<notSign, g_sign, asked>>

-----------------------------------------------------------------------------
Library ==
  \/ InitializeRefused \/ InitializeLoadFails \/ InitializeBridgeFails
  \/ InitializeNoMemory
  \/ \E table \in Enumerations : C_Initialize(table)
  \/ C_Finalize \/ FinalizeCrashes \/ FinalizeRefused

Session ==
  \/ C_OpenSession \/ OpenSessionRefused \/ C_CloseAllSessions
  \/ \E h \in Handles : SessionRefused(h) \/ SessionQuery(h) \/ C_CloseSession(h)

Find ==
  \E h \in Handles :
    \/ \E tmpl \in Templates : C_FindObjectsInit(h, tmpl)
    \/ FindObjectsInitRefused(h)
    \/ \E max \in 0 .. MaxFind : C_FindObjects(h, max)
    \/ FindObjectsRefused(h)
    \/ C_FindObjectsFinal(h)

Sign ==
  \E h \in Handles :
    \/ \E mech \in Mechs, par \in Params, o \in ObjHandles : C_SignInit(h, mech, par, o)
    \/ \E mech \in Mechs, o \in ObjHandles : SignInitRefused(h, mech, o)
    \/ \E p \in Parts : C_SignUpdate(h, p)
    \/ SignUpdateRefused(h)
    \/ \E p \in Parts, cap \in Caps \cup {NullBuf} : C_Sign(h, p, cap)
    \/ \E cap \in Caps \cup {NullBuf} : C_SignFinal(h, cap)
    \/ SignRefused(h)

Next == Library \/ Session \/ Find \/ Sign

Spec == Init /\ [][Next]_vars

-----------------------------------------------------------------------------
(***************************************************************************)
(* Properties                                                              *)
(***************************************************************************)
Digest == [how : {"whole", "tail", "hash"}, alg : 0 .. 3, msg : Seq(Parts)]

Signature == [key : Keys, scheme : {"RSASSA-PSS", "RSASSA-PKCS1-v1_5", "ECDSA"},
              hash : HashAlg, digest : Digest]

Asked == [sess : Nat, key : SUBSET Keys, mech : MechType \cup {"none"}, par : PssParam,
          fed : Seq(Parts), input : SUBSET Seq(Parts), told : SUBSET Nat]

SignState == [active : BOOLEAN, obj_index : Nat, digest_mech : 0 .. 1, md : 0 .. 3,
              pss : 0 .. 1, hash_alg : 0 .. 3, buf : Seq(Parts), cached : SUBSET Signature]

\* Every variable keeps the type the C declarations give it.
TypeOK ==
  /\ g_initialized \in BOOLEAN /\ shutdown_ptr \in BOOLEAN
  /\ connected \in BOOLEAN /\ crashed \in BOOLEAN
  /\ g_objects \in Seq(Keys)
  /\ g_sessions \in [Slots -> [open : BOOLEAN, handle : Nat]]
  /\ g_next_handle \in Nat \ {0}
  /\ g_sign \in [Slots -> SignState]
  /\ g_find \in [active : BOOLEAN, handles : Seq(Nat), pos : Nat, stale : BOOLEAN]
  /\ ret \in [rv : CK_RV, sess : Nat, sig : SUBSET Signature, size : Nat]
  /\ asked \in [Slots -> Asked]

(***************************************************************************)
(* Two open sessions never share a handle, and every handle is one that    *)
(* was issued: the counter g_next_handle survives C_Finalize and           *)
(* C_Initialize, which clear the table.                                    *)
(***************************************************************************)
HandlesUnique ==
  \A s, t \in Slots : g_sessions[s].open =>
     /\ g_sessions[s].handle \in 1 .. g_next_handle - 1
     /\ Holds(t, g_sessions[s].handle) => s = t

(***************************************************************************)
(* A session handle the application may still hold after the session ended *)
(* (closed, all closed, module finalized and initialized again) never      *)
(* becomes valid again: an old handle cannot reach a new session.  Handles *)
(* below the counter are the ones issued so far, so the counter must never *)
(* be set back either.                                                     *)
(***************************************************************************)
ClosedHandleStaysClosed ==
  [][/\ g_next_handle' >= g_next_handle
     /\ \A h \in 1 .. g_next_handle - 1 :
          find_session(h) = {} => find_session(h)' = {}]_vars

(***************************************************************************)
(* A slot without a session holds no signing state, and without an         *)
(* initialised module there is no session, no object and no connection to  *)
(* the cert-server: every way out of an operation, a session or the module *)
(* (error paths of C_Initialize included) cleans up what it leaves.        *)
(***************************************************************************)
NothingLeftBehind ==
  /\ \A s \in Slots : ~g_sessions[s].open => g_sign[s] = sign_reset
  /\ ~g_initialized => /\ \A s \in Slots : ~g_sessions[s].open
                       /\ g_objects = << >>
                       /\ ~connected

(***************************************************************************)
(* do_sign reads g_objects[st->obj_index] without a check: an active       *)
(* operation always points into the object table, at the very key the      *)
(* application chose, and belongs to the session that began it, whatever   *)
(* was closed, finalized or enumerated again meanwhile.                    *)
(***************************************************************************)
SignOnChosenKey ==
  \A s \in Slots : g_sign[s].active =>
     /\ g_initialized /\ connected
     /\ Holds(s, asked[s].sess)
     /\ g_sign[s].obj_index \in DOMAIN g_objects
     /\ asked[s].key = {g_objects[g_sign[s].obj_index]}

\* The signature is permitted for what was asked, over the first input.
PermittedFor(a, sig) ==
  \E ps \in a.input : sig \in Permitted(sig.key, a.mech, a.par, Concat(ps))

(***************************************************************************)
(* The state of an active operation is what its C_SignInit and the calls   *)
(* since then make it: the mechanism suits the key, the fields are those   *)
(* of the mechanism, the buffer holds the parts fed in order, and a kept   *)
(* signature answers the operation's own first call.                       *)
(***************************************************************************)
OperationAsAsked ==
  \A s \in Slots : g_sign[s].active =>
     LET st == g_sign[s]  a == asked[s] IN
     /\ a.mech \in MechType
     /\ mech_ok_for_type(a.mech, ktype(g_objects[st.obj_index]))
     /\ st.digest_mech = ksp_mechs[a.mech].digest_mech
     /\ st.md = ksp_mechs[a.mech].md
     /\ st.pss = ksp_mechs[a.mech].pss
     /\ st.hash_alg = InitHashAlg(a.mech, a.par)
     /\ st.buf = a.fed
     /\ st.cached = {} => a.input = {}
     /\ \A sig \in st.cached : a.key = {sig.key} /\ PermittedFor(a, sig)

(***************************************************************************)
(* A signature handed to the application is one the mechanism of its own   *)
(* session's C_SignInit permits, by the key it named, over the input of    *)
(* the operation's first C_Sign or C_SignFinal call (all the parts fed by  *)
(* then, in order); a signature kept from a size query never crosses over  *)
(* to another operation, session or key.                                   *)
(***************************************************************************)
DeliveredAsPermitted ==
  \A sig \in ret.sig : \E s \in Slots :
     /\ asked[s].sess = ret.sess
     /\ asked[s].key = {sig.key}
     /\ PermittedFor(asked[s], sig)

(***************************************************************************)
(* The size a size query reports is binding: while the operation is active *)
(* the signature of exactly that size is kept, so that the follow-up call  *)
(* with a buffer of that size needs no RPC and cannot find it too small.   *)
(***************************************************************************)
SizeQueryBinding ==
  \A s \in Slots : g_sign[s].active =>
     \/ asked[s].told = {} /\ g_sign[s].cached = {}
     \/ \E sig \in g_sign[s].cached : /\ g_sign[s].cached = {sig}
                                      /\ asked[s].told = {SigLen[sig.key]}

(***************************************************************************)
(* The search never reads past its list of handles, and the handles it     *)
(* reports are distinct objects of the table, in order, unless the search  *)
(* was begun before a C_Finalize, which forgets to end it.  Once ended it  *)
(* holds no list.                                                          *)
(***************************************************************************)
FindWithinTable ==
  /\ g_find.pos <= Len(g_find.handles)
  /\ ~g_find.active => g_find = NoFind
  /\ ~g_find.stale =>
       /\ \A i \in DOMAIN g_find.handles : g_find.handles[i] \in DOMAIN g_objects
       /\ \A i, j \in DOMAIN g_find.handles :
            i < j => g_find.handles[i] < g_find.handles[j]

(***************************************************************************)
(* An initialised module has a client and can be finalized: C_Finalize     *)
(* reaches the NULL pointer only when no C_Initialize has succeeded since  *)
(* the last failed load of the bridge, and no failed C_Initialize shuts    *)
(* the client of a running module down.                                    *)
(***************************************************************************)
FinalizeSafe == (g_initialized => shutdown_ptr /\ connected) /\ (crashed => ~g_initialized)
=============================================================================
