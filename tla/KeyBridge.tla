------------------------------ MODULE KeyBridge ------------------------------
(***************************************************************************)
(* The C interface of the client (internal/kspbridge, internal/ctkbridge)  *)
(* as the libraries above it use it: the Windows key storage provider      *)
(* (ksp/ksp.c, tpmcert_storage.c), the PKCS#11 module when it fills its    *)
(* object table (ksp11.c), the macOS token extension and the macOS app     *)
(* (mac-provider).                                                         *)
(*                                                                         *)
(* All of them list the keys by a count and then one call per index, each  *)
(* call over the list of its moment, and copy a tpmcert_key_info that the  *)
(* bridge has allocated and they must free.  A bridge call is one step,    *)
(* tpmcert_init and tpmcert_sign_hash are several.  What happens inside a  *)
(* list or signature request is the business of KspClient.                 *)
(***************************************************************************)
EXTENDS Integers, Sequences, FiniteSets

CONSTANTS
  Threads,       \* threads of the host process
  Keys,          \* keys that may be installed
  Hosts,         \* libraries looked at: "ksp", "ksp11", "token", "app"
  MaxChanges     \* bound: changes of the list

ASSUME KeyBridgeAssumption ==
  /\ Hosts \subseteq {"ksp", "ksp11", "token", "app"}
  /\ MaxChanges \in Nat
  /\ IsFiniteSet(Keys)

VARIABLES
  host,          \* the library this process has loaded
  client,        \* kspclient.Global() is not nil
  ready,         \* g_bridgeReady, g_initialized, or the token's dispatch_once
  overlap,       \* two calls of tpmcert_init have overlapped
  installed,     \* the keys as the client would list them now
  changes,
  thread         \* [Threads -> the call under way and what it holds]

bridgeVars == <<client, ready, overlap>>
listVars == <<installed, changes>>
vars == <<host, bridgeVars, listVars, thread>>

\* Lists of keys: each key at most once, in any order.
Lists == {l \in UNION {[1 .. n -> Keys] : n \in 0 .. Cardinality(Keys)} :
            \A i, j \in DOMAIN l : l[i] = l[j] => i = j}
In(k, l) == \E i \in DOMAIN l : l[i] = k

(***************************************************************************)
(* A thread: its place, the count and index of its enumeration, whether it *)
(* has the state of one (KSP_ENUM_STATE), the keys listed so far, whether  *)
(* it missed one, the key infos it has to free, its open keys, the key to  *)
(* work with, the lists there have been since its call began, its result.  *)
(***************************************************************************)
Start ==
  [pc |-> "idle", n |-> 0, i |-> 0, state |-> FALSE, names |-> <<>>, missed |-> FALSE,
   info |-> {}, keys |-> {}, key |-> {}, seen |-> {}, result |-> "none"]

Init ==
  /\ host \in Hosts
  /\ client = FALSE
  /\ ready = FALSE
  /\ overlap = FALSE
  /\ installed \in Lists
  /\ changes = 0
  /\ thread = [t \in Threads |-> Start]

Here(t) == thread[t]
At(t, pc) == thread[t].pc = pc
Set(t, s) == thread' = [thread EXCEPT ![t] = s] /\ UNCHANGED <<host, listVars>>
To(s, pc) == [s EXCEPT !.pc = pc]
Done(s, result) ==
  [s EXCEPT !.pc = "idle", !.result = result, !.n = 0, !.i = 0, !.names = <<>>, !.missed = FALSE,
            !.key = {}, !.seen = {}]

Initializing(t) == thread[t].pc \in {"init", "global", "set"}

\* Certificates are installed and removed, on the server or in the store.
Change ==
  /\ changes < MaxChanges
  /\ changes' = changes + 1
  /\ installed' \in Lists \ {installed}
  /\ thread' = [t \in Threads |->
       IF At(t, "idle") THEN thread[t] ELSE [thread[t] EXCEPT !.seen = @ \cup {installed'}]]
  /\ UNCHANGED <<host, bridgeVars>>

(***************************************************************************)
(* Start of the bridge                                                     *)
(***************************************************************************)
\* Mutant: the flag is set before the bridge is started.
EnsureBridge_early(t) ==
  /\ At(t, "idle")
  /\ host = "ksp11" => ~ready /\ \A u \in Threads : At(u, "idle")
  /\ host = "token" => \A u \in Threads : ~Initializing(u)
  /\ IF ready /\ host # "app"
     THEN Set(t, Done(Here(t), "ok")) /\ UNCHANGED bridgeVars
     ELSE /\ Set(t, To(Here(t), "init"))
          /\ overlap' = (overlap \/ \E u \in Threads : Initializing(u))
          /\ ready' = TRUE
          /\ UNCHANGED client

\* EnsureBridge (ksp), initBridgeIfNeeded (token, where dispatch_once makes
\* the other threads wait), C_Initialize (one thread), testConfig (app, at
\* any time).
EnsureBridge(t) ==
  /\ At(t, "idle")
  /\ host = "ksp11" => ~ready /\ \A u \in Threads : At(u, "idle")
  /\ host = "token" => \A u \in Threads : ~Initializing(u)
  /\ IF ready /\ host # "app"
     THEN Set(t, Done(Here(t), "ok")) /\ UNCHANGED bridgeVars
     ELSE /\ Set(t, To(Here(t), "init"))
          /\ overlap' = (overlap \/ \E u \in Threads : Initializing(u))
          /\ UNCHANGED <<client, ready>>

\* dispatch_once is done whatever tpmcert_init returned.
InitFails(t) ==
  /\ Set(t, Done(Here(t), "error"))
  /\ ready' = (ready \/ host = "token")

\* tpmcert_init, ctk_bridge_init_opts: no configuration, no client, or one.
InitGlobal(t) ==
  /\ At(t, "init")
  /\ \/ InitFails(t) /\ UNCHANGED client
     \/ InitFails(t) /\ client' = FALSE
     \/ Set(t, To(Here(t), "global")) /\ client' = TRUE /\ UNCHANGED ready
  /\ UNCHANGED overlap

\* The Windows bridge looks for the client again, the Linux one pings the
\* server and shuts the client down if it does not answer; the macOS one is
\* done.
Global(t) ==
  /\ At(t, "global")
  /\ \/ /\ ~client /\ host \in {"ksp", "ksp11"}
        /\ InitFails(t)
        /\ UNCHANGED <<client, overlap>>
     \/ /\ client \/ host \in {"token", "app"}
        /\ Set(t, To([Here(t) EXCEPT !.seen = {installed}],
                     IF host \in {"ksp11", "app"} THEN "count" ELSE "set"))
        /\ UNCHANGED bridgeVars
     \/ /\ client /\ host = "ksp11"
        /\ InitFails(t)
        /\ client' = FALSE
        /\ UNCHANGED overlap

SetReady(t) ==
  /\ At(t, "set")
  /\ Set(t, Done(Here(t), "ok"))
  /\ ready' = TRUE
  /\ UNCHANGED <<client, overlap>>

\* DllMain on FreeLibrary, C_Finalize: nobody is inside.
Detach ==
  /\ host \in {"ksp", "ksp11"} /\ ready
  /\ \A t \in Threads : At(t, "idle")
  /\ client' = FALSE
  /\ ready' = FALSE
  /\ thread' = [t \in Threads |-> Start]
  /\ UNCHANGED <<host, overlap, listVars>>

(***************************************************************************)
(* Enumeration                                                             *)
(***************************************************************************)
\* KSPEnumKeys for the first time, MacToken's initWithTokenDriver.
EnumKeys(t) ==
  /\ At(t, "idle")
  /\ ready /\ host \in {"ksp", "token"}
  /\ Set(t, [Here(t) EXCEPT !.pc = "count", !.seen = {installed}])
  /\ UNCHANGED bridgeVars

\* tpmcert_installed_count: no key without a client or on an error.  The
\* memory for the state or the object table may fail.
InstalledCount(t) ==
  /\ At(t, "count")
  /\ \E n \in {0} \cup IF client THEN {Len(installed)} ELSE {} :
       LET s == [Here(t) EXCEPT !.n = n, !.i = 0, !.names = <<>>, !.missed = (n # Len(installed))] IN
       \/ /\ host = "ksp" /\ n = 0
          /\ Set(t, Done(s, "error"))
          /\ UNCHANGED client
       \/ /\ host \in {"ksp", "ksp11"} /\ n # 0
          /\ Set(t, Done(s, "error"))
          /\ client' = (client /\ host = "ksp")
       \/ /\ host # "ksp" \/ n # 0
          /\ Set(t, To([s EXCEPT !.state = (host = "ksp")], "get"))
          /\ UNCHANGED client
  /\ UNCHANGED <<ready, overlap>>

More(s) == s.i < s.n

\* A key that is not to be had: the loops go on; KSPEnumKeys fails, and at
\* the first key the state goes too.
NotHad(t, s) ==
  IF host = "ksp"
  THEN Set(t, IF s.i = 0 THEN [Done(s, "error") EXCEPT !.state = FALSE]
              ELSE [s EXCEPT !.missed = TRUE, !.result = "error", !.pc = "listing"])
  ELSE Set(t, [s EXCEPT !.missed = TRUE, !.i = @ + 1])

\* tpmcert_get_installed over the list as it is now.
GetInstalled(t) ==
  /\ At(t, "get")
  /\ More(Here(t))
  /\ \/ /\ client /\ Here(t).i < Len(installed)
        /\ Set(t, [Here(t) EXCEPT !.pc = "copy", !.info = @ \cup {installed[Here(t).i + 1]}])
     \/ NotHad(t, Here(t))
  /\ UNCHANGED bridgeVars

\* Mutant: the info of a key whose copy fails is not freed.
FreeKeyInfo_after_success(s, ok) == IF ok THEN [s EXCEPT !.info = {}] ELSE s

\* tpmcert_free_key_info, ctk_bridge_free_key_info: on every path.
FreeKeyInfo(s, ok) == [s EXCEPT !.info = {}]

\* Mutant: KSPEnumKeys begins with the first key again.
Listed_again(s) == [s EXCEPT !.names = @ \o <<CHOOSE k \in s.info : TRUE>>,
                             !.i = IF @ = 0 THEN 0 ELSE @ + 1]

Listed(s) == [s EXCEPT !.names = @ \o <<CHOOSE k \in s.info : TRUE>>, !.i = @ + 1]

\* BuildKeyName, the entry of the object table, the keychain item.  The copy
\* fails for want of memory (ksp) or on a certificate that does not parse
\* (token, app).
CopyInfo(t) ==
  LET s == Here(t) IN
  /\ At(t, "copy")
  /\ \/ Set(t, To(FreeKeyInfo(Listed(s), TRUE), IF host = "ksp" THEN "listing" ELSE "get"))
     \/ /\ host # "ksp11"
        /\ NotHad(t, To(FreeKeyInfo(s, FALSE), "get"))
  /\ UNCHANGED bridgeVars

\* KSPEnumKeys again, until there are no more, and KSPFreeBuffer.
EnumNext(t) ==
  /\ At(t, "listing")
  /\ IF More(Here(t)) THEN Set(t, To(Here(t), "get"))
     ELSE Set(t, [Done(Here(t), "ok") EXCEPT !.state = FALSE])
  /\ UNCHANGED bridgeVars

\* The caller need not go on.
FreeBuffer(t) ==
  /\ At(t, "listing")
  /\ Set(t, [Done(Here(t), "ok") EXCEPT !.state = FALSE])
  /\ UNCHANGED bridgeVars

\* The loops are over: the PKCS#11 module is initialized.
LoopEnds(t) ==
  /\ At(t, "get")
  /\ ~More(Here(t))
  /\ Set(t, [Done(Here(t), "list") EXCEPT !.keys = {Here(t).names[i] : i \in DOMAIN Here(t).names}])
  /\ ready' = (ready \/ host = "ksp11")
  /\ UNCHANGED <<client, overlap>>

(***************************************************************************)
(* Keys                                                                    *)
(***************************************************************************)
\* KSPOpenKey: tpmcert_find_installed ...
OpenKey(t, k) ==
  /\ At(t, "idle")
  /\ host = "ksp" /\ ready
  /\ \/ client /\ In(k, installed) /\ Set(t, [Here(t) EXCEPT !.pc = "create", !.info = {k}])
     \/ Set(t, Done(Here(t), "error"))
  /\ UNCHANGED bridgeVars

\* ... and the copy of its public key, for both of which memory may fail.
CreateNewKeyObject(t) ==
  /\ At(t, "create")
  /\ \/ Set(t, Done([FreeKeyInfo(Here(t), TRUE) EXCEPT !.keys = @ \cup Here(t).info], "ok"))
     \/ Set(t, Done(FreeKeyInfo(Here(t), FALSE), "error"))
  /\ UNCHANGED bridgeVars

FreeKey(t, k) ==
  /\ At(t, "idle")
  /\ host = "ksp" /\ k \in Here(t).keys
  /\ Set(t, [Done(Here(t), "ok") EXCEPT !.keys = @ \ {k}])
  /\ UNCHANGED bridgeVars

\* Mutant: the key was looked up when it was opened.
tpmcert_sign_hash_no_find(t, k) ==
  /\ At(t, "idle")
  /\ k \in Here(t).keys
  /\ Set(t, [Here(t) EXCEPT !.pc = "sign", !.key = {k}, !.seen = {installed}])
  /\ UNCHANGED bridgeVars

\* tpmcert_sign_hash on Windows and its like on macOS: SignHash looks for the
\* key again; on Linux SignHashDirect leaves that to the server.
tpmcert_sign_hash(t, k) ==
  /\ At(t, "idle")
  /\ k \in Here(t).keys
  /\ \/ /\ client /\ (In(k, installed) \/ host = "ksp11")
        /\ Set(t, [Here(t) EXCEPT !.pc = "sign", !.key = {k}, !.seen = {installed}])
     \/ Set(t, Done(Here(t), "error"))
  /\ UNCHANGED bridgeVars

Signed(t) ==
  /\ At(t, "sign")
  /\ Set(t, To(Here(t), "signed")) \/ Set(t, Done(Here(t), "error"))
  /\ UNCHANGED bridgeVars

\* The signature is copied, or its size returned; a buffer may be too small.
CopySignature(t) ==
  /\ At(t, "signed")
  /\ \E r \in {"ok", "error"} : Set(t, Done(Here(t), r))
  /\ UNCHANGED bridgeVars

Next ==
  \/ Change \/ Detach
  \/ \E t \in Threads :
       \/ EnsureBridge(t) \/ InitGlobal(t) \/ Global(t) \/ SetReady(t)
       \/ EnumKeys(t) \/ InstalledCount(t) \/ GetInstalled(t) \/ CopyInfo(t)
       \/ EnumNext(t) \/ FreeBuffer(t) \/ LoopEnds(t)
       \/ CreateNewKeyObject(t) \/ Signed(t) \/ CopySignature(t)
       \/ \E k \in Keys : OpenKey(t, k) \/ FreeKey(t, k) \/ tpmcert_sign_hash(t, k)

Spec == Init /\ [][Next]_vars

-----------------------------------------------------------------------------
(***************************************************************************)
(* Properties                                                              *)
(***************************************************************************)
\* Every variable keeps its type; a call that copies a key info has one.
TypeOK ==
  /\ host \in Hosts
  /\ client \in BOOLEAN /\ ready \in BOOLEAN /\ overlap \in BOOLEAN
  /\ installed \in Lists
  /\ changes \in 0 .. MaxChanges
  /\ \A t \in Threads :
       /\ thread[t].n \in 0 .. Cardinality(Keys)
       /\ thread[t].i \in 0 .. thread[t].n
       /\ thread[t].seen \subseteq Lists
       /\ thread[t].keys \subseteq Keys
       /\ thread[t].pc \in {"copy", "create"} => thread[t].info # {}

(***************************************************************************)
(* An enumeration under which the list did not change, and in which no key *)
(* failed, gives exactly the list, in its order: nothing twice, nothing    *)
(* left out.  However the list changes, it gives no more keys than the     *)
(* count, and only keys that were installed while it ran.                  *)
(***************************************************************************)
ListsTheKeys ==
  \A t \in Threads :
    LET s == thread[t] IN
    s.pc \in {"get", "listing"} =>
      /\ Len(s.names) <= s.n
      /\ \A i \in DOMAIN s.names : \E l \in s.seen : In(s.names[i], l)
      /\ ~More(s) /\ ~s.missed /\ Cardinality(s.seen) = 1 => s.seen = {s.names}

(***************************************************************************)
(* No key info is left over when a call returns, also when the copy failed *)
(* or the key could not be created, and an enumeration that failed at its  *)
(* first key leaves no state behind.                                       *)
(***************************************************************************)
InfosFreed ==
  \A t \in Threads :
    /\ thread[t].pc \in {"idle", "listing", "get"} => thread[t].info = {}
    /\ thread[t].pc = "idle" => ~thread[t].state

(***************************************************************************)
(* The provider is ready only with a client, so that a library that said   *)
(* it is ready can list and sign, unless two threads started the bridge at *)
(* the same time: then the failure of the second takes the client away     *)
(* from the first, and nothing starts the bridge again.                    *)
(***************************************************************************)
ReadyHasClient == ready /\ host \in {"ksp", "ksp11"} => client \/ overlap

(***************************************************************************)
(* The Windows provider and the macOS token sign with no key that was      *)
(* removed before the call began, also through a handle that is older.     *)
(***************************************************************************)
SignsInstalledKeys ==
  \A t \in Threads :
    thread[t].pc = "signed" /\ host # "ksp11" =>
      \A k \in thread[t].key : \E l \in thread[t].seen : In(k, l)
=============================================================================
