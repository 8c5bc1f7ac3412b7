------------------------------ MODULE KspClient ------------------------------
(***************************************************************************)
(* The gRPC client behind the kspbridge library (internal/kspclient and    *)
(* internal/kspbridge, Linux and Windows): the one global client, its      *)
(* replacement and shutdown, and the list of remote certificates it caches *)
(* under a mutex.  Threads of the host process call the bridge at any      *)
(* time.                                                                   *)
(*                                                                         *)
(* A critical section without an RPC is one action; an RPC is a request,   *)
(* an answer of the server and a return, with other threads in between.    *)
(* The server, its set of certificates and the platform's certificate      *)
(* store are external and answer as they like.                             *)
(***************************************************************************)
EXTENDS Integers, FiniteSets

CONSTANTS
  Threads,       \* threads of the host process
  Certs,         \* certificates with a private key the server may list
  Ops,           \* bridge operations the threads call
  StoreAnswers,  \* what ListCertificatesByProvider may answer
  PingOnInit,    \* does tpmcert_init ping the server? (Linux)
  TTL,           \* listCacheTTL
  RpcTimeout,    \* 15 s, of ListCertificates and SignHash
  CallTimeout,   \* 30 s, of a bridge call
  PingTimeout,   \* 5 s
  MaxTime,       \* bound: the clock stops here
  MaxClients     \* bound: clients that are ever built

Free == "free"          \* a mutex nobody holds

\* Answers of the platform's certificate store.
Unsupported == [err |-> "ErrUnsupportedPlatform", certs |-> {}]
StoreError == [err |-> "error", certs |-> {}]
Store(certs) == [err |-> "nil", certs |-> certs]

ASSUME KspClientAssumption ==
  /\ Ops \subseteq {"init", "shutdown", "AllKeys", "InstalledKeys", "SignHashDirect", "SignHash"}
  /\ StoreAnswers \subseteq {Unsupported, StoreError} \cup {Store(cs) : cs \in SUBSET Certs}
  /\ PingOnInit \in BOOLEAN
  /\ Free \notin Threads
  /\ TTL > 0
  /\ {TTL, RpcTimeout, CallTimeout, PingTimeout, MaxTime, MaxClients} \subseteq Nat

VARIABLES
  now,           \* the clock
  listed,        \* what the server lists at the moment
  global,        \* the global client, 0 for nil
  built,         \* clients built so far: 1 .. built
  open,          \* [Clients -> is its connection open?]
  mu,            \* [Clients -> the thread that holds Client.mu, or Free]
  cache,         \* [Clients -> cachedList, cachedAt and when the server answered]
  call,          \* [Threads -> the call the thread is in]
  res            \* what the last step returned to a caller

serverVars == <<now, listed>>
clientVars == <<global, built, open, mu, cache>>
vars == <<serverVars, clientVars, call, res>>

Clients == 1 .. MaxClients

Cache(certs, cachedAt, at) == [certs |-> certs, cachedAt |-> cachedAt, at |-> at]

(***************************************************************************)
(* A call: where it is, the operation, the client it got from Global(),    *)
(* when it began (while a list may still be given out), when its RPC times *)
(* out and the answer on its way back (at most one).                       *)
(***************************************************************************)
In(pc, op, c, begun, deadline, answer) ==
  [pc |-> pc, op |-> op, cl |-> c, begun |-> begun, deadline |-> deadline, answer |-> answer]
Idle == In("idle", "none", 0, 0, 0, {})

(***************************************************************************)
(* Results: none yet, an error, success, or a list with its origin         *)
(* ("remote", "store" or "nothing"), how long ago the server gave it and  *)
(* whether that was before the call began.                                 *)
(***************************************************************************)
Result(kind, certs, from, age, old) ==
  [kind |-> kind, certs |-> certs, from |-> from, age |-> age, old |-> old]
NoResult == Result("none", {}, "nothing", 0, FALSE)
Failed == Result("error", {}, "nothing", 0, FALSE)
Succeeded == Result("ok", {}, "nothing", 0, FALSE)
RemoteList(certs, at, begun) == Result("list", certs, "remote", now - at, at < begun)

Min(a, b) == IF a < b THEN a ELSE b

-----------------------------------------------------------------------------
Init ==
  /\ now = 0
  /\ listed \in SUBSET Certs
  /\ global = 0
  /\ built = 0
  /\ open = [c \in Clients |-> FALSE]
  /\ mu = [c \in Clients |-> Free]
  /\ cache = [c \in Clients |-> Cache({}, 0, 0)]
  /\ call = [t \in Threads |-> Idle]
  /\ res = NoResult

(***************************************************************************)
(* Environment                                                             *)
(***************************************************************************)
InRpc(t) == call[t].pc \in {"ping", "list", "sign"}

\* A context that expires ends its RPC before time goes on.
Tick ==
  /\ now < MaxTime
  /\ \A t \in Threads : InRpc(t) => now < call[t].deadline
  /\ now' = now + 1
  /\ res' = NoResult
  /\ UNCHANGED <<listed, clientVars, call>>

\* Certificates come and go on the server.
ServerChanges ==
  /\ listed' \in SUBSET Certs \ {listed}
  /\ res' = NoResult
  /\ UNCHANGED <<now, clientVars, call>>

(***************************************************************************)
(* The steps of a call                                                     *)
(***************************************************************************)
GoTo(t, c) == call' = [call EXCEPT ![t] = c] /\ res' = NoResult

\* The call returns to the host process.
Return(t, r) == call' = [call EXCEPT ![t] = Idle] /\ res' = r

\* The thread calls the bridge and Global() is not nil.
Begin(t, o) == o \in Ops /\ call[t].pc = "idle" /\ global # 0

\* An RPC ends at the deadline of the call or its own.
RpcDeadline(begun) == Min(begun + CallTimeout, now + RpcTimeout)

\* An RPC can succeed: the connection is open and the deadline not over.
Alive(t) == open[call[t].cl] /\ now <= call[t].deadline

Sign(t, o, c, begun) == GoTo(t, In("sign", o, c, 0, RpcDeadline(begun), {}))

\* With the list of keys: give it out, or look for the key (FindInstalled)
\* and have the server sign with it.
WithKeys(t, o, c, begun, r) ==
  \/ o # "SignHash" /\ Return(t, r)
  \/ o = "SignHash" /\ r.certs # {} /\ Sign(t, o, c, begun)
  \/ o = "SignHash" /\ Return(t, Failed)                   \* ErrNotInstalled

(***************************************************************************)
(* InitGlobal, Global and ShutdownGlobal                                   *)
(***************************************************************************)
\* Mutant: the replaced client is forgotten, not closed.
CloseGlobal_not_closed == open

\* The connections that are left when the global client is closed.
CloseGlobal == [c \in Clients |-> open[c] /\ c # global]

\* tpmcert_init up to InitGlobal: no configuration, no client (bad
\* certificates, bad address), or a new one.
InitGlobal(t) ==
  /\ "init" \in Ops
  /\ call[t].pc = "idle"
  /\ \/ /\ Return(t, Failed)                               \* loadConfig
        /\ UNCHANGED clientVars
     \/ /\ Return(t, Failed)                               \* New
        /\ open' = CloseGlobal
        /\ global' = 0
        /\ UNCHANGED <<built, mu, cache>>
     \/ /\ built < MaxClients
        /\ built' = built + 1
        /\ open' = [CloseGlobal EXCEPT ![built + 1] = TRUE]
        /\ global' = built + 1
        /\ GoTo(t, In("global", "init", 0, 0, 0, {}))
        /\ UNCHANGED <<mu, cache>>
  /\ UNCHANGED serverVars

\* The rest of tpmcert_init asks for the global client again: another
\* thread may have replaced it or shut it down.
Global(t) ==
  /\ call[t].pc = "global"
  /\ IF global = 0 THEN Return(t, Failed)
     ELSE IF PingOnInit
          THEN GoTo(t, In("ping", call[t].op, global, call[t].begun, now + PingTimeout, {}))
          ELSE Return(t, Succeeded)
  /\ UNCHANGED <<serverVars, clientVars>>

Ping(t) ==
  /\ call[t].pc = "ping"
  /\ Alive(t)
  /\ Return(t, Succeeded)
  /\ UNCHANGED <<serverVars, clientVars>>

\* Fail fast: shut the global client down, whoever built it.
PingFails(t) ==
  /\ call[t].pc = "ping"
  /\ open' = CloseGlobal
  /\ global' = 0
  /\ Return(t, Failed)
  /\ UNCHANGED <<serverVars, built, mu, cache>>

ShutdownGlobal(t) ==
  /\ "shutdown" \in Ops
  /\ call[t].pc = "idle"
  /\ open' = CloseGlobal
  /\ global' = 0
  /\ Return(t, Succeeded)
  /\ UNCHANGED <<serverVars, built, mu, cache>>

(***************************************************************************)
(* Lists of keys                                                           *)
(***************************************************************************)
\* A call without a global client fails (or counts no key).
NoClient(t) ==
  /\ Ops \ {"init", "shutdown"} # {}
  /\ call[t].pc = "idle"
  /\ global = 0
  /\ Return(t, Failed)
  /\ UNCHANGED <<serverVars, clientVars>>

\* InstalledKeys: the platform's store, the remote list where there is no
\* store, nothing otherwise.
InstalledKeys(t, o, store) ==
  /\ o \in {"InstalledKeys", "SignHash"}
  /\ Begin(t, o)
  /\ IF store = Unsupported
     THEN GoTo(t, In("lock", o, global, now, 0, {}))
     ELSE WithKeys(t, o, global, now,
                   Result("list", store.certs,
                          IF store.certs = {} THEN "nothing" ELSE "store", 0, FALSE))
  /\ UNCHANGED <<serverVars, clientVars>>

\* AllKeys waits for Client.mu.
AllKeys(t) ==
  /\ Begin(t, "AllKeys")
  /\ GoTo(t, In("lock", "AllKeys", global, now, 0, {}))
  /\ UNCHANGED <<serverVars, clientVars>>

\* Mutant: an empty list is cached too.
Cached_empty_too(c) == now - cache[c].cachedAt < TTL

Cached(c) == now - cache[c].cachedAt < TTL /\ cache[c].certs # {}

\* refreshRemoteListLocked with a list that is recent enough.
CachedKeys(t) ==
  LET k == call[t] IN
  /\ k.pc = "lock"
  /\ mu[k.cl] = Free
  /\ Cached(k.cl)
  /\ WithKeys(t, k.op, k.cl, k.begun,
              RemoteList(cache[k.cl].certs, cache[k.cl].at, k.begun))
  /\ UNCHANGED <<serverVars, clientVars>>

\* Mutant: the list is requested without the mutex.
RequestList_unlocked(t) ==
  LET k == call[t] IN
  /\ k.pc = "lock"
  /\ ~Cached(k.cl)
  /\ GoTo(t, In("list", k.op, k.cl, k.begun, RpcDeadline(k.begun), {}))
  /\ UNCHANGED <<serverVars, clientVars>>

\* refreshRemoteListLocked without one: ask the server, the mutex held.
RequestList(t) ==
  LET k == call[t] IN
  /\ k.pc = "lock"
  /\ mu[k.cl] = Free
  /\ ~Cached(k.cl)
  /\ mu' = [mu EXCEPT ![k.cl] = t]
  /\ GoTo(t, In("list", k.op, k.cl, k.begun, RpcDeadline(k.begun), {}))
  /\ UNCHANGED <<serverVars, global, built, open, cache>>

\* The server answers; the answer takes its time.
ListCertificates(t) ==
  LET k == call[t] IN
  /\ k.pc = "list"
  /\ Alive(t)
  /\ k.answer = {}
  /\ GoTo(t, In("list", k.op, k.cl, k.begun, k.deadline, {[certs |-> listed, at |-> now]}))
  /\ UNCHANGED <<serverVars, clientVars>>

ListArrives(t) ==
  LET k == call[t] IN
  /\ k.pc = "list"
  /\ \E l \in k.answer :
       /\ cache' = [cache EXCEPT ![k.cl] = Cache(l.certs, now, l.at)]
       /\ WithKeys(t, k.op, k.cl, k.begun, RemoteList(l.certs, l.at, k.begun))
  /\ mu' = [mu EXCEPT ![k.cl] = Free]
  /\ UNCHANGED <<serverVars, global, built, open>>

\* Mutant: the error path forgets to unlock.
ListFails_keeps_mu(t) ==
  /\ call[t].pc = "list"
  /\ Return(t, Failed)
  /\ UNCHANGED <<serverVars, clientVars>>

\* An error, a closed connection, or the deadline: the old list stays.
ListFails(t) ==
  /\ call[t].pc = "list"
  /\ mu' = [mu EXCEPT ![call[t].cl] = Free]
  /\ Return(t, Failed)
  /\ UNCHANGED <<serverVars, global, built, open, cache>>

(***************************************************************************)
(* Signing                                                                 *)
(***************************************************************************)
SignHashDirect(t) ==
  /\ Begin(t, "SignHashDirect")
  /\ Sign(t, "SignHashDirect", global, now)
  /\ UNCHANGED <<serverVars, clientVars>>

Signed(t) ==
  /\ call[t].pc = "sign"
  /\ Alive(t)
  /\ Return(t, Succeeded)
  /\ UNCHANGED <<serverVars, clientVars>>

SignFails(t) ==
  /\ call[t].pc = "sign"
  /\ Return(t, Failed)
  /\ UNCHANGED <<serverVars, clientVars>>

-----------------------------------------------------------------------------
Call(t) ==
  \/ InitGlobal(t) \/ ShutdownGlobal(t) \/ NoClient(t)
  \/ \E o \in Ops, store \in StoreAnswers : InstalledKeys(t, o, store)
  \/ AllKeys(t) \/ SignHashDirect(t)

\* A thread takes Client.mu.
Lock(t) == CachedKeys(t) \/ RequestList(t)

\* A thread goes on, or its RPC ends.
Proceed(t) ==
  \/ Global(t) \/ Ping(t) \/ PingFails(t)
  \/ ListArrives(t) \/ ListFails(t) \/ Signed(t) \/ SignFails(t)

Next ==
  \/ Tick \/ ServerChanges
  \/ \E t \in Threads : Call(t) \/ Lock(t) \/ ListCertificates(t) \/ Proceed(t)

(***************************************************************************)
(* Every RPC has a deadline, so a thread that is not waiting for the mutex *)
(* goes on; sync.Mutex does not starve a waiter.  Nothing makes a thread   *)
(* call, the server answer or the clock reach a deadline.                  *)
(***************************************************************************)
Fairness == \A t \in Threads : WF_vars(Proceed(t)) /\ SF_vars(Lock(t))

Spec == Init /\ [][Next]_vars /\ Fairness

-----------------------------------------------------------------------------
(***************************************************************************)
(* Properties                                                              *)
(***************************************************************************)
\* Every variable keeps its type; a thread that waits for the mutex or an
\* RPC has a client, however often the global one was replaced.
TypeOK ==
  /\ now \in 0 .. MaxTime
  /\ listed \in SUBSET Certs
  /\ built \in 0 .. MaxClients
  /\ global \in 0 .. built
  /\ open \in [Clients -> BOOLEAN]
  /\ mu \in [Clients -> Threads \cup {Free}]
  /\ cache \in [Clients -> [certs : SUBSET Certs, cachedAt : 0 .. now, at : 0 .. now]]
  /\ call \in [Threads ->
                [pc : {"idle", "global", "ping", "lock", "list", "sign"},
                 op : Ops \cup {"none"}, cl : 0 .. built, begun : 0 .. now, deadline : Nat,
                 answer : SUBSET [certs : SUBSET Certs, at : 0 .. now]]]
  /\ \A t \in Threads : call[t].pc \in {"ping", "lock", "list", "sign"} => call[t].cl # 0
  /\ res \in [kind : {"none", "error", "ok", "list"}, certs : SUBSET Certs,
              from : {"nothing", "store", "remote"}, age : 0 .. now, old : BOOLEAN]

(***************************************************************************)
(* InitGlobal and ShutdownGlobal never leak a connection and never leave a *)
(* closed client global: the global client is the one client whose         *)
(* connection is open, whatever the threads replace and shut down.         *)
(***************************************************************************)
OneConnection == \A c \in Clients : open[c] <=> c = global

(***************************************************************************)
(* Client.mu is held exactly by the thread whose refresh of the list is    *)
(* under way: a client has at most one, and every way out of it (answer,   *)
(* error, deadline, connection closed by another thread) releases it.      *)
(***************************************************************************)
MutexHeld ==
  \A c \in Clients, t \in Threads : mu[c] = t <=> call[t].pc = "list" /\ call[t].cl = c

(***************************************************************************)
(* A list from the server is never older, when it is given out, than the   *)
(* time to live and the duration of an RPC together (cachedAt is when the  *)
(* answer arrived, not when the server gave it), and an empty list was     *)
(* given after the call began, so that a server that gets its first        *)
(* certificate is not taken for an empty one until the list expires.       *)
(***************************************************************************)
ListIsFresh ==
  res.from = "remote" =>
     /\ res.age < TTL + RpcTimeout
     /\ res.certs = {} => ~res.old

(***************************************************************************)
(* The list a client holds is never replaced by one the server gave        *)
(* earlier: answers cannot overtake each other.                            *)
(***************************************************************************)
NeverAnOlderList == [][\A c \in Clients : cache'[c].at >= cache[c].at]_vars

(***************************************************************************)
(* A thread that calls the bridge gets an answer: no shutdown, replacement *)
(* or hanging server blocks it for ever.                                   *)
(***************************************************************************)
EveryCallReturns == \A t \in Threads : call[t].pc # "idle" ~> call[t].pc = "idle"

(***************************************************************************)
(* The comment in InstalledKeys: without certificates in the store, or on  *)
(* an unsupported platform, the answer comes from the remote list.         *)
(***************************************************************************)
FallsBackToRemote == res.kind = "list" => res.from \in {"store", "remote"}
=============================================================================
