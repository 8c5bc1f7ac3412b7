--------------------------- MODULE KspClientProofs ---------------------------
(***************************************************************************)
(* The client for every number of threads, certificates, clients and       *)
(* timeouts.                                                               *)
(*                                                                         *)
(* ListIsFresh and NeverAnOlderList are about answers on their way: the    *)
(* inductive invariant adds that an answer was given during its call and   *)
(* within its deadline, and not before the list its client holds           *)
(* (InFlight), and that a list arrived soon after it was given (Punctual). *)
(* That no other answer overtakes it rests on MutexHeld.                   *)
(***************************************************************************)
EXTENDS KspClient, TLAPS

InFlight ==
  \A t \in Threads :
     /\ call[t].pc = "list" => call[t].deadline <= now + RpcTimeout
     /\ \A l \in call[t].answer :
          /\ call[t].pc = "list"
          /\ call[t].begun <= l.at
          /\ cache[call[t].cl].at <= l.at
          /\ now <= call[t].deadline
          /\ call[t].deadline <= l.at + RpcTimeout

Punctual ==
  \A c \in Clients : /\ cache[c].at <= cache[c].cachedAt
                     /\ cache[c].cachedAt <= cache[c].at + RpcTimeout

\* The inductive invariant.
Inv == TypeOK /\ OneConnection /\ MutexHeld /\ InFlight /\ Punctual /\ ListIsFresh

CallType ==
  [pc : {"idle", "global", "ping", "lock", "list", "sign"},
   op : Ops \cup {"none"}, cl : 0 .. built, begun : 0 .. now, deadline : Nat,
   answer : SUBSET [certs : SUBSET Certs, at : 0 .. now]]

ResType == [kind : {"none", "error", "ok", "list"}, certs : SUBSET Certs,
            from : {"nothing", "store", "remote"}, age : 0 .. now, old : BOOLEAN]

\* The constants, one by one.
LEMMA Constants ==
  /\ TTL \in Nat /\ TTL > 0 /\ RpcTimeout \in Nat /\ CallTimeout \in Nat
  /\ PingTimeout \in Nat /\ MaxTime \in Nat /\ MaxClients \in Nat
  /\ Free \notin Threads
BY KspClientAssumption

\* The deadline of an RPC lies at most RpcTimeout ahead.
LEMMA DeadlineBound ==
  ASSUME TypeOK, NEW b \in 0 .. now
  PROVE  RpcDeadline(b) \in Nat /\ RpcDeadline(b) <= now + RpcTimeout
BY Constants DEF TypeOK, RpcDeadline, Min

\* Outside a refresh a thread has no answer under way; it is as good as idle.
Quiet(k) == k \in CallType /\ k.pc # "list" /\ k.answer = {}
            /\ (k.pc \in {"ping", "lock", "sign"} => k.cl # 0)

\* A result that is no list of the server, or a fresh one.
FreshResult(r) == r \in ResType /\ (r.from = "remote" => /\ r.age < TTL + RpcTimeout
                                                         /\ r.certs = {} => ~r.old)

\* The results without a list are well typed.
LEMMA PlainResults ==
  ASSUME TypeOK PROVE FreshResult(NoResult) /\ FreshResult(Failed) /\ FreshResult(Succeeded)
BY Constants DEF TypeOK, FreshResult, ResType, NoResult, Failed, Succeeded, Result

\* An idle thread is quiet.
LEMMA IdleQuiet == ASSUME TypeOK PROVE Quiet(Idle)
BY Constants DEF TypeOK, Quiet, CallType, Idle, In

\* A thread outside a refresh takes a step that leaves every client alone.
LEMMA QuietStep ==
  ASSUME Inv, NEW t \in Threads, call[t].pc # "list", NEW k, Quiet(k),
         call' = [call EXCEPT ![t] = k], FreshResult(res'),
         UNCHANGED <<serverVars, clientVars>>
  PROVE  Inv'
<1>1. TypeOK'
  BY Constants DEF Inv, TypeOK, Quiet, CallType, FreshResult, ResType, serverVars, clientVars
<1>2. OneConnection' /\ Punctual' /\ ListIsFresh'
  BY DEF Inv, OneConnection, Punctual, ListIsFresh, FreshResult, serverVars, clientVars
<1>3. \A u \in Threads : call'[u] = IF u = t THEN k ELSE call[u]
  BY DEF Inv, TypeOK
<1>4. MutexHeld'
  BY <1>3 DEF Inv, MutexHeld, Quiet, clientVars
<1>5. InFlight'
  BY <1>3 DEF Inv, InFlight, Quiet, serverVars, clientVars
<1> QED BY <1>1, <1>2, <1>4, <1>5 DEF Inv

\* What WithKeys makes of a list: a quiet thread and a fresh result.
LEMMA WithKeysQuiet ==
  ASSUME Inv, NEW t \in Threads, NEW o \in Ops \cup {"none"}, NEW c \in 1 .. built, NEW b \in 0 .. now,
         NEW r, FreshResult(r), WithKeys(t, o, c, b, r)
  PROVE  \E k : Quiet(k) /\ call' = [call EXCEPT ![t] = k] /\ FreshResult(res')
<1>1. TypeOK
  BY DEF Inv
<1>2. CASE res' = r /\ call' = [call EXCEPT ![t] = Idle]
  BY <1>1, <1>2, IdleQuiet
<1>3. CASE Sign(t, o, c, b)
  <2> DEFINE k == In("sign", o, c, 0, RpcDeadline(b), {})
  <2>1. Quiet(k)
    BY <1>1, DeadlineBound DEF Quiet, CallType, In, TypeOK
  <2>2. call' = [call EXCEPT ![t] = k] /\ res' = NoResult
    BY <1>3 DEF Sign, GoTo
  <2> QED BY <1>1, <2>1, <2>2, PlainResults
<1>4. CASE res' = Failed /\ call' = [call EXCEPT ![t] = Idle]
  BY <1>1, <1>4, IdleQuiet, PlainResults
<1> QED BY <1>2, <1>3, <1>4 DEF WithKeys, Return

\* A thread that waits for a mutex or an RPC has a client.
LEMMA HasClient ==
  ASSUME TypeOK, NEW t \in Threads, call[t].pc \in {"ping", "lock", "list", "sign"}
  PROVE  call[t].cl \in Clients /\ call[t].cl \in 1 .. built
<1>1. call[t].cl \in 0 .. built /\ call[t].cl # 0 /\ built \in 0 .. MaxClients
  BY DEF TypeOK
<1> QED BY <1>1, Constants DEF Clients

\* The same when the thread gives the mutex back and may replace the list.
LEMMA RefreshEnds ==
  ASSUME Inv, NEW t \in Threads, call[t].pc = "list", NEW k, Quiet(k),
         call' = [call EXCEPT ![t] = k], FreshResult(res'),
         mu' = [mu EXCEPT ![call[t].cl] = Free],
         NEW w \in [certs : SUBSET Certs, cachedAt : 0 .. now, at : 0 .. now],
         w.at <= w.cachedAt, w.cachedAt <= w.at + RpcTimeout,
         cache' = [cache EXCEPT ![call[t].cl] = w],
         UNCHANGED <<serverVars, global, built, open>>
  PROVE  Inv'
<1>0. call[t].cl \in Clients
  BY HasClient DEF Inv
<1>1. TypeOK'
  BY <1>0, Constants DEF Inv, TypeOK, Quiet, CallType, FreshResult, ResType, serverVars
<1>2. \A u \in Threads : call'[u] = IF u = t THEN k ELSE call[u]
  BY DEF Inv, TypeOK
<1>3. \A c \in Clients : /\ cache'[c] = IF c = call[t].cl THEN w ELSE cache[c]
                         /\ mu'[c] = IF c = call[t].cl THEN Free ELSE mu[c]
  BY DEF Inv, TypeOK
<1>4. \A u \in Threads \ {t} : call[u].pc = "list" =>
         call[u].cl \in Clients /\ call[u].cl # call[t].cl
  BY <1>0, HasClient DEF Inv, MutexHeld
<1>5. MutexHeld'
  BY <1>2, <1>3, <1>4, Constants DEF Inv, MutexHeld, Quiet
<1>6. InFlight'
  BY <1>2, <1>3, <1>4 DEF Inv, InFlight, Quiet, serverVars
<1>7. Punctual'
  BY <1>3 DEF Inv, Punctual
<1>8. OneConnection' /\ ListIsFresh'
  BY DEF Inv, OneConnection, ListIsFresh, FreshResult
<1> QED BY <1>1, <1>5, <1>6, <1>7, <1>8 DEF Inv

\* The global client is replaced or shut down, whatever the others do.
LEMMA GlobalStep ==
  ASSUME Inv, NEW t \in Threads, call[t].pc # "list", NEW k, Quiet(k)',
         call' = [call EXCEPT ![t] = k], FreshResult(res'),
         built' \in 0 .. MaxClients, built <= built', global' \in 0 .. built',
         open' = [c \in Clients |-> c = global'],
         UNCHANGED <<serverVars, mu, cache>>
  PROVE  Inv'
<1>1. TypeOK'
  BY Constants DEF Inv, TypeOK, Quiet, CallType, FreshResult, ResType, serverVars
<1>2. OneConnection'
  BY DEF OneConnection
<1>3. \A u \in Threads : call'[u] = IF u = t THEN k ELSE call[u]
  BY DEF Inv, TypeOK
<1>4. MutexHeld' /\ Punctual' /\ ListIsFresh'
  BY <1>3 DEF Inv, MutexHeld, Punctual, ListIsFresh, Quiet, FreshResult
<1>5. InFlight'
  BY <1>3 DEF Inv, InFlight, Quiet, serverVars
<1> QED BY <1>1, <1>2, <1>4, <1>5 DEF Inv

-----------------------------------------------------------------------------
(***************************************************************************)
(* One lemma per group of actions                                          *)
(***************************************************************************)
\* A call that returns at once, or goes to a step outside a refresh, with
\* no client touched.
LEMMA PlainSteps ==
  ASSUME Inv, NEW t \in Threads, call[t].pc # "list",
         UNCHANGED <<serverVars, clientVars>>
  PROVE  /\ \A r : FreshResult(r) /\ Return(t, r) => Inv'
         /\ \A k : Quiet(k) /\ GoTo(t, k) => Inv'
<1>1. ASSUME NEW r, FreshResult(r), Return(t, r) PROVE Inv'
  <2>1. Quiet(Idle)
    BY IdleQuiet DEF Inv
  <2>2. FreshResult(res') /\ call' = [call EXCEPT ![t] = Idle]
    BY <1>1 DEF Return
  <2> QED BY <2>1, <2>2, QuietStep
<1>2. ASSUME NEW k, Quiet(k), GoTo(t, k) PROVE Inv'
  <2>1. FreshResult(res') /\ call' = [call EXCEPT ![t] = k]
    BY <1>2, PlainResults DEF GoTo, Inv
  <2> QED BY <1>2, <2>1, QuietStep
<1> QED BY <1>1, <1>2

\* The clock and the server.
LEMMA EnvironmentStep == ASSUME Inv, Tick \/ ServerChanges PROVE Inv'
<1>1. CASE Tick
  <2>1. TypeOK'
    BY <1>1, Constants DEF Inv, TypeOK, Tick, clientVars, NoResult, Result
  <2>2. OneConnection' /\ MutexHeld' /\ Punctual' /\ ListIsFresh'
    BY <1>1 DEF Inv, OneConnection, MutexHeld, Punctual, ListIsFresh, Tick, clientVars,
                NoResult, Result
  <2>3. InFlight'
    BY <1>1, Constants DEF Inv, TypeOK, InFlight, Tick, InRpc, clientVars
  <2> QED BY <2>1, <2>2, <2>3 DEF Inv
<1>2. CASE ServerChanges
  BY <1>2, Constants DEF ServerChanges, Inv, TypeOK, OneConnection, MutexHeld, InFlight,
              Punctual, ListIsFresh, clientVars, NoResult, Result
<1> QED BY <1>1, <1>2

\* Closing the global client closes the last connection.
LEMMA CloseGlobalClosesAll ==
  ASSUME OneConnection PROVE CloseGlobal = [c \in Clients |-> FALSE]
BY DEF OneConnection, CloseGlobal

\* Without a global client no connection is open.
LEMMA ShutDown ==
  ASSUME Inv, NEW t \in Threads, call[t].pc # "list", NEW r, FreshResult(r),
         Return(t, r), open' = CloseGlobal, global' = 0, UNCHANGED <<serverVars, built, mu, cache>>
  PROVE  Inv'
<1>a. \A c \in Clients : ~(c = global')
  BY Constants DEF Clients
<1>b. open' = [c \in Clients |-> FALSE]
  BY CloseGlobalClosesAll DEF Inv
<1>1. open' = [c \in Clients |-> c = global']
  BY <1>a, <1>b, Zenon
<1>2. Quiet(Idle)'
  BY IdleQuiet DEF Inv, Quiet, CallType, serverVars
<1>3. built' \in 0 .. MaxClients /\ built <= built' /\ global' \in 0 .. built'
  BY Constants DEF Inv, TypeOK
<1> QED BY <1>1, <1>2, <1>3, GlobalStep DEF Return

\* tpmcert_init and tpmcert_shutdown.
LEMMA GlobalSteps ==
  ASSUME Inv, NEW t \in Threads,
         InitGlobal(t) \/ Global(t) \/ Ping(t) \/ PingFails(t) \/ ShutdownGlobal(t)
  PROVE  Inv'
<1>0. TypeOK /\ FreshResult(Failed) /\ FreshResult(Succeeded)
  BY PlainResults DEF Inv
<1>1. CASE InitGlobal(t)
  <2>0. call[t].pc # "list" /\ UNCHANGED serverVars
    BY <1>1 DEF InitGlobal
  <2>1. CASE Return(t, Failed) /\ UNCHANGED clientVars
    BY <1>0, <2>0, <2>1, PlainSteps
  <2>2. CASE Return(t, Failed) /\ open' = CloseGlobal /\ global' = 0 /\ UNCHANGED <<built, mu, cache>>
    BY <1>0, <2>0, <2>2, ShutDown
  <2>3. CASE /\ built < MaxClients /\ built' = built + 1 /\ global' = built + 1
             /\ open' = [CloseGlobal EXCEPT ![built + 1] = TRUE]
             /\ GoTo(t, In("global", "init", 0, 0, 0, {})) /\ UNCHANGED <<mu, cache>>
    <3>0. PICK k : k = In("global", "init", 0, 0, 0, {})
      OBVIOUS
    <3>1. open' = [c \in Clients |-> c = global']
      BY <2>3, <1>0, CloseGlobalClosesAll, Constants DEF Inv, TypeOK, Clients
    <3>2. Quiet(k)'
      BY <1>0, <1>1, <2>0, <2>3, <3>0, Constants
      DEF TypeOK, Quiet, CallType, In, serverVars, InitGlobal
    <3>3. built' \in 0 .. MaxClients /\ built <= built' /\ global' \in 0 .. built'
      BY <2>3, <1>0, Constants DEF TypeOK
    <3>4. call' = [call EXCEPT ![t] = k] /\ FreshResult(res')
      BY <1>0, <2>3, <3>0, PlainResults DEF GoTo
    <3> QED BY <2>0, <2>3, <3>1, <3>2, <3>3, <3>4, GlobalStep
  <2> QED BY <1>1, <2>1, <2>2, <2>3 DEF InitGlobal
<1>2. CASE Global(t)
  <2>0. call[t].pc # "list" /\ UNCHANGED <<serverVars, clientVars>>
    BY <1>2 DEF Global
  <2>1. CASE Return(t, Failed) \/ Return(t, Succeeded)
    BY <1>0, <2>0, <2>1, PlainSteps
  <2>2. CASE global # 0 /\ GoTo(t, In("ping", call[t].op, global, call[t].begun, now + PingTimeout, {}))
    <3>1. call[t] \in CallType
      BY <1>0 DEF TypeOK, CallType
    <3>3. Quiet(In("ping", call[t].op, global, call[t].begun, now + PingTimeout, {}))
      BY <1>0, <2>2, <3>1, Constants DEF TypeOK, Quiet, CallType, In
    <3> QED BY <2>0, <2>2, <3>3, PlainSteps
  <2> QED BY <1>2, <2>1, <2>2 DEF Global
<1>3. CASE Ping(t)
  BY <1>0, <1>3, PlainSteps DEF Ping
<1>4. CASE PingFails(t)
  BY <1>0, <1>4, ShutDown DEF PingFails
<1>5. CASE ShutdownGlobal(t)
  BY <1>0, <1>5, ShutDown DEF ShutdownGlobal
<1> QED BY <1>1, <1>2, <1>3, <1>4, <1>5

\* What the store holds is a set of certificates.
LEMMA StoreCerts == ASSUME NEW store \in StoreAnswers PROVE store.certs \in SUBSET Certs
BY KspClientAssumption DEF Unsupported, StoreError, Store

\* A call begins: the thread waits for the mutex of the global client.
LEMMA Waits ==
  ASSUME Inv, NEW o \in Ops, global # 0 PROVE Quiet(In("lock", o, global, now, 0, {}))
BY Constants DEF Inv, TypeOK, Quiet, CallType, In

\* The calls that ask for keys or signatures.
LEMMA CallSteps ==
  ASSUME Inv, NEW t \in Threads,
         \/ NoClient(t) \/ AllKeys(t) \/ SignHashDirect(t)
         \/ \E o \in Ops, store \in StoreAnswers : InstalledKeys(t, o, store)
  PROVE  Inv'
<1>0. TypeOK /\ FreshResult(Failed)
  BY PlainResults DEF Inv
<1>1. CASE NoClient(t)
  BY <1>0, <1>1, PlainSteps DEF NoClient
<1>2. CASE AllKeys(t)
  <2>1. /\ "AllKeys" \in Ops /\ global # 0 /\ call[t].pc # "list"
        /\ GoTo(t, In("lock", "AllKeys", global, now, 0, {}))
        /\ UNCHANGED <<serverVars, clientVars>>
    BY <1>2 DEF AllKeys, Begin
  <2> QED BY <2>1, Waits, PlainSteps
<1>3. CASE SignHashDirect(t)
  <2>1. /\ "SignHashDirect" \in Ops /\ global # 0 /\ call[t].pc # "list"
        /\ GoTo(t, In("sign", "SignHashDirect", global, 0, RpcDeadline(now), {}))
        /\ UNCHANGED <<serverVars, clientVars>>
    BY <1>3 DEF SignHashDirect, Begin, Sign
  <2>2. RpcDeadline(now) \in Nat
    BY <1>0, DeadlineBound, Constants DEF TypeOK
  <2>3. Quiet(In("sign", "SignHashDirect", global, 0, RpcDeadline(now), {}))
    BY <1>0, <2>1, <2>2, Constants DEF TypeOK, Quiet, CallType, In
  <2> QED BY <2>1, <2>3, PlainSteps
<1>4. ASSUME NEW o \in Ops, NEW store \in StoreAnswers, InstalledKeys(t, o, store)
      PROVE  Inv'
  <2>0. global # 0 /\ call[t].pc # "list" /\ UNCHANGED <<serverVars, clientVars>>
    BY <1>4 DEF InstalledKeys, Begin
  <2>1. CASE GoTo(t, In("lock", o, global, now, 0, {}))
    BY <2>0, <2>1, Waits, PlainSteps
  <2> DEFINE r == Result("list", store.certs,
                         IF store.certs = {} THEN "nothing" ELSE "store", 0, FALSE)
  <2>2. CASE WithKeys(t, o, global, now, r)
    <3>1. FreshResult(r)
      BY <1>0, StoreCerts, Constants DEF FreshResult, ResType, Result, TypeOK
    <3>2. global \in 1 .. built /\ now \in 0 .. now
      BY <1>0, <2>0, Constants DEF TypeOK
    <3> HIDE DEF r
    <3>3. \E k : Quiet(k) /\ call' = [call EXCEPT ![t] = k] /\ FreshResult(res')
      BY <2>2, <3>1, <3>2, WithKeysQuiet
    <3> QED BY <2>0, <3>3, QuietStep
  <2> QED BY <1>4, <2>1, <2>2 DEF InstalledKeys
<1> QED BY <1>1, <1>2, <1>3, <1>4

\* A signature arrives, or does not.
LEMMA SignSteps == ASSUME Inv, NEW t \in Threads, Signed(t) \/ SignFails(t) PROVE Inv'
<1>1. TypeOK /\ FreshResult(Failed) /\ FreshResult(Succeeded)
  BY PlainResults DEF Inv
<1>2. CASE Signed(t)
  BY <1>1, <1>2, PlainSteps DEF Signed
<1>3. CASE SignFails(t)
  BY <1>1, <1>3, PlainSteps DEF SignFails
<1> QED BY <1>2, <1>3

\* A refresh begins: the thread takes a free mutex.
LEMMA RefreshBegins == ASSUME Inv, NEW t \in Threads, RequestList(t) PROVE Inv'
<1>0. call[t].cl \in Clients /\ call[t].pc = "lock" /\ mu[call[t].cl] = Free
  BY HasClient DEF RequestList, Inv
<1> DEFINE k == In("list", call[t].op, call[t].cl, call[t].begun, RpcDeadline(call[t].begun), {})
<1>1. /\ call' = [call EXCEPT ![t] = k] /\ mu' = [mu EXCEPT ![call[t].cl] = t]
      /\ UNCHANGED <<serverVars, global, built, open, cache>> /\ res' = NoResult
  BY DEF RequestList, GoTo
<1>2. call[t] \in CallType /\ call[t].cl # 0
  BY <1>0 DEF Inv, TypeOK, CallType
<1>3. RpcDeadline(call[t].begun) \in Nat /\ RpcDeadline(call[t].begun) <= now + RpcTimeout
  BY <1>2, DeadlineBound DEF Inv, CallType
<1>4. /\ k \in CallType /\ k.pc = "list" /\ k.cl = call[t].cl /\ k.answer = {}
      /\ k.deadline <= now + RpcTimeout
  BY <1>2, <1>3 DEF CallType, In
<1> HIDE DEF k
<1>5. TypeOK'
  BY <1>0, <1>1, <1>2, <1>4, Constants DEF Inv, TypeOK, CallType, serverVars, NoResult, Result
<1>6. \A u \in Threads : call'[u] = IF u = t THEN k ELSE call[u]
  BY <1>1 DEF Inv, TypeOK
<1>7. \A c \in Clients : mu'[c] = IF c = call[t].cl THEN t ELSE mu[c]
  BY <1>1 DEF Inv, TypeOK
<1>8. MutexHeld'
  BY <1>0, <1>4, <1>6, <1>7, Constants DEF Inv, MutexHeld
<1>9. InFlight'
  BY <1>1, <1>4, <1>6 DEF Inv, InFlight, serverVars
<1>10. OneConnection' /\ Punctual' /\ ListIsFresh'
  BY <1>1 DEF Inv, OneConnection, Punctual, ListIsFresh, NoResult, Result
<1> QED BY <1>5, <1>8, <1>9, <1>10 DEF Inv

\* The server answers a request that is still alive.
LEMMA Answered == ASSUME Inv, NEW t \in Threads, ListCertificates(t) PROVE Inv'
<1>0. /\ call[t].cl \in Clients /\ call[t].pc = "list" /\ now <= call[t].deadline
      /\ call[t] \in CallType /\ call[t].cl # 0
  BY HasClient DEF ListCertificates, Inv, Alive, TypeOK, CallType
<1> DEFINE l == [certs |-> listed, at |-> now]
           k == In("list", call[t].op, call[t].cl, call[t].begun, call[t].deadline, {l})
<1>1. call' = [call EXCEPT ![t] = k] /\ UNCHANGED <<serverVars, clientVars>> /\ res' = NoResult
  BY DEF ListCertificates, GoTo
<1>2. l \in [certs : SUBSET Certs, at : 0 .. now] /\ l.at = now
  BY Constants DEF Inv, TypeOK
<1>3. /\ k \in CallType /\ k.pc = "list" /\ k.cl = call[t].cl /\ k.answer = {l}
      /\ k.deadline = call[t].deadline /\ k.begun = call[t].begun
  BY <1>0, <1>2 DEF CallType, In
<1> HIDE DEF k, l
<1>4. TypeOK'
  BY <1>0, <1>1, <1>3, Constants DEF Inv, TypeOK, CallType, serverVars, clientVars,
                                     NoResult, Result
<1>5. \A u \in Threads : call'[u] = IF u = t THEN k ELSE call[u]
  BY <1>1 DEF Inv, TypeOK
<1>6. MutexHeld'
  BY <1>0, <1>1, <1>3, <1>5 DEF Inv, MutexHeld, clientVars
<1>7. cache[call[t].cl].at <= now /\ call[t].begun <= now
      /\ call[t].deadline <= now + RpcTimeout
  BY <1>0, Constants DEF Inv, TypeOK, InFlight
<1>8. InFlight'
  BY <1>0, <1>1, <1>2, <1>3, <1>5, <1>7 DEF Inv, InFlight, serverVars, clientVars
<1>9. OneConnection' /\ Punctual' /\ ListIsFresh'
  BY <1>1 DEF Inv, OneConnection, Punctual, ListIsFresh, clientVars, NoResult, Result
<1> QED BY <1>4, <1>6, <1>8, <1>9 DEF Inv

\* A recent list is given out: it is fresh.
LEMMA CachedStep == ASSUME Inv, NEW t \in Threads, CachedKeys(t) PROVE Inv'
<1> DEFINE c == call[t].cl
           r == RemoteList(cache[c].certs, cache[c].at, call[t].begun)
<1>1. /\ c \in Clients /\ c \in 1 .. built /\ call[t].pc # "list"
      /\ UNCHANGED <<serverVars, clientVars>>
  BY HasClient DEF CachedKeys, Inv
<1>2. call[t].op \in Ops \cup {"none"} /\ call[t].begun \in 0 .. now
  BY DEF Inv, TypeOK
<1>3. /\ cache[c].certs \in SUBSET Certs /\ cache[c].certs # {}
      /\ cache[c].at \in 0 .. now /\ cache[c].cachedAt \in 0 .. now /\ now \in Nat
      /\ now - cache[c].cachedAt < TTL /\ cache[c].cachedAt <= cache[c].at + RpcTimeout
  BY <1>1, Constants DEF CachedKeys, Cached, Inv, TypeOK, Punctual
<1>4. now - cache[c].at \in 0 .. now /\ now - cache[c].at < TTL + RpcTimeout
  BY <1>3, Constants
<1>5. FreshResult(r)
  BY <1>3, <1>4 DEF FreshResult, ResType, RemoteList, Result
<1>6. WithKeys(t, call[t].op, c, call[t].begun, r)
  BY DEF CachedKeys
<1> HIDE DEF r, c
<1>7. \E k : Quiet(k) /\ call' = [call EXCEPT ![t] = k] /\ FreshResult(res')
  BY <1>1, <1>2, <1>5, <1>6, WithKeysQuiet
<1> QED BY <1>1, <1>7, QuietStep

\* A refresh ends with an answer: it arrived in time and is given out at once.
LEMMA ArrivesStep == ASSUME Inv, NEW t \in Threads, ListArrives(t) PROVE Inv'
<1>1. PICK l \in call[t].answer :
         /\ cache' = [cache EXCEPT ![call[t].cl] = Cache(l.certs, now, l.at)]
         /\ WithKeys(t, call[t].op, call[t].cl, call[t].begun,
                     RemoteList(l.certs, l.at, call[t].begun))
  BY DEF ListArrives
<1>2. /\ call[t].pc = "list" /\ mu' = [mu EXCEPT ![call[t].cl] = Free]
      /\ UNCHANGED <<serverVars, global, built, open>>
  BY DEF ListArrives
<1>3. /\ call[t].cl \in 1 .. built /\ call[t].op \in Ops \cup {"none"}
      /\ call[t].begun \in 0 .. now /\ call[t].deadline \in Nat /\ now \in Nat
      /\ l.certs \in SUBSET Certs /\ l.at \in 0 .. now
  <2>1. TypeOK /\ call[t] \in CallType /\ now \in Nat
    BY Constants DEF Inv, TypeOK, CallType
  <2>2. l \in [certs : SUBSET Certs, at : 0 .. now]
    BY <1>1, <2>1 DEF CallType
  <2> QED BY <1>2, <2>1, <2>2, HasClient DEF CallType
<1>4. /\ call[t].begun <= l.at /\ now <= call[t].deadline
      /\ call[t].deadline <= l.at + RpcTimeout
  BY <1>1 DEF Inv, InFlight
<1>5. /\ now - l.at \in 0 .. now /\ now - l.at < TTL + RpcTimeout
      /\ ~(l.at < call[t].begun) /\ now <= l.at + RpcTimeout /\ l.at <= now
  BY <1>3, <1>4, Constants
<1>6. FreshResult(RemoteList(l.certs, l.at, call[t].begun))
  <2>1. (l.at < call[t].begun) = FALSE
    BY <1>3, <1>5
  <2>2. RemoteList(l.certs, l.at, call[t].begun)
           = Result("list", l.certs, "remote", now - l.at, FALSE)
    BY <2>1, Zenon DEF RemoteList
  <2>3. FreshResult(Result("list", l.certs, "remote", now - l.at, FALSE))
    BY <1>3, <1>5 DEF FreshResult, ResType, Result
  <2> QED BY <2>2, <2>3
<1>7. PICK k : Quiet(k) /\ call' = [call EXCEPT ![t] = k] /\ FreshResult(res')
  BY <1>1, <1>3, <1>6, WithKeysQuiet
<1>8. PICK w : w = Cache(l.certs, now, l.at)
  OBVIOUS
<1>9. /\ w \in [certs : SUBSET Certs, cachedAt : 0 .. now, at : 0 .. now]
      /\ w.at <= w.cachedAt /\ w.cachedAt <= w.at + RpcTimeout
  BY <1>3, <1>5, <1>8 DEF Cache
<1>10. cache' = [cache EXCEPT ![call[t].cl] = w]
  BY <1>1, <1>8
<1> QED BY <1>2, <1>7, <1>9, <1>10, RefreshEnds

\* A refresh fails: the list stays as it is.
LEMMA FailsStep == ASSUME Inv, NEW t \in Threads, ListFails(t) PROVE Inv'
<1>1. /\ call[t].pc = "list" /\ mu' = [mu EXCEPT ![call[t].cl] = Free]
      /\ UNCHANGED <<serverVars, global, built, open, cache>>
      /\ call' = [call EXCEPT ![t] = Idle] /\ res' = Failed
  BY DEF ListFails, Return
<1>2. PICK w : w = cache[call[t].cl]
  OBVIOUS
<1>3. call[t].cl \in Clients
  BY <1>1, HasClient DEF Inv
<1>4. /\ w \in [certs : SUBSET Certs, cachedAt : 0 .. now, at : 0 .. now]
      /\ w.at <= w.cachedAt /\ w.cachedAt <= w.at + RpcTimeout
  BY <1>2, <1>3 DEF Inv, TypeOK, Punctual
<1>5. cache' = [cache EXCEPT ![call[t].cl] = w]
  BY <1>1, <1>2, <1>3 DEF Inv, TypeOK
<1>6. Quiet(Idle) /\ FreshResult(res')
  BY <1>1, IdleQuiet, PlainResults DEF Inv
<1> QED BY <1>1, <1>4, <1>5, <1>6, RefreshEnds

-----------------------------------------------------------------------------
\* The invariant holds before the first call.
LEMMA InvInit == Init => Inv
<1> SUFFICES ASSUME Init PROVE Inv
  OBVIOUS
<1>1. TypeOK
  BY Constants DEF Init, TypeOK, Cache, Idle, In, NoResult, Result
<1>2. OneConnection /\ MutexHeld
  BY Constants DEF Init, OneConnection, MutexHeld, Idle, In, Clients
<1>3. InFlight /\ Punctual /\ ListIsFresh
  BY Constants DEF Init, InFlight, Punctual, ListIsFresh, Idle, In, Cache, NoResult, Result
<1> QED BY <1>1, <1>2, <1>3 DEF Inv

\* Every step keeps the invariant.
LEMMA InvStep == Inv /\ [Next]_vars => Inv'
<1> SUFFICES ASSUME Inv, [Next]_vars PROVE Inv'
  OBVIOUS
<1>1. CASE UNCHANGED vars
  BY <1>1 DEF vars, serverVars, clientVars, Inv, TypeOK, OneConnection, MutexHeld,
              InFlight, Punctual, ListIsFresh
<1>2. CASE Tick \/ ServerChanges
  BY <1>2, EnvironmentStep
<1>3. ASSUME NEW t \in Threads, Call(t) PROVE Inv'
  BY <1>3, GlobalSteps, CallSteps DEF Call
<1>4. ASSUME NEW t \in Threads, Lock(t) PROVE Inv'
  BY <1>4, CachedStep, RefreshBegins DEF Lock
<1>5. ASSUME NEW t \in Threads, ListCertificates(t) PROVE Inv'
  BY <1>5, Answered
<1>6. ASSUME NEW t \in Threads, Proceed(t) PROVE Inv'
  BY <1>6, GlobalSteps, SignSteps, ArrivesStep, FailsStep DEF Proceed
<1> QED BY <1>1, <1>2, <1>3, <1>4, <1>5, <1>6 DEF Next

\* The inductive invariant holds in every reachable state.
THEOREM Invariance == Spec => []Inv
BY InvInit, InvStep, PTL DEF Spec

\* Threads, clients, cached lists and the clock keep their types, also when a
\* client is replaced or shut down between the halves of tpmcert_init.
THEOREM Typing == Spec => []TypeOK
<1>1. Inv => TypeOK
  BY DEF Inv
<1> QED BY <1>1, Invariance, PTL

(***************************************************************************)
(* However the threads interleave tpmcert_init, its failing ping and       *)
(* tpmcert_shutdown, the global client is the one with an open connection. *)
(***************************************************************************)
THEOREM NoLeakedConnection == Spec => []OneConnection
<1>1. Inv => OneConnection
  BY DEF Inv
<1> QED BY <1>1, Invariance, PTL

(***************************************************************************)
(* Client.mu is held exactly during a refresh, by the thread that does it. *)
(***************************************************************************)
THEOREM OneRefreshAtATime == Spec => []MutexHeld
<1>1. Inv => MutexHeld
  BY DEF Inv
<1> QED BY <1>1, Invariance, PTL

(***************************************************************************)
(* AllKeys gives out no list older than listCacheTTL and an RPC together,  *)
(* and no empty list from before the call.                                 *)
(***************************************************************************)
THEOREM FreshLists == Spec => []ListIsFresh
<1>1. Inv => ListIsFresh
  BY DEF Inv
<1> QED BY <1>1, Invariance, PTL

\* Only the arrival of an answer changes a cached list, to a later one.
LEMMA LaterList ==
  ASSUME Inv, [Next]_vars
  PROVE  [\A c \in Clients : cache'[c].at >= cache[c].at]_vars
<1>1. ASSUME UNCHANGED cache PROVE \A c \in Clients : cache'[c].at >= cache[c].at
  BY <1>1 DEF Inv, TypeOK
<1>2. ASSUME NEW t \in Threads, ListArrives(t)
      PROVE  \A c \in Clients : cache'[c].at >= cache[c].at
  <2>1. PICK l \in call[t].answer :
           cache' = [cache EXCEPT ![call[t].cl] = Cache(l.certs, now, l.at)]
    BY <1>2 DEF ListArrives
  <2>2. cache[call[t].cl].at <= l.at
    BY <2>1 DEF Inv, InFlight
  <2>3. \A c \in Clients : cache'[c].at = IF c = call[t].cl THEN l.at ELSE cache[c].at
    BY <2>1 DEF Inv, TypeOK, Cache
  <2>4. call[t].cl \in Clients /\ call[t] \in CallType
    BY <1>2, HasClient DEF ListArrives, Inv, TypeOK, CallType
  <2>5. l.at \in Nat /\ \A c \in Clients : cache[c].at \in Nat
    BY <2>1, <2>4, Constants DEF Inv, TypeOK, CallType
  <2> QED BY <2>2, <2>3, <2>5
<1>3. ASSUME Next PROVE UNCHANGED cache \/ \E t \in Threads : ListArrives(t)
  BY <1>3 DEF Next, Tick, ServerChanges, Call, Lock, ListCertificates, Proceed,
              InitGlobal, ShutdownGlobal, NoClient, InstalledKeys, AllKeys, SignHashDirect,
              CachedKeys, RequestList, Global, Ping, PingFails, ListFails, Signed, SignFails,
              clientVars
<1> QED BY <1>1, <1>2, <1>3 DEF vars, clientVars

(***************************************************************************)
(* A client's list only ever moves on to a later answer of the server.     *)
(***************************************************************************)
THEOREM ListsMoveOn == Spec => NeverAnOlderList
BY Invariance, LaterList, PTL DEF Spec, NeverAnOlderList
=============================================================================
