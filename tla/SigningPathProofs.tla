-------------------------- MODULE SigningPathProofs --------------------------
(***************************************************************************)
(* Two specifications with different variables.  SigningPath: whatever the *)
(* lengths, keys and headers, a signature is one its mechanism permits     *)
(* (SignedAsPermitted), and a conforming call is not refused               *)
(* (ConformingIsSigned); the invariants say what each stage knows.         *)
(* KeyBridge: for any number of threads and keys and any changes of the    *)
(* list, what an enumeration lists, frees and signs with, and that a ready *)
(* library has a client; the invariant follows each thread through its     *)
(* call and counts the threads that start the bridge.                      *)
(***************************************************************************)
EXTENDS SigningPath, KeyBridge, SigningInputProofs, SequenceTheorems, FiniteSetTheorems

\* What the three stages have established so far.
StageInv ==
  /\ call \in Calls
  /\ stage \in {"sign", "rpc"} => mech_ok_for_type(call.mech, KType)
  /\ stage = "rpc" =>
       /\ x.ok
       /\ x = BuildDigest(ksp_mechs[call.mech].digest_mech, ksp_mechs[call.mech].md,
                          ksp_mechs[call.mech].pss, InitHashAlg(call.mech, call.par),
                          KType, call.in)

IInv == StageInv /\ SignedAsPermitted

\* A call has a known mechanism, parameter and kind of key.
LEMMA CallFacts ==
  ASSUME NEW c \in Calls
  PROVE  c.mech \in MechType /\ c.par \in PssParam /\ c.kind \in KeyKind
<1>1. c \in [mech : MechType, par : PssParam, kind : Kinds, in : Inputs]
  BY DEF Calls
<1>2. QED
  BY <1>1, SigningPathAssumption

\* No stage breaks the invariant; only the last one gives a signature.
LEMMA StageStep == IInv /\ [PathNext]_pathVars => IInv'
<1>1. SUFFICES ASSUME IInv, [PathNext]_pathVars PROVE IInv'
  OBVIOUS
<1>2. CASE SignInit
  BY <1>1, <1>2 DEF IInv, StageInv, SignedAsPermitted, SignInit, KType
<1>3. CASE Extract
  BY <1>1, <1>3 DEF IInv, StageInv, SignedAsPermitted, Extract, KType
<1>4. CASE Serve
  <2>1. call.mech \in MechType /\ call.par \in PssParam /\ call.kind \in KeyKind
    BY <1>1, CallFacts DEF IInv, StageInv
  <2>2. SignHash("key", call.kind, Request(x, ksp_mechs[call.mech].pss))
           \subseteq Permitted("key", call.mech, call.par, call.in)
    BY <1>1, <1>4, <2>1, ServedAsPermitted DEF IInv, StageInv, Serve, KType
  <2>3. QED
    BY <1>1, <1>4, <2>2 DEF IInv, StageInv, SignedAsPermitted, Serve, KType
<1>5. CASE UNCHANGED pathVars
  BY <1>1, <1>5 DEF IInv, StageInv, SignedAsPermitted, pathVars, KType
<1>6. QED
  BY <1>1, <1>2, <1>3, <1>4, <1>5 DEF PathNext

(***************************************************************************)
(* Whatever the input, a signature that comes back from C_SignInit, C_Sign *)
(* and the server is one the mechanism permits.                            *)
(***************************************************************************)
THEOREM PathSignsAsPermitted == PathSpec => []SignedAsPermitted
<1>1. PathInit => IInv
  BY DEF PathInit, IInv, StageInv, SignedAsPermitted
<1>2. IInv => SignedAsPermitted
  BY DEF IInv
<1>3. QED
  BY <1>1, <1>2, StageStep, PTL DEF PathSpec

-----------------------------------------------------------------------------
\* A call that has to be signed: a mechanism of the key's type, and a message
\* to be hashed or a bare digest of a hash that the parameters allow.
Conforming(c) ==
  /\ c.kind # "other"
  /\ mech_ok_for_type(c.mech, parse_cert_pubkey(c.kind))
  /\ \/ ksp_mechs[c.mech].digest_mech = 1
     \/ \E h \in HashAlg : /\ c.in.len = DigestSize(h)
                           /\ ksp_mechs[c.mech].pss = 1 => ParamAllows(c.par, h)

\* The three digests fit the buffer, and their length tells their hash.
LEMMA DigestLengths ==
  ASSUME NEW h \in HashAlg
  PROVE  /\ DigestSize(h) \in {32, 48, 64} /\ DigestSize(h) > 0 /\ ~(DigestSize(h) > DigestCap)
         /\ hash_alg_from_len(DigestSize(h)) = h
BY DEF HashAlg, DigestSize, hash_alg_from_len, DigestCap

\* The hash that C_SignInit takes from the parameters is the one they allow.
LEMMA ParamFixes ==
  ASSUME NEW mech \in MechType, NEW par \in PssParam, NEW h \in HashAlg,
         ksp_mechs[mech].digest_mech = 0, ksp_mechs[mech].pss = 1, ParamAllows(par, h),
         InitHashAlg(mech, par) # 0
  PROVE  InitHashAlg(mech, par) = h
BY DEF InitHashAlg, ParamAllows

\* do_sign extracts a digest of the size of its hash.
LEMMA ConformingExtracted ==
  ASSUME NEW c, c.mech \in MechType, c.par \in PssParam, c.kind \in KeyKind, Conforming(c),
         NEW d, d = BuildDigest(ksp_mechs[c.mech].digest_mech, ksp_mechs[c.mech].md,
                                ksp_mechs[c.mech].pss, InitHashAlg(c.mech, c.par),
                                parse_cert_pubkey(c.kind), c.in)
  PROVE  d.ok /\ d.alg \in HashAlg /\ d.len = DigestSize(d.alg)
<1> DEFINE m == ksp_mechs[c.mech]
<1> DEFINE g == InitHashAlg(c.mech, c.par)
<1>1. ASSUME NEW dg, NEW l, NEW a
      PROVE  /\ Extracted(dg, l, a).ok /\ Extracted(dg, l, a).len = l
             /\ Extracted(dg, l, a).alg = a
  BY DEF Extracted
<1>2. /\ m.digest_mech \in 0 .. 1 /\ m.pss \in 0 .. 1
      /\ m.digest_mech = 1 => m.md \in HashAlg
  BY MechTable
<1>3. CASE m.digest_mech = 1
  <2>1. d = Extracted(Hashed(c.in, m.md), DigestSize(m.md), g)
    BY <1>3 DEF BuildDigest
  <2>2. g = m.md
    BY <1>3, InitHash
  <2> QED BY <1>1, <1>2, <1>3, <2>1, <2>2
<1>4. CASE m.digest_mech = 0
  <2>1. PICK h \in HashAlg : c.in.len = DigestSize(h) /\ (m.pss = 1 => ParamAllows(c.par, h))
    BY <1>4 DEF Conforming
  <2>2. /\ c.in.len \in {32, 48, 64} /\ ~(c.in.len > DigestCap)
        /\ hash_alg_from_len(c.in.len) = h
    BY <2>1, DigestLengths
  <2>3. CASE m.pss = 1 \/ parse_cert_pubkey(c.kind) = "CKK_EC"
    <3>1. d = Extracted(Whole(c.in), c.in.len,
                        IF m.pss = 1 /\ g # 0 THEN g ELSE hash_alg_from_len(c.in.len))
      BY <1>4, <2>2, <2>3 DEF BuildDigest
    <3>2. m.pss = 1 /\ g # 0 => g = h
      BY <1>4, <2>1, ParamFixes
    <3>3. d = Extracted(Whole(c.in), c.in.len, h)
      BY <2>2, <3>1, <3>2
    <3> QED BY <1>1, <2>1, <3>3
  <2>4. CASE ~(m.pss = 1 \/ parse_cert_pubkey(c.kind) = "CKK_EC")
    <3>1. d = parse_digest_info(c.in)
      BY <1>4, <2>4 DEF BuildDigest
    <3>2. d = Extracted(Whole(c.in), c.in.len, hash_alg_from_len(c.in.len))
      BY <2>2, <3>1 DEF parse_digest_info
    <3>3. d = Extracted(Whole(c.in), c.in.len, h)
      BY <2>2, <3>2
    <3> QED BY <1>1, <2>1, <3>3
  <2> QED BY <2>3, <2>4
<1> QED BY <1>2, <1>3, <1>4

\* The server signs a digest of the size of its hash for a key of the type.
LEMMA ConformingServed ==
  ASSUME NEW c, c.mech \in MechType, c.par \in PssParam, c.kind \in KeyKind, Conforming(c),
         NEW d, d.alg \in HashAlg, d.len = DigestSize(d.alg)
  PROVE  SignHash("key", c.kind, Request(d, ksp_mechs[c.mech].pss)) # {}
<1> DEFINE pss == ksp_mechs[c.mech].pss
<1>1. /\ Request(d, pss).alg = d.alg /\ Request(d, pss).len = d.len
      /\ Request(d, pss).padding = PaddingInt(pss)
  BY DEF Request
<1>2. protoHashToCertstore(HashAlgFromInt(d.alg)) = d.alg
  BY HashRoundTrip
<1>3. d.alg # 0 /\ d.len > 0
  BY DigestLengths DEF HashAlg
<1>4. Scheme(c.kind, PaddingFromInt(PaddingInt(pss))) # "none"
  <2>1. CASE c.kind = "RSA"
    BY <2>1 DEF Scheme
  <2>2. CASE c.kind = "EC"
    <3>1. c.mech \in EcMechs
      BY <2>2 DEF Conforming, mech_ok_for_type, parse_cert_pubkey
    <3>2. pss = 0
      BY <3>1, MechTable
    <3>3. PaddingFromInt(PaddingInt(pss)) = "PKCS1"
      BY <3>2 DEF PaddingFromInt, PaddingInt
    <3> QED BY <2>2, <3>3 DEF Scheme
  <2> QED BY <2>1, <2>2 DEF Conforming, KeyKind
<1> QED BY <1>1, <1>2, <1>3, <1>4 DEF SignHash

\* No stage refuses such a call.
LEMMA ConformingStep ==
  ASSUME StageInv, ConformingIsSigned, [PathNext]_pathVars
  PROVE  ConformingIsSigned'
<1>1. ConformingIsSigned <=> (Conforming(call) => stage # "refused")
  BY DEF ConformingIsSigned, Conforming
<1>2. call' = call
  BY DEF PathNext, SignInit, Extract, Serve, pathVars
<1>3. ConformingIsSigned' <=> (Conforming(call) => stage' # "refused")
  BY <1>2 DEF ConformingIsSigned, Conforming
<1>4. SUFFICES ASSUME Conforming(call) PROVE stage' # "refused"
  BY <1>3
<1>5. stage # "refused"
  BY <1>1, <1>4
<1>6. call.mech \in MechType /\ call.par \in PssParam /\ call.kind \in KeyKind
  BY CallFacts DEF StageInv
<1>7. CASE SignInit
  BY <1>4, <1>7 DEF SignInit, Conforming, KType
<1>8. CASE Extract
  <2>1. x'.ok
    BY <1>4, <1>6, <1>8, ConformingExtracted DEF Extract, KType
  <2> QED BY <1>8, <2>1 DEF Extract
<1>9. CASE Serve
  <2>1. x = BuildDigest(ksp_mechs[call.mech].digest_mech, ksp_mechs[call.mech].md,
                        ksp_mechs[call.mech].pss, InitHashAlg(call.mech, call.par),
                        parse_cert_pubkey(call.kind), call.in)
    BY <1>9 DEF StageInv, Serve, KType
  <2>2. x.alg \in HashAlg /\ x.len = DigestSize(x.alg)
    BY <1>4, <1>6, <2>1, ConformingExtracted
  <2>3. SignHash("key", call.kind, Request(x, ksp_mechs[call.mech].pss)) # {}
    BY <1>4, <1>6, <2>2, ConformingServed
  <2> QED BY <1>9, <2>3 DEF Serve
<1>10. CASE UNCHANGED pathVars
  BY <1>5, <1>10 DEF pathVars
<1> QED BY <1>7, <1>8, <1>9, <1>10 DEF PathNext

(***************************************************************************)
(* No digest of a supported hash is lost on the way: C_SignInit, do_sign   *)
(* and the server refuse no call of a mechanism of the key's type with a   *)
(* message to hash or a bare digest that the parameters allow.             *)
(***************************************************************************)
THEOREM PathSignsConforming == PathSpec => []ConformingIsSigned
<1>1. PathInit => IInv /\ ConformingIsSigned
  BY DEF PathInit, IInv, StageInv, SignedAsPermitted, ConformingIsSigned
<1>2. IInv /\ ConformingIsSigned /\ [PathNext]_pathVars => IInv' /\ ConformingIsSigned'
  BY StageStep, ConformingStep DEF IInv
<1> QED BY <1>1, <1>2, PTL DEF PathSpec

-----------------------------------------------------------------------------
(***************************************************************************)
(* The C interface and the libraries above it                              *)
(***************************************************************************)
\* A thread has its eleven fields.
ThreadFrame(s) ==
  s = [pc |-> s.pc, n |-> s.n, i |-> s.i, state |-> s.state, names |-> s.names,
       missed |-> s.missed, info |-> s.info, keys |-> s.keys, key |-> s.key, seen |-> s.seen,
       result |-> s.result]

Enumerating(s) == s.pc \in {"get", "copy", "listing"}

\* An enumeration is within its count, and has listed at most one key for each
\* index it has passed.  KSPEnumKeys asks for a key only if there is one more.
WithinCount(s, h) ==
  Enumerating(s) =>
    /\ s.n \in Nat /\ s.i \in Nat /\ s.i <= s.n
    /\ s.names \in Seq(Keys) /\ Len(s.names) <= s.i
    /\ s.pc = "copy" \/ (s.pc = "get" /\ h = "ksp") => s.i < s.n
    /\ s.pc = "listing" => h = "ksp"

\* What it has listed was installed at some time; if nothing has changed and no
\* key failed, it is the list so far.
ListedSoFar(s, l) ==
  Enumerating(s) =>
    /\ \A j \in DOMAIN s.names : \E m \in s.seen : In(s.names[j], m)
    /\ s.missed = FALSE /\ s.seen = {l} =>
         /\ s.n = Len(l) /\ Len(s.names) = s.i
         /\ \A j \in 1 .. s.i : s.names[j] = l[j]

\* A key info is held only while it is copied; it is that of a key that was
\* installed, and of the next one if nothing has changed.
InfoHeld(s, l) ==
  /\ s.pc \notin {"copy", "create"} => s.info = {}
  /\ s.pc = "copy" =>
       \E k \in Keys : /\ s.info = {k}
                       /\ \E m \in s.seen : In(k, m)
                       /\ s.missed = FALSE /\ s.seen = {l} => k = l[s.i + 1]

\* A call knows every list there has been since it began.
Watching(s, l) ==
  /\ IsFiniteSet(s.seen)
  /\ s.pc \in {"count", "get", "copy", "listing", "set", "sign", "signed"} => l \in s.seen

\* A key to sign with was installed when the call began.
SignsInstalled(s, h) ==
  s.pc \in {"sign", "signed"} /\ h # "ksp11" => \A k \in s.key : \E m \in s.seen : In(k, m)

Sound(s, h, l) ==
  /\ ThreadFrame(s)
  /\ WithinCount(s, h)
  /\ ListedSoFar(s, l)
  /\ InfoHeld(s, l)
  /\ s.state = FALSE \/ (Enumerating(s) /\ h = "ksp")
  /\ Watching(s, l)
  /\ SignsInstalled(s, h)

EnumInv ==
  /\ installed \in Lists
  /\ thread = [t \in Threads |-> thread[t]]
  /\ \A t \in Threads : Sound(thread[t], host, installed)

\* Starting the bridge; in C_Initialize that includes the object table.
Starting(s) ==
  \/ s.pc \in {"init", "global", "set"}
  \/ host = "ksp11" /\ s.pc \in {"count", "get", "copy"}

\* One thread starts the bridge, nobody is ready before it ends, and the client
\* is there from tpmcert_init on.
OneStarts ==
  /\ \A t, u \in Threads : Starting(thread[t]) /\ Starting(thread[u]) => t = u
  /\ \A t \in Threads : Starting(thread[t]) => ready = FALSE
  /\ \A t \in Threads : Starting(thread[t]) /\ thread[t].pc # "init" => client = TRUE
  /\ ready = TRUE => client = TRUE

ReadyInv ==
  /\ client \in BOOLEAN /\ ready \in BOOLEAN /\ overlap \in BOOLEAN
  /\ host \in {"ksp", "ksp11"} => overlap = TRUE \/ OneStarts

BridgeInv == EnumInv /\ ReadyInv

-----------------------------------------------------------------------------
\* A step of one thread, which leaves the list and the host alone.
StepTo(t, u) == thread' = [thread EXCEPT ![t] = u] /\ host' = host /\ installed' = installed

LEMMA SetIsStep == ASSUME NEW t, NEW u, Set(t, u) PROVE StepTo(t, u)
BY DEF Set, StepTo, listVars

LEMMA EnumStep ==
  ASSUME EnumInv, NEW t \in Threads, NEW u, StepTo(t, u), Sound(u, host, installed)
  PROVE  EnumInv'
<1>1. thread' = [r \in Threads |-> thread'[r]]
  BY DEF EnumInv, StepTo
<1>2. \A r \in Threads : Sound(thread'[r], host, installed)
  BY DEF EnumInv, StepTo
<1>3. Lists' = Lists
  BY DEF Lists
<1>4. EnumInv' <=> /\ installed' \in Lists'
                   /\ thread' = [r \in Threads |-> thread'[r]]
                   /\ \A r \in Threads : Sound(thread'[r], host', installed')
  BY DEF EnumInv
<1> QED BY <1>1, <1>2, <1>3, <1>4 DEF EnumInv, StepTo

\* The thread goes on without a change of the bridge.
LEMMA ReadyKept ==
  ASSUME BridgeInv, NEW t \in Threads, NEW u, StepTo(t, u),
         client' = client \/ client' = TRUE, ready' = ready, overlap' = overlap,
         Starting(u) => Starting(thread[t]),
         Starting(u) /\ u.pc # "init" => thread[t].pc # "init" \/ client' = TRUE
  PROVE  ReadyInv'
<1>1. thread'[t] = u /\ \A r \in Threads : r # t => thread'[r] = thread[r]
  BY DEF BridgeInv, EnumInv, StepTo
<1>2. \A s : Starting(s)' <=> Starting(s)
  BY DEF Starting, StepTo
<1>3. ASSUME OneStarts PROVE OneStarts'
  <2>1. \A r \in Threads : Starting(thread'[r]) => Starting(thread[r])
    BY <1>1
  <2>2. \A r \in Threads : Starting(thread'[r]) /\ thread'[r].pc # "init" => client' = TRUE
    BY <1>1, <1>3 DEF OneStarts
  <2>3. OneStarts' <=>
          /\ \A p, q \in Threads : Starting(thread'[p]) /\ Starting(thread'[q]) => p = q
          /\ \A p \in Threads : Starting(thread'[p]) => ready' = FALSE
          /\ \A p \in Threads : Starting(thread'[p]) /\ thread'[p].pc # "init" => client' = TRUE
          /\ ready' = TRUE => client' = TRUE
    BY DEF OneStarts, Starting, StepTo
  <2> QED BY <1>3, <2>1, <2>2, <2>3 DEF OneStarts
<1> QED BY <1>3 DEF BridgeInv, ReadyInv, StepTo

\* A thread that has started the bridge, or failed to: nobody else is starting
\* it.
LEMMA ReadyEnds ==
  ASSUME BridgeInv, NEW t \in Threads, NEW u, StepTo(t, u),
         client' \in BOOLEAN, ready' \in BOOLEAN, overlap' = overlap,
         Starting(thread[t]), ~Starting(u),
         host \in {"ksp", "ksp11"} /\ overlap # TRUE /\ ready' = TRUE => client' = TRUE
  PROVE  ReadyInv'
<1>1. thread'[t] = u /\ \A r \in Threads : r # t => thread'[r] = thread[r]
  BY DEF BridgeInv, EnumInv, StepTo
<1>2. ASSUME OneStarts, host \in {"ksp", "ksp11"}, overlap # TRUE PROVE OneStarts'
  <2>1. \A r \in Threads : ~Starting(thread'[r])
    BY <1>1, <1>2 DEF OneStarts
  <2>2. OneStarts' <=>
          /\ \A p, q \in Threads : Starting(thread'[p]) /\ Starting(thread'[q]) => p = q
          /\ \A p \in Threads : Starting(thread'[p]) => ready' = FALSE
          /\ \A p \in Threads : Starting(thread'[p]) /\ thread'[p].pc # "init" => client' = TRUE
          /\ ready' = TRUE => client' = TRUE
    BY DEF OneStarts, Starting, StepTo
  <2> QED BY <1>2, <2>1, <2>2
<1> QED BY <1>2 DEF BridgeInv, ReadyInv, StepTo

\* The ends of a call.
LEMMA DoneFields ==
  ASSUME NEW s, ThreadFrame(s), NEW r, NEW u, u = Done(s, r)
  PROVE  /\ ThreadFrame(u) /\ u.pc = "idle" /\ u.info = s.info /\ u.state = s.state
         /\ u.seen = {} /\ u.keys = s.keys
BY DEF Done, ThreadFrame

LEMMA ToFields ==
  ASSUME NEW s, ThreadFrame(s), NEW p, NEW u, u = To(s, p)
  PROVE  /\ ThreadFrame(u) /\ u.pc = p /\ u.info = s.info /\ u.state = s.state
         /\ u.seen = s.seen /\ u.n = s.n /\ u.i = s.i /\ u.names = s.names
         /\ u.missed = s.missed /\ u.key = s.key
BY DEF To, ThreadFrame

\* An idle thread without an info and a state is as it should be.
LEMMA IdleSound ==
  ASSUME NEW u, ThreadFrame(u), u.pc = "idle", u.info = {}, u.state = FALSE, u.seen = {},
         NEW h, NEW l
  PROVE  Sound(u, h, l)
<1>1. IsFiniteSet(u.seen)
  BY FS_EmptySet
<1> QED
  BY <1>1 DEF Sound, WithinCount, ListedSoFar, InfoHeld, Watching, SignsInstalled, Enumerating

LEMMA DoneSound ==
  ASSUME NEW s, ThreadFrame(s), s.info = {}, s.state = FALSE, NEW r, NEW h, NEW l
  PROVE  Sound(Done(s, r), h, l)
<1>1. PICK u : u = Done(s, r)
  OBVIOUS
<1> QED BY <1>1, DoneFields, IdleSound

\* No key is listed yet, or one is being signed with.
LEMMA OutsideSound ==
  ASSUME NEW u, NEW h, NEW l, ThreadFrame(u), u.info = {} \/ u.pc = "create", u.state = FALSE,
         ~Enumerating(u), IsFiniteSet(u.seen),
         l \in u.seen \/ u.pc \in {"idle", "init", "global", "create"},
         u.pc \in {"sign", "signed"} /\ h # "ksp11" => \A k \in u.key : \E m \in u.seen : In(k, m)
  PROVE  Sound(u, h, l)
BY DEF Sound, WithinCount, ListedSoFar, InfoHeld, Watching, SignsInstalled, Enumerating

\* Hosts without a flag for others to rely on.
LEMMA ReadyOther ==
  ASSUME host \notin {"ksp", "ksp11"}, host' = host,
         client' \in BOOLEAN, ready' \in BOOLEAN, overlap' \in BOOLEAN
  PROVE  ReadyInv'
BY DEF ReadyInv

\* What is known of a thread that does not enumerate.
LEMMA OutsideFacts ==
  ASSUME BridgeInv, NEW t \in Threads, ~Enumerating(thread[t])
  PROVE  /\ ThreadFrame(thread[t]) /\ thread[t].state = FALSE /\ IsFiniteSet(thread[t].seen)
         /\ thread[t].pc # "create" => thread[t].info = {}
BY DEF BridgeInv, EnumInv, Sound, InfoHeld, Watching, Enumerating

-----------------------------------------------------------------------------
\* The start of the bridge: another thread that is starting it makes an overlap.
LEMMA EnsureBridgeStep ==
  ASSUME BridgeInv, NEW t \in Threads, EnsureBridge(t)
  PROVE  BridgeInv'
<1>1. PICK s : s = thread[t]
  OBVIOUS
<1>2. s.pc = "idle" /\ ~Enumerating(s)
  BY <1>1 DEF EnsureBridge, At, Enumerating
<1>3. ThreadFrame(s) /\ s.state = FALSE /\ IsFiniteSet(s.seen) /\ s.info = {}
  BY <1>1, <1>2, OutsideFacts
<1>4. client \in BOOLEAN /\ ready \in BOOLEAN /\ overlap \in BOOLEAN
  BY DEF BridgeInv, ReadyInv
<1>5. CASE Set(t, Done(s, "ok")) /\ UNCHANGED bridgeVars
  <2>1. PICK u : u = Done(s, "ok")
    OBVIOUS
  <2>2. Sound(u, host, installed) /\ u.pc = "idle"
    BY <1>3, <2>1, DoneSound, DoneFields
  <2>3. StepTo(t, u)
    BY <1>5, <2>1, SetIsStep
  <2>4. ~Starting(u)
    BY <2>2 DEF Starting
  <2>5. ReadyInv'
    BY <1>5, <2>3, <2>4, ReadyKept DEF bridgeVars
  <2> QED BY <2>2, <2>3, <2>5, EnumStep DEF BridgeInv
<1>6. CASE /\ ~(ready /\ host # "app")
           /\ Set(t, To(s, "init"))
           /\ overlap' = (overlap \/ \E u \in Threads : Initializing(u))
           /\ UNCHANGED <<client, ready>>
  <2>1. PICK u : u = To(s, "init")
    OBVIOUS
  <2>2. /\ ThreadFrame(u) /\ u.pc = "init" /\ u.info = {} /\ u.state = FALSE
        /\ IsFiniteSet(u.seen)
    BY <1>3, <2>1, ToFields
  <2>3. Sound(u, host, installed)
    BY <2>2, OutsideSound DEF Enumerating
  <2>4. StepTo(t, u)
    BY <1>6, <2>1, SetIsStep
  <2>5. thread'[t] = u /\ \A r \in Threads : r # t => thread'[r] = thread[r]
    BY <2>4 DEF BridgeInv, EnumInv, StepTo
  <2>6. ASSUME host \in {"ksp", "ksp11"}, overlap' # TRUE PROVE OneStarts'
    <3>1. ready = FALSE
      BY <1>4, <1>6, <2>6
    <3>2. \A r \in Threads : ~Initializing(r)
      BY <1>4, <1>6, <2>6
    <3>3. \A r \in Threads : ~Starting(thread[r])
      <4>1. CASE host = "ksp"
        BY <3>2, <4>1 DEF Starting, Initializing
      <4>2. CASE host = "ksp11"
        <5>1. \A r \in Threads : thread[r].pc = "idle"
          BY <4>2 DEF EnsureBridge, At
        <5> QED BY <5>1 DEF Starting
      <4> QED BY <2>6, <4>1, <4>2
    <3>4. \A r \in Threads : Starting(thread'[r]) => r = t
      BY <2>5, <3>3
    <3>5. thread'[t].pc = "init"
      BY <2>2, <2>5
    <3>6. ready' = FALSE
      BY <1>6, <3>1
    <3>7. OneStarts' <=>
            /\ \A p, q \in Threads : Starting(thread'[p]) /\ Starting(thread'[q]) => p = q
            /\ \A p \in Threads : Starting(thread'[p]) => ready' = FALSE
            /\ \A p \in Threads : Starting(thread'[p]) /\ thread'[p].pc # "init" => client' = TRUE
            /\ ready' = TRUE => client' = TRUE
      BY <2>4 DEF OneStarts, Starting, StepTo
    <3> QED BY <3>4, <3>5, <3>6, <3>7
  <2>7. client' \in BOOLEAN /\ ready' \in BOOLEAN /\ overlap' \in BOOLEAN
    BY <1>4, <1>6
  <2>8. ReadyInv'
    BY <2>4, <2>6, <2>7 DEF ReadyInv, StepTo
  <2> QED BY <2>3, <2>4, <2>8, EnumStep DEF BridgeInv
<1> QED BY <1>1, <1>5, <1>6 DEF EnsureBridge, Here

\* A start that fails ends it for this thread; unless there was an overlap
\* nobody is ready.
LEMMA InitFailsStep ==
  ASSUME BridgeInv, NEW t \in Threads, thread[t].pc \in {"init", "global"}, InitFails(t),
         client' \in BOOLEAN, overlap' = overlap
  PROVE  BridgeInv'
<1>1. PICK s : s = thread[t]
  OBVIOUS
<1>2. ThreadFrame(s) /\ s.state = FALSE /\ s.info = {}
  BY <1>1, OutsideFacts DEF Enumerating
<1>3. PICK u : u = Done(s, "error")
  OBVIOUS
<1>4. Sound(u, host, installed) /\ u.pc = "idle"
  <2>1. u.pc = "idle"
    BY <1>2, <1>3, DoneFields
  <2>2. Sound(u, host, installed)
    BY <1>2, <1>3, DoneSound
  <2> QED BY <2>1, <2>2
<1>5. StepTo(t, u) /\ ready' = (ready \/ host = "token")
  BY <1>1, <1>3, SetIsStep DEF InitFails, Here
<1>6. Starting(thread[t]) /\ ~Starting(u)
  BY <1>4 DEF Starting
<1>7. ready \in BOOLEAN /\ overlap \in BOOLEAN
  BY DEF BridgeInv, ReadyInv
<1>8. ready' \in BOOLEAN
  BY <1>5, <1>7
<1>9. host \in {"ksp", "ksp11"} /\ overlap # TRUE => ready' = FALSE
  <2>1. SUFFICES ASSUME host \in {"ksp", "ksp11"}, overlap # TRUE PROVE ready' = FALSE
    OBVIOUS
  <2>2. ready = FALSE
    BY <1>6, <2>1 DEF BridgeInv, ReadyInv, OneStarts
  <2> QED BY <1>5, <2>1, <2>2
<1>10. ReadyInv'
  BY <1>5, <1>6, <1>8, <1>9, ReadyEnds
<1> QED BY <1>4, <1>5, <1>10, EnumStep DEF BridgeInv

LEMMA InitGlobalStep ==
  ASSUME BridgeInv, NEW t \in Threads, InitGlobal(t)
  PROVE  BridgeInv'
<1>1. thread[t].pc = "init" /\ overlap' = overlap
  BY DEF InitGlobal, At
<1>2. client \in BOOLEAN
  BY DEF BridgeInv, ReadyInv
<1>3. CASE InitFails(t) /\ (client' = client \/ client' = FALSE)
  BY <1>1, <1>2, <1>3, InitFailsStep
<1>4. CASE Set(t, To(thread[t], "global")) /\ client' = TRUE /\ ready' = ready
  <2>1. PICK s : s = thread[t]
    OBVIOUS
  <2>2. ThreadFrame(s) /\ s.state = FALSE /\ s.info = {} /\ IsFiniteSet(s.seen)
    BY <1>1, <2>1, OutsideFacts DEF Enumerating
  <2>3. PICK u : u = To(s, "global")
    OBVIOUS
  <2>4. /\ ThreadFrame(u) /\ u.pc = "global" /\ u.info = {} /\ u.state = FALSE
        /\ IsFiniteSet(u.seen)
    BY <2>2, <2>3, ToFields
  <2>5. Sound(u, host, installed)
    BY <2>4, OutsideSound DEF Enumerating
  <2>6. StepTo(t, u)
    BY <1>4, <2>1, <2>3, SetIsStep
  <2>7. Starting(thread[t])
    BY <1>1 DEF Starting
  <2>8. ReadyInv'
    BY <1>1, <1>4, <2>6, <2>7, ReadyKept
  <2> QED BY <2>5, <2>6, <2>8, EnumStep DEF BridgeInv
<1> QED BY <1>3, <1>4 DEF InitGlobal, Here

LEMMA GlobalStep ==
  ASSUME BridgeInv, NEW t \in Threads, Global(t)
  PROVE  BridgeInv'
<1>1. thread[t].pc = "global" /\ client \in BOOLEAN
  BY DEF Global, At, BridgeInv, ReadyInv
<1>2. CASE InitFails(t) /\ (client' = client \/ client' = FALSE) /\ overlap' = overlap
  BY <1>1, <1>2, InitFailsStep
<1>3. CASE /\ Set(t, To([thread[t] EXCEPT !.seen = {installed}],
                        IF host \in {"ksp11", "app"} THEN "count" ELSE "set"))
           /\ UNCHANGED bridgeVars
  <2>1. PICK s, p : s = thread[t] /\ p = IF host \in {"ksp11", "app"} THEN "count" ELSE "set"
    OBVIOUS
  <2>2. ThreadFrame(s) /\ s.state = FALSE /\ s.info = {} /\ p \in {"count", "set"}
    BY <1>1, <2>1, OutsideFacts DEF Enumerating
  <2>3. PICK r : r = [s EXCEPT !.seen = {installed}]
    OBVIOUS
  <2>4. ThreadFrame(r) /\ r.state = FALSE /\ r.info = {} /\ r.seen = {installed}
    BY <2>2, <2>3 DEF ThreadFrame
  <2>5. PICK u : u = To(r, p)
    OBVIOUS
  <2>6. ThreadFrame(u) /\ u.pc = p /\ u.info = {} /\ u.state = FALSE /\ u.seen = {installed}
    BY <2>4, <2>5, ToFields
  <2>7. IsFiniteSet(u.seen)
    BY <2>6, FS_Singleton
  <2>8. Sound(u, host, installed)
    BY <2>2, <2>6, <2>7, OutsideSound DEF Enumerating
  <2>9. StepTo(t, u)
    BY <1>3, <2>1, <2>3, <2>5, SetIsStep
  <2>10. Starting(thread[t]) /\ thread[t].pc # "init"
    BY <1>1 DEF Starting
  <2>11. ReadyInv'
    BY <1>3, <2>9, <2>10, ReadyKept DEF bridgeVars
  <2> QED BY <2>8, <2>9, <2>11, EnumStep DEF BridgeInv
<1> QED BY <1>2, <1>3 DEF Global, Here

LEMMA SetReadyStep ==
  ASSUME BridgeInv, NEW t \in Threads, SetReady(t)
  PROVE  BridgeInv'
<1>1. PICK s : s = thread[t]
  OBVIOUS
<1>2. s.pc = "set" /\ ready' = TRUE /\ client' = client /\ overlap' = overlap
  BY <1>1 DEF SetReady, At
<1>3. ThreadFrame(s) /\ s.state = FALSE /\ s.info = {}
  BY <1>1, <1>2, OutsideFacts DEF Enumerating
<1>4. PICK u : u = Done(s, "ok")
  OBVIOUS
<1>5. Sound(u, host, installed) /\ u.pc = "idle"
  BY <1>3, <1>4, DoneSound, DoneFields
<1>6. StepTo(t, u)
  BY <1>1, <1>4, SetIsStep DEF SetReady, Here
<1>7. Starting(thread[t]) /\ ~Starting(u)
  BY <1>1, <1>2, <1>5 DEF Starting
<1>8. host \in {"ksp", "ksp11"} /\ overlap # TRUE => client = TRUE
  BY <1>1, <1>2, <1>7 DEF BridgeInv, ReadyInv, OneStarts
<1>9. client' \in BOOLEAN /\ ready' \in BOOLEAN
  BY <1>2 DEF BridgeInv, ReadyInv
<1>10. ReadyInv'
  BY <1>2, <1>6, <1>7, <1>8, <1>9, ReadyEnds
<1> QED BY <1>5, <1>6, <1>10, EnumStep DEF BridgeInv

\* Nobody is inside when the library is unloaded.
LEMMA DetachStep ==
  ASSUME BridgeInv, Detach
  PROVE  BridgeInv'
<1>1. /\ thread' = [t \in Threads |-> Start] /\ client' = FALSE /\ ready' = FALSE
      /\ overlap' = overlap /\ host' = host /\ installed' = installed
  BY DEF Detach, listVars
<1>2. /\ ThreadFrame(Start) /\ Start.pc = "idle" /\ Start.info = {} /\ Start.state = FALSE
      /\ Start.seen = {}
  BY DEF Start, ThreadFrame
<1>3. Sound(Start, host, installed)
  BY <1>2, IdleSound
<1>4. EnumInv'
  <2>1. Lists' = Lists
    BY DEF Lists
  <2>2. EnumInv' <=> /\ installed' \in Lists'
                     /\ thread' = [r \in Threads |-> thread'[r]]
                     /\ \A r \in Threads : Sound(thread'[r], host', installed')
    BY DEF EnumInv
  <2> QED BY <1>1, <1>3, <2>1, <2>2 DEF BridgeInv, EnumInv
<1>5. OneStarts'
  <2>1. \A r \in Threads : thread'[r].pc = "idle"
    BY <1>1, <1>2
  <2> QED BY <1>1, <2>1 DEF OneStarts, Starting
<1>6. client' \in BOOLEAN /\ ready' \in BOOLEAN /\ overlap' \in BOOLEAN
  BY <1>1 DEF BridgeInv, ReadyInv
<1> QED BY <1>4, <1>5, <1>6 DEF BridgeInv, ReadyInv

\* A step of a thread that was not and is not starting the bridge, or still is.
LEMMA ThreadStep ==
  ASSUME BridgeInv, NEW t \in Threads, NEW u, Set(t, u), Sound(u, host, installed),
         UNCHANGED bridgeVars,
         Starting(u) => Starting(thread[t]) /\ thread[t].pc # "init"
  PROVE  BridgeInv'
<1>1. StepTo(t, u)
  BY SetIsStep
<1>2. ReadyInv'
  BY <1>1, ReadyKept DEF bridgeVars
<1> QED BY <1>1, <1>2, EnumStep DEF BridgeInv

\* A call that ends.
LEMMA DoneStep ==
  ASSUME BridgeInv, NEW t \in Threads, NEW s, ThreadFrame(s), s.info = {}, s.state = FALSE,
         NEW r, Set(t, Done(s, r)), UNCHANGED bridgeVars
  PROVE  BridgeInv'
<1>1. PICK u : u = Done(s, r)
  OBVIOUS
<1>2. Sound(u, host, installed)
  BY <1>1, DoneSound
<1>3. u.pc = "idle"
  BY <1>1, DoneFields
<1>4. ~Starting(u)
  BY <1>3 DEF Starting
<1> QED BY <1>1, <1>2, <1>4, ThreadStep

LEMMA EnumKeysStep ==
  ASSUME BridgeInv, NEW t \in Threads, EnumKeys(t)
  PROVE  BridgeInv'
<1>1. PICK s : s = thread[t]
  OBVIOUS
<1>2. s.pc = "idle" /\ host \in {"ksp", "token"} /\ UNCHANGED bridgeVars
  BY <1>1 DEF EnumKeys, At
<1>3. ThreadFrame(s) /\ s.state = FALSE /\ s.info = {}
  BY <1>1, <1>2, OutsideFacts DEF Enumerating
<1>4. PICK u : u = [s EXCEPT !.pc = "count", !.seen = {installed}]
  OBVIOUS
<1>5. ThreadFrame(u) /\ u.pc = "count" /\ u.state = FALSE /\ u.info = {} /\ u.seen = {installed}
  BY <1>3, <1>4 DEF ThreadFrame
<1>6. IsFiniteSet(u.seen)
  BY <1>5, FS_Singleton
<1>7. Sound(u, host, installed)
  BY <1>5, <1>6, OutsideSound DEF Enumerating
<1>8. ~Starting(u)
  BY <1>2, <1>5 DEF Starting
<1>9. Set(t, u)
  BY <1>1, <1>4 DEF EnumKeys, Here
<1> QED BY <1>2, <1>7, <1>8, <1>9, ThreadStep

\* The length of a list.
LEMMA ListFacts ==
  ASSUME NEW l \in Lists
  PROVE  l \in Seq(Keys) /\ Len(l) \in Nat /\ \A j \in 1 .. Len(l) : l[j] \in Keys /\ In(l[j], l)
<1>1. PICK n \in 0 .. Cardinality(Keys) : l \in [1 .. n -> Keys]
  BY DEF Lists
<1>2. Cardinality(Keys) \in Nat
  BY KeyBridgeAssumption, FS_CardinalityType
<1>3. n \in Nat
  BY <1>1, <1>2
<1>4. l \in Seq(Keys)
  BY <1>1, <1>3, SeqDef
<1>5. Len(l) \in Nat /\ DOMAIN l = 1 .. Len(l)
  BY <1>4, LenProperties
<1> QED BY <1>4, <1>5, ElementOfSeq DEF In

LEMMA InstalledCountStep ==
  ASSUME BridgeInv, NEW t \in Threads, InstalledCount(t)
  PROVE  BridgeInv'
<1>1. PICK s : s = thread[t]
  OBVIOUS
<1>2. s.pc = "count" /\ ready' = ready /\ overlap' = overlap
  BY <1>1 DEF InstalledCount, At
<1>3. /\ ThreadFrame(s) /\ s.state = FALSE /\ s.info = {} /\ IsFiniteSet(s.seen)
      /\ installed \in s.seen
  BY <1>1, <1>2, OutsideFacts DEF Enumerating, BridgeInv, EnumInv, Sound, Watching
<1>4. client \in BOOLEAN /\ ready \in BOOLEAN /\ overlap \in BOOLEAN
  BY DEF BridgeInv, ReadyInv
<1>5. Len(installed) \in Nat
  BY ListFacts DEF BridgeInv, EnumInv
<1>6. PICK n \in {0, Len(installed)} :
        LET r == [s EXCEPT !.n = n, !.i = 0, !.names = <<>>, !.missed = (n # Len(installed))] IN
        \/ /\ host = "ksp" /\ n = 0
           /\ Set(t, Done(r, "error"))
           /\ UNCHANGED client
        \/ /\ host \in {"ksp", "ksp11"} /\ n # 0
           /\ Set(t, Done(r, "error"))
           /\ client' = (client /\ host = "ksp")
        \/ /\ host # "ksp" \/ n # 0
           /\ Set(t, To([r EXCEPT !.state = (host = "ksp")], "get"))
           /\ UNCHANGED client
  BY <1>1 DEF InstalledCount, Here
<1>7. PICK miss : miss = (n # Len(installed))
  OBVIOUS
<1>8. PICK r : r = [s EXCEPT !.n = n, !.i = 0, !.names = <<>>, !.missed = miss]
  OBVIOUS
<1>9. /\ ThreadFrame(r) /\ r.state = FALSE /\ r.info = {} /\ r.n = n /\ r.i = 0 /\ r.names = <<>>
      /\ r.missed = miss /\ r.seen = s.seen
  BY <1>3, <1>8 DEF ThreadFrame
<1>10. CASE Set(t, Done(r, "error")) /\ client' = client
  BY <1>2, <1>9, <1>10, DoneStep DEF bridgeVars
<1>11. CASE host = "ksp11" /\ Set(t, Done(r, "error")) /\ client' = FALSE
  <2>1. PICK u : u = Done(r, "error")
    OBVIOUS
  <2>2. Sound(u, host, installed)
    BY <1>9, <2>1, DoneSound
  <2>3. u.pc = "idle"
    BY <1>9, <2>1, DoneFields
  <2>4. Starting(thread[t]) /\ ~Starting(u)
    BY <1>1, <1>2, <1>11, <2>3 DEF Starting
  <2>5. StepTo(t, u)
    BY <1>11, <2>1, SetIsStep
  <2>6. overlap # TRUE => ready' = FALSE
    BY <1>2, <1>11, <2>4 DEF BridgeInv, ReadyInv, OneStarts
  <2>7. client' \in BOOLEAN /\ ready' \in BOOLEAN
    BY <1>2, <1>4, <1>11
  <2>8. ReadyInv'
    BY <1>2, <2>4, <2>5, <2>6, <2>7, ReadyEnds
  <2> QED BY <2>2, <2>5, <2>8, EnumStep DEF BridgeInv
<1>12. CASE /\ host # "ksp" \/ n # 0
            /\ Set(t, To([r EXCEPT !.state = (host = "ksp")], "get"))
            /\ client' = client
  <2>1. PICK b : b = (host = "ksp")
    OBVIOUS
  <2>2. PICK q : q = [r EXCEPT !.state = b]
    OBVIOUS
  <2>3. /\ ThreadFrame(q) /\ q.state = b /\ q.info = {} /\ q.n = n /\ q.i = 0 /\ q.names = <<>>
        /\ q.missed = miss /\ q.seen = s.seen
    BY <1>9, <2>2 DEF ThreadFrame
  <2>4. PICK u : u = To(q, "get")
    OBVIOUS
  <2>5. /\ ThreadFrame(u) /\ u.state = b /\ u.info = {} /\ u.n = n /\ u.i = 0 /\ u.names = <<>>
        /\ u.missed = miss /\ u.seen = s.seen /\ u.pc = "get"
    BY <2>3, <2>4, ToFields
  <2>6. Len(<<>>) = 0 /\ <<>> \in Seq(Keys) /\ DOMAIN <<>> = {}
    BY EmptySeq
  <2>7. WithinCount(u, host)
    BY <1>5, <1>12, <2>5, <2>6 DEF WithinCount
  <2>8. miss = FALSE => n = Len(installed)
    BY <1>7
  <2>9. ListedSoFar(u, installed)
    BY <2>5, <2>6, <2>8 DEF ListedSoFar
  <2>10. InfoHeld(u, installed) /\ Watching(u, installed) /\ SignsInstalled(u, host)
    BY <1>3, <2>5 DEF InfoHeld, Watching, SignsInstalled
  <2>11. u.state = FALSE \/ (Enumerating(u) /\ host = "ksp")
    BY <2>1, <2>5 DEF Enumerating
  <2>12. Sound(u, host, installed)
    BY <2>5, <2>7, <2>9, <2>10, <2>11 DEF Sound
  <2>13. Starting(u) => Starting(thread[t]) /\ thread[t].pc # "init"
    BY <1>1, <1>2, <2>5 DEF Starting
  <2>14. Set(t, u)
    BY <1>12, <2>1, <2>2, <2>4
  <2> QED BY <1>2, <1>12, <2>12, <2>13, <2>14, ThreadStep DEF bridgeVars
<1>13. host = "ksp" => (client /\ host = "ksp") = client
  BY <1>4
<1>14. host = "ksp11" => (client /\ host = "ksp") = FALSE
  OBVIOUS
<1> QED BY <1>6, <1>7, <1>8, <1>10, <1>11, <1>12, <1>13, <1>14

\* A key that is not to be had: the loops pass over it, KSPEnumKeys fails and
\* is over if it was the first.
LEMMA NotHadStep ==
  ASSUME BridgeInv, NEW t \in Threads, NEW s, Sound(s, host, installed), s.pc = "get",
         s.i < s.n, thread[t].pc \in {"get", "copy"}, NotHad(t, s), UNCHANGED bridgeVars
  PROVE  BridgeInv'
<1>1. /\ ThreadFrame(s) /\ s.info = {} /\ s.n \in Nat /\ s.i \in Nat /\ s.names \in Seq(Keys)
      /\ Len(s.names) <= s.i /\ Len(s.names) \in Nat
      /\ IsFiniteSet(s.seen) /\ installed \in s.seen
      /\ \A j \in DOMAIN s.names : \E m \in s.seen : In(s.names[j], m)
      /\ s.state = FALSE \/ host = "ksp"
  BY LenProperties DEF Sound, WithinCount, ListedSoFar, InfoHeld, Watching, Enumerating
<1>2. CASE host = "ksp" /\ s.i = 0
  <2>1. PICK d : d = Done(s, "error")
    OBVIOUS
  <2>2. ThreadFrame(d) /\ d.pc = "idle" /\ d.info = {} /\ d.seen = {}
    BY <1>1, <2>1, DoneFields
  <2>3. PICK u : u = [d EXCEPT !.state = FALSE]
    OBVIOUS
  <2>4. ThreadFrame(u) /\ u.pc = "idle" /\ u.info = {} /\ u.seen = {} /\ u.state = FALSE
    BY <2>2, <2>3 DEF ThreadFrame
  <2>5. Sound(u, host, installed)
    BY <2>4, IdleSound
  <2>6. ~Starting(u)
    BY <2>4 DEF Starting
  <2>7. Set(t, u)
    BY <1>2, <2>1, <2>3 DEF NotHad
  <2> QED BY <2>5, <2>6, <2>7, ThreadStep
<1>3. CASE host = "ksp" /\ s.i # 0
  <2>1. PICK u : u = [s EXCEPT !.missed = TRUE, !.result = "error", !.pc = "listing"]
    OBVIOUS
  <2>2. /\ ThreadFrame(u) /\ u.pc = "listing" /\ u.missed = TRUE /\ u.info = {} /\ u.n = s.n
        /\ u.i = s.i /\ u.names = s.names /\ u.seen = s.seen
    BY <1>1, <2>1 DEF ThreadFrame
  <2>3. WithinCount(u, host)
    BY <1>1, <1>3, <2>2 DEF WithinCount
  <2>4. ListedSoFar(u, installed) /\ InfoHeld(u, installed)
    BY <1>1, <2>2 DEF ListedSoFar, InfoHeld
  <2>5. Watching(u, installed) /\ SignsInstalled(u, host)
    BY <1>1, <2>2 DEF Watching, SignsInstalled
  <2>6. Sound(u, host, installed)
    BY <1>3, <2>2, <2>3, <2>4, <2>5 DEF Sound, Enumerating
  <2>7. ~Starting(u)
    BY <1>3, <2>2 DEF Starting
  <2>8. Set(t, u)
    BY <1>3, <2>1 DEF NotHad
  <2> QED BY <2>6, <2>7, <2>8, ThreadStep
<1>4. CASE host # "ksp"
  <2>1. PICK u : u = [s EXCEPT !.missed = TRUE, !.i = @ + 1]
    OBVIOUS
  <2>2. /\ ThreadFrame(u) /\ u.pc = "get" /\ u.missed = TRUE /\ u.info = {} /\ u.n = s.n
        /\ u.i = s.i + 1 /\ u.names = s.names /\ u.seen = s.seen /\ u.state = s.state
    BY <1>1, <2>1 DEF ThreadFrame
  <2>3. s.i + 1 \in Nat /\ s.i + 1 <= s.n /\ Len(s.names) <= s.i + 1
    BY <1>1
  <2>4. WithinCount(u, host)
    BY <1>1, <1>4, <2>2, <2>3 DEF WithinCount
  <2>5. ListedSoFar(u, installed) /\ InfoHeld(u, installed)
    BY <1>1, <2>2 DEF ListedSoFar, InfoHeld
  <2>6. Watching(u, installed) /\ SignsInstalled(u, host)
    BY <1>1, <2>2 DEF Watching, SignsInstalled
  <2>7. Sound(u, host, installed)
    BY <1>1, <1>4, <2>2, <2>4, <2>5, <2>6 DEF Sound
  <2>8. Starting(u) => Starting(thread[t]) /\ thread[t].pc # "init"
    BY <2>2 DEF Starting
  <2>9. Set(t, u)
    BY <1>4, <2>1 DEF NotHad
  <2> QED BY <2>7, <2>8, <2>9, ThreadStep
<1> QED BY <1>2, <1>3, <1>4

LEMMA GetInstalledStep ==
  ASSUME BridgeInv, NEW t \in Threads, GetInstalled(t)
  PROVE  BridgeInv'
<1>1. PICK s : s = thread[t]
  OBVIOUS
<1>2. s.pc = "get" /\ s.i < s.n /\ UNCHANGED bridgeVars
  BY <1>1 DEF GetInstalled, At, More, Here
<1>3. Sound(s, host, installed)
  BY <1>1 DEF BridgeInv, EnumInv
<1>4. CASE NotHad(t, s)
  BY <1>1, <1>2, <1>3, <1>4, NotHadStep
<1>5. CASE /\ s.i < Len(installed)
           /\ Set(t, [s EXCEPT !.pc = "copy", !.info = @ \cup {installed[s.i + 1]}])
  <2>1. /\ ThreadFrame(s) /\ s.info = {} /\ s.n \in Nat /\ s.i \in Nat /\ s.i <= s.n
        /\ s.names \in Seq(Keys) /\ Len(s.names) <= s.i
        /\ IsFiniteSet(s.seen) /\ installed \in s.seen
        /\ s.state = FALSE \/ host = "ksp"
    BY <1>2, <1>3 DEF Sound, WithinCount, InfoHeld, Watching, Enumerating
  <2>2. Len(installed) \in Nat
    BY ListFacts DEF BridgeInv, EnumInv
  <2>3. s.i + 1 \in 1 .. Len(installed)
    BY <1>5, <2>1, <2>2
  <2>4. PICK k : k = installed[s.i + 1]
    OBVIOUS
  <2>5. k \in Keys /\ In(k, installed)
    BY <2>3, <2>4, ListFacts DEF BridgeInv, EnumInv
  <2>6. PICK u : u = [s EXCEPT !.pc = "copy", !.info = @ \cup {k}]
    OBVIOUS
  <2>7. /\ ThreadFrame(u) /\ u.pc = "copy" /\ u.info = {k} /\ u.n = s.n /\ u.i = s.i
        /\ u.names = s.names /\ u.seen = s.seen /\ u.missed = s.missed /\ u.state = s.state
    BY <2>1, <2>6 DEF ThreadFrame
  <2>8. WithinCount(u, host)
    BY <1>2, <2>1, <2>7 DEF WithinCount
  <2>9. ListedSoFar(u, installed)
    <3>1. Enumerating(s)
      BY <1>2 DEF Enumerating
    <3>2. ListedSoFar(s, installed)
      BY <1>3 DEF Sound
    <3> QED BY <2>7, <3>1, <3>2 DEF ListedSoFar
  <2>10. InfoHeld(u, installed)
    BY <2>1, <2>4, <2>5, <2>7 DEF InfoHeld
  <2>11. Watching(u, installed) /\ SignsInstalled(u, host)
    BY <2>1, <2>7 DEF Watching, SignsInstalled
  <2>12. Sound(u, host, installed)
    BY <2>1, <2>7, <2>8, <2>9, <2>10, <2>11 DEF Sound, Enumerating
  <2>13. Starting(u) => Starting(thread[t]) /\ thread[t].pc # "init"
    BY <1>1, <1>2, <2>7 DEF Starting
  <2>14. Set(t, u)
    BY <1>5, <2>4, <2>6
  <2> QED BY <1>2, <2>12, <2>13, <2>14, ThreadStep
<1> QED BY <1>1, <1>4, <1>5 DEF GetInstalled, Here

\* The copy of an info: listed under the next index, and freed either way.
LEMMA CopyInfoStep ==
  ASSUME BridgeInv, NEW t \in Threads, CopyInfo(t)
  PROVE  BridgeInv'
<1>1. PICK s : s = thread[t]
  OBVIOUS
<1>2. s.pc = "copy" /\ UNCHANGED bridgeVars
  BY <1>1 DEF CopyInfo, At
<1>3. Sound(s, host, installed)
  BY <1>1 DEF BridgeInv, EnumInv
<1>4. /\ ThreadFrame(s) /\ s.n \in Nat /\ s.i \in Nat /\ s.i < s.n
      /\ s.names \in Seq(Keys) /\ Len(s.names) <= s.i
      /\ IsFiniteSet(s.seen) /\ installed \in s.seen
      /\ s.state = FALSE \/ host = "ksp"
  BY <1>2, <1>3 DEF Sound, WithinCount, Watching, Enumerating
<1>5. Enumerating(s)
  BY <1>2 DEF Enumerating
<1>6. /\ \A j \in DOMAIN s.names : \E m \in s.seen : In(s.names[j], m)
      /\ s.missed = FALSE /\ s.seen = {installed} =>
           /\ s.n = Len(installed) /\ Len(s.names) = s.i
           /\ \A j \in 1 .. s.i : s.names[j] = installed[j]
  BY <1>3, <1>5 DEF Sound, ListedSoFar
<1>7. PICK k \in Keys : /\ s.info = {k}
                        /\ \E m \in s.seen : In(k, m)
                        /\ s.missed = FALSE /\ s.seen = {installed} => k = installed[s.i + 1]
  BY <1>2, <1>3 DEF Sound, InfoHeld
<1>8. CASE Set(t, To(FreeKeyInfo(Listed(s), TRUE), IF host = "ksp" THEN "listing" ELSE "get"))
  <2>1. (CHOOSE q \in s.info : TRUE) = k
    BY <1>7
  <2>2. PICK names : names = s.names \o <<k>>
    OBVIOUS
  <2>3. <<k>> \in Seq(Keys) /\ Len(<<k>>) = 1 /\ <<k>>[1] = k
    OBVIOUS
  <2>4. Len(s.names) \in Nat /\ DOMAIN s.names = 1 .. Len(s.names)
    BY <1>4, LenProperties
  <2>5. /\ names \in Seq(Keys) /\ Len(names) = Len(s.names) + 1
        /\ \A j \in 1 .. Len(s.names) + 1 :
             names[j] = IF j <= Len(s.names) THEN s.names[j] ELSE <<k>>[j - Len(s.names)]
    BY <1>4, <2>2, <2>3, ConcatProperties
  <2>6. DOMAIN names = 1 .. Len(s.names) + 1
    BY <2>5, LenProperties
  <2>7. /\ \A j \in 1 .. Len(s.names) : names[j] = s.names[j]
        /\ names[Len(s.names) + 1] = k
    BY <2>3, <2>4, <2>5
  <2>8. PICK a : a = [s EXCEPT !.names = names, !.i = @ + 1]
    OBVIOUS
  <2>9. a = Listed(s)
    BY <2>1, <2>2, <2>8 DEF Listed
  <2>10. /\ ThreadFrame(a) /\ a.names = names /\ a.i = s.i + 1 /\ a.n = s.n /\ a.missed = s.missed
         /\ a.seen = s.seen /\ a.state = s.state
    BY <1>4, <2>8 DEF ThreadFrame
  <2>11. PICK b : b = FreeKeyInfo(a, TRUE)
    OBVIOUS
  <2>12. /\ ThreadFrame(b) /\ b.names = names /\ b.i = s.i + 1 /\ b.n = s.n /\ b.missed = s.missed
         /\ b.seen = s.seen /\ b.state = s.state /\ b.info = {}
    BY <2>10, <2>11 DEF ThreadFrame, FreeKeyInfo
  <2>13. PICK p : p = IF host = "ksp" THEN "listing" ELSE "get"
    OBVIOUS
  <2>14. PICK u : u = To(b, p)
    OBVIOUS
  <2>15. /\ ThreadFrame(u) /\ u.names = names /\ u.i = s.i + 1 /\ u.n = s.n /\ u.missed = s.missed
         /\ u.seen = s.seen /\ u.state = s.state /\ u.info = {} /\ u.pc = p
    BY <2>12, <2>14, ToFields
  <2>16. s.i + 1 \in Nat /\ s.i + 1 <= s.n /\ Len(names) <= s.i + 1
    BY <1>4, <2>4, <2>5
  <2>17. WithinCount(u, host)
    BY <1>4, <2>5, <2>13, <2>15, <2>16 DEF WithinCount
  <2>18. ASSUME NEW j \in DOMAIN names PROVE \E m \in s.seen : In(names[j], m)
    <3>1. j \in 1 .. Len(s.names) \/ j = Len(s.names) + 1
      BY <2>4, <2>6
    <3> QED BY <1>6, <1>7, <2>4, <2>7, <3>1
  <2>19. ASSUME s.missed = FALSE, s.seen = {installed}
         PROVE  /\ s.n = Len(installed) /\ Len(names) = s.i + 1
                /\ \A j \in 1 .. s.i + 1 : names[j] = installed[j]
    <3>1. Len(s.names) = s.i /\ k = installed[s.i + 1] /\ s.n = Len(installed)
      BY <1>6, <1>7, <2>19
    <3>2. ASSUME NEW j \in 1 .. s.i + 1 PROVE names[j] = installed[j]
      <4>1. j \in 1 .. s.i \/ j = s.i + 1
        BY <1>4
      <4> QED BY <1>6, <2>7, <2>19, <3>1, <4>1
    <3> QED BY <2>5, <3>1, <3>2
  <2>20. ListedSoFar(u, installed)
    BY <2>15, <2>18, <2>19 DEF ListedSoFar
  <2>21. InfoHeld(u, installed)
    BY <2>13, <2>15 DEF InfoHeld
  <2>22. Watching(u, installed) /\ SignsInstalled(u, host)
    BY <1>4, <2>13, <2>15 DEF Watching, SignsInstalled
  <2>23. Sound(u, host, installed)
    BY <1>4, <2>13, <2>15, <2>17, <2>20, <2>21, <2>22 DEF Sound, Enumerating
  <2>24. Starting(u) => Starting(thread[t]) /\ thread[t].pc # "init"
    BY <1>1, <1>2, <2>13, <2>15 DEF Starting
  <2>25. Set(t, u)
    BY <1>8, <2>9, <2>11, <2>13, <2>14
  <2> QED BY <1>2, <2>23, <2>24, <2>25, ThreadStep
<1>9. CASE NotHad(t, To(FreeKeyInfo(s, FALSE), "get"))
  <2>1. PICK b : b = FreeKeyInfo(s, FALSE)
    OBVIOUS
  <2>2. /\ ThreadFrame(b) /\ b.names = s.names /\ b.i = s.i /\ b.n = s.n /\ b.missed = s.missed
        /\ b.seen = s.seen /\ b.state = s.state /\ b.info = {}
    BY <1>4, <2>1 DEF ThreadFrame, FreeKeyInfo
  <2>3. PICK u : u = To(b, "get")
    OBVIOUS
  <2>4. /\ ThreadFrame(u) /\ u.names = s.names /\ u.i = s.i /\ u.n = s.n /\ u.missed = s.missed
        /\ u.seen = s.seen /\ u.state = s.state /\ u.info = {} /\ u.pc = "get"
    BY <2>2, <2>3, ToFields
  <2>5. WithinCount(u, host)
    BY <1>4, <2>4 DEF WithinCount
  <2>6. ListedSoFar(u, installed)
    BY <1>6, <2>4 DEF ListedSoFar
  <2>7. InfoHeld(u, installed) /\ Watching(u, installed) /\ SignsInstalled(u, host)
    BY <1>4, <2>4 DEF InfoHeld, Watching, SignsInstalled
  <2>8. Sound(u, host, installed)
    BY <1>4, <2>4, <2>5, <2>6, <2>7 DEF Sound, Enumerating
  <2>9. NotHad(t, u) /\ u.i < u.n
    BY <1>4, <1>9, <2>1, <2>3, <2>4
  <2> QED BY <1>1, <1>2, <2>4, <2>8, <2>9, NotHadStep
<1> QED BY <1>1, <1>8, <1>9 DEF CopyInfo, Here

\* The caller is told that there are no more keys, or stops asking.
LEMMA EnumOverStep ==
  ASSUME BridgeInv, NEW t \in Threads, thread[t].pc = "listing",
         Set(t, [Done(thread[t], "ok") EXCEPT !.state = FALSE]), UNCHANGED bridgeVars
  PROVE  BridgeInv'
<1>1. PICK s : s = thread[t]
  OBVIOUS
<1>2. ThreadFrame(s) /\ s.info = {}
  BY <1>1 DEF BridgeInv, EnumInv, Sound, InfoHeld
<1>3. PICK d : d = Done(s, "ok")
  OBVIOUS
<1>4. ThreadFrame(d) /\ d.pc = "idle" /\ d.info = {} /\ d.seen = {}
  BY <1>2, <1>3, DoneFields
<1>5. PICK u : u = [d EXCEPT !.state = FALSE]
  OBVIOUS
<1>6. ThreadFrame(u) /\ u.pc = "idle" /\ u.info = {} /\ u.seen = {} /\ u.state = FALSE
  BY <1>4, <1>5 DEF ThreadFrame
<1>7. Sound(u, host, installed)
  BY <1>6, IdleSound
<1>8. ~Starting(u)
  BY <1>6 DEF Starting
<1>9. Set(t, u)
  BY <1>1, <1>3, <1>5
<1> QED BY <1>7, <1>8, <1>9, ThreadStep

LEMMA EnumNextStep ==
  ASSUME BridgeInv, NEW t \in Threads, EnumNext(t) \/ FreeBuffer(t)
  PROVE  BridgeInv'
<1>1. PICK s : s = thread[t]
  OBVIOUS
<1>2. s.pc = "listing" /\ UNCHANGED bridgeVars
  BY <1>1 DEF EnumNext, FreeBuffer, At
<1>3. CASE Set(t, [Done(s, "ok") EXCEPT !.state = FALSE])
  BY <1>1, <1>2, <1>3, EnumOverStep
<1>4. CASE s.i < s.n /\ Set(t, To(s, "get"))
  <2>1. Sound(s, host, installed) /\ Enumerating(s)
    BY <1>1, <1>2 DEF BridgeInv, EnumInv, Enumerating
  <2>2. PICK u : u = To(s, "get")
    OBVIOUS
  <2>3. ThreadFrame(s)
    BY <2>1 DEF Sound
  <2>4. /\ ThreadFrame(u) /\ u.names = s.names /\ u.i = s.i /\ u.n = s.n /\ u.missed = s.missed
        /\ u.seen = s.seen /\ u.state = s.state /\ u.info = s.info /\ u.pc = "get"
    BY <2>2, <2>3, ToFields
  <2>5. WithinCount(u, host)
    BY <1>4, <2>1, <2>4 DEF Sound, WithinCount
  <2>6. ListedSoFar(u, installed)
    BY <2>1, <2>4 DEF Sound, ListedSoFar
  <2>7. InfoHeld(u, installed)
    BY <1>2, <2>1, <2>4 DEF Sound, InfoHeld
  <2>8. Watching(u, installed) /\ SignsInstalled(u, host)
    BY <1>2, <2>1, <2>4 DEF Sound, Watching, SignsInstalled
  <2>9. Sound(u, host, installed)
    BY <2>1, <2>4, <2>5, <2>6, <2>7, <2>8 DEF Sound, Enumerating
  <2>10. host = "ksp"
    BY <1>2, <2>1 DEF Sound, WithinCount
  <2>11. ~Starting(u)
    BY <2>4, <2>10 DEF Starting
  <2> QED BY <1>2, <1>4, <2>2, <2>9, <2>11, ThreadStep
<1> QED BY <1>1, <1>3, <1>4 DEF EnumNext, FreeBuffer, Here, More

\* The loops end; C_Initialize has succeeded with the client it pinged.
LEMMA LoopEndsStep ==
  ASSUME BridgeInv, NEW t \in Threads, LoopEnds(t)
  PROVE  BridgeInv'
<1>1. PICK s : s = thread[t]
  OBVIOUS
<1>2. /\ s.pc = "get" /\ ~(s.i < s.n) /\ ready' = (ready \/ host = "ksp11") /\ client' = client
      /\ overlap' = overlap
  BY <1>1 DEF LoopEnds, At, More, Here
<1>3. Sound(s, host, installed)
  BY <1>1 DEF BridgeInv, EnumInv
<1>4. host # "ksp"
  BY <1>2, <1>3 DEF Sound, WithinCount, Enumerating
<1>5. ThreadFrame(s) /\ s.info = {} /\ s.state = FALSE
  BY <1>2, <1>3, <1>4 DEF Sound, InfoHeld
<1>6. PICK d : d = Done(s, "list")
  OBVIOUS
<1>7. ThreadFrame(d) /\ d.pc = "idle" /\ d.info = {} /\ d.seen = {} /\ d.state = FALSE
  BY <1>5, <1>6, DoneFields
<1>8. PICK keys : Set(t, [d EXCEPT !.keys = keys])
  BY <1>1, <1>6 DEF LoopEnds, Here
<1>9. PICK u : u = [d EXCEPT !.keys = keys]
  OBVIOUS
<1>10. ThreadFrame(u) /\ u.pc = "idle" /\ u.info = {} /\ u.seen = {} /\ u.state = FALSE
  BY <1>7, <1>9 DEF ThreadFrame
<1>11. Sound(u, host, installed)
  BY <1>10, IdleSound
<1>12. StepTo(t, u)
  BY <1>8, <1>9, SetIsStep
<1>13. client \in BOOLEAN /\ ready \in BOOLEAN /\ overlap \in BOOLEAN
  BY DEF BridgeInv, ReadyInv
<1>14. client' \in BOOLEAN /\ ready' \in BOOLEAN /\ overlap' \in BOOLEAN
  BY <1>2, <1>13
<1>15. ReadyInv'
  <2>1. CASE host = "ksp11"
    <3>1. Starting(thread[t]) /\ thread[t].pc # "init"
      BY <1>1, <1>2, <2>1 DEF Starting
    <3>2. ~Starting(u)
      BY <1>10 DEF Starting
    <3>3. overlap # TRUE => client = TRUE
      BY <2>1, <3>1 DEF BridgeInv, ReadyInv, OneStarts
    <3> QED BY <1>2, <1>12, <1>14, <3>1, <3>2, <3>3, ReadyEnds
  <2>2. CASE host # "ksp11"
    BY <1>4, <1>12, <1>14, <2>2, ReadyOther DEF StepTo
  <2> QED BY <2>1, <2>2
<1> QED BY <1>11, <1>12, <1>15, EnumStep DEF BridgeInv

LEMMA OpenKeyStep ==
  ASSUME BridgeInv, NEW t \in Threads, NEW k \in Keys, OpenKey(t, k)
  PROVE  BridgeInv'
<1>1. PICK s : s = thread[t]
  OBVIOUS
<1>2. s.pc = "idle" /\ UNCHANGED bridgeVars
  BY <1>1 DEF OpenKey, At
<1>3. ThreadFrame(s) /\ s.state = FALSE /\ s.info = {} /\ IsFiniteSet(s.seen)
  BY <1>1, <1>2, OutsideFacts DEF Enumerating
<1>4. CASE Set(t, Done(s, "error"))
  BY <1>2, <1>3, <1>4, DoneStep
<1>5. CASE Set(t, [s EXCEPT !.pc = "create", !.info = {k}])
  <2>1. PICK u : u = [s EXCEPT !.pc = "create", !.info = {k}]
    OBVIOUS
  <2>2. ThreadFrame(u) /\ u.pc = "create" /\ u.state = FALSE /\ u.seen = s.seen
    BY <1>3, <2>1 DEF ThreadFrame
  <2>3. Sound(u, host, installed)
    BY <1>3, <2>2, OutsideSound DEF Enumerating
  <2>4. ~Starting(u)
    BY <2>2 DEF Starting
  <2> QED BY <1>2, <1>5, <2>1, <2>3, <2>4, ThreadStep
<1> QED BY <1>1, <1>4, <1>5 DEF OpenKey, Here

LEMMA CreateNewKeyObjectStep ==
  ASSUME BridgeInv, NEW t \in Threads, CreateNewKeyObject(t)
  PROVE  BridgeInv'
<1>1. PICK s : s = thread[t]
  OBVIOUS
<1>2. s.pc = "create" /\ UNCHANGED bridgeVars
  BY <1>1 DEF CreateNewKeyObject, At
<1>3. ThreadFrame(s) /\ s.state = FALSE
  BY <1>1, <1>2, OutsideFacts DEF Enumerating
<1>4. PICK f : f = [s EXCEPT !.info = {}]
  OBVIOUS
<1>5. ThreadFrame(f) /\ f.state = FALSE /\ f.info = {}
  BY <1>3, <1>4 DEF ThreadFrame
<1>6. CASE Set(t, Done(f, "error"))
  BY <1>2, <1>5, <1>6, DoneStep
<1>7. CASE Set(t, Done([f EXCEPT !.keys = @ \cup s.info], "ok"))
  <2>1. PICK g : g = [f EXCEPT !.keys = @ \cup s.info]
    OBVIOUS
  <2>2. ThreadFrame(g) /\ g.state = FALSE /\ g.info = {}
    BY <1>5, <2>1 DEF ThreadFrame
  <2> QED BY <1>2, <1>7, <2>1, <2>2, DoneStep
<1> QED BY <1>1, <1>4, <1>6, <1>7 DEF CreateNewKeyObject, Here, FreeKeyInfo

LEMMA FreeKeyStep ==
  ASSUME BridgeInv, NEW t \in Threads, NEW k \in Keys, FreeKey(t, k)
  PROVE  BridgeInv'
<1>1. PICK s : s = thread[t]
  OBVIOUS
<1>2. s.pc = "idle" /\ UNCHANGED bridgeVars
  BY <1>1 DEF FreeKey, At
<1>3. ThreadFrame(s) /\ s.state = FALSE /\ s.info = {}
  BY <1>1, <1>2, OutsideFacts DEF Enumerating
<1>4. PICK d : d = Done(s, "ok")
  OBVIOUS
<1>5. ThreadFrame(d) /\ d.pc = "idle" /\ d.info = {} /\ d.seen = {} /\ d.state = FALSE
  BY <1>3, <1>4, DoneFields
<1>6. PICK u : u = [d EXCEPT !.keys = @ \ {k}]
  OBVIOUS
<1>7. ThreadFrame(u) /\ u.pc = "idle" /\ u.info = {} /\ u.seen = {} /\ u.state = FALSE
  BY <1>5, <1>6 DEF ThreadFrame
<1>8. Sound(u, host, installed)
  BY <1>7, IdleSound
<1>9. ~Starting(u)
  BY <1>7 DEF Starting
<1>10. Set(t, u)
  BY <1>1, <1>4, <1>6 DEF FreeKey, Here
<1> QED BY <1>2, <1>8, <1>9, <1>10, ThreadStep

\* SignHash finds the key in the list of the moment, except on Linux.
LEMMA SignStep ==
  ASSUME BridgeInv, NEW t \in Threads, NEW k \in Keys, tpmcert_sign_hash(t, k)
  PROVE  BridgeInv'
<1>1. PICK s : s = thread[t]
  OBVIOUS
<1>2. s.pc = "idle" /\ UNCHANGED bridgeVars
  BY <1>1 DEF tpmcert_sign_hash, At
<1>3. ThreadFrame(s) /\ s.state = FALSE /\ s.info = {}
  BY <1>1, <1>2, OutsideFacts DEF Enumerating
<1>4. CASE Set(t, Done(s, "error"))
  BY <1>2, <1>3, <1>4, DoneStep
<1>5. CASE /\ In(k, installed) \/ host = "ksp11"
           /\ Set(t, [s EXCEPT !.pc = "sign", !.key = {k}, !.seen = {installed}])
  <2>1. PICK u : u = [s EXCEPT !.pc = "sign", !.key = {k}, !.seen = {installed}]
    OBVIOUS
  <2>2. /\ ThreadFrame(u) /\ u.pc = "sign" /\ u.key = {k} /\ u.seen = {installed}
        /\ u.state = FALSE /\ u.info = {}
    BY <1>3, <2>1 DEF ThreadFrame
  <2>3. IsFiniteSet(u.seen)
    BY <2>2, FS_Singleton
  <2>4. host # "ksp11" => \A j \in u.key : \E m \in u.seen : In(j, m)
    BY <1>5, <2>2
  <2>5. Sound(u, host, installed)
    BY <2>2, <2>3, <2>4, OutsideSound DEF Enumerating
  <2>6. ~Starting(u)
    BY <2>2 DEF Starting
  <2> QED BY <1>2, <1>5, <2>1, <2>5, <2>6, ThreadStep
<1> QED BY <1>1, <1>4, <1>5 DEF tpmcert_sign_hash, Here

LEMMA SignedStep ==
  ASSUME BridgeInv, NEW t \in Threads, Signed(t) \/ CopySignature(t)
  PROVE  BridgeInv'
<1>1. PICK s : s = thread[t]
  OBVIOUS
<1>2. s.pc \in {"sign", "signed"} /\ UNCHANGED bridgeVars
  BY <1>1 DEF Signed, CopySignature, At
<1>3. ThreadFrame(s) /\ s.state = FALSE /\ s.info = {} /\ IsFiniteSet(s.seen)
  BY <1>1, <1>2, OutsideFacts DEF Enumerating
<1>4. ASSUME NEW r, Set(t, Done(s, r)) PROVE BridgeInv'
  BY <1>2, <1>3, <1>4, DoneStep
<1>5. CASE Set(t, To(s, "signed"))
  <2>1. PICK u : u = To(s, "signed")
    OBVIOUS
  <2>2. /\ ThreadFrame(u) /\ u.pc = "signed" /\ u.key = s.key /\ u.seen = s.seen
        /\ u.state = FALSE /\ u.info = {}
    BY <1>3, <2>1, ToFields
  <2>3. installed \in u.seen /\ (host # "ksp11" => \A j \in u.key : \E m \in u.seen : In(j, m))
    BY <1>1, <1>2, <2>2 DEF BridgeInv, EnumInv, Sound, Watching, SignsInstalled
  <2>4. Sound(u, host, installed)
    BY <1>3, <2>2, <2>3, OutsideSound DEF Enumerating
  <2>5. ~Starting(u)
    BY <2>2 DEF Starting
  <2> QED BY <1>2, <1>5, <2>1, <2>4, <2>5, ThreadStep
<1> QED BY <1>1, <1>4, <1>5 DEF Signed, CopySignature, Here

\* A list that changes is one more that a call under way has seen.
LEMMA ChangeSound ==
  ASSUME NEW s, NEW h, NEW l, NEW m, Sound(s, h, l), m # l, s.pc # "idle",
         NEW u, u = [s EXCEPT !.seen = @ \cup {m}]
  PROVE  Sound(u, h, m) /\ u.pc = s.pc
<1>1. ThreadFrame(s)
  BY DEF Sound
<1>2. /\ ThreadFrame(u) /\ u.pc = s.pc /\ u.n = s.n /\ u.i = s.i /\ u.names = s.names
      /\ u.missed = s.missed /\ u.info = s.info /\ u.key = s.key /\ u.state = s.state
      /\ u.seen = s.seen \cup {m}
  BY <1>1 DEF ThreadFrame
<1>3. WithinCount(u, h)
  BY <1>2 DEF Sound, WithinCount, Enumerating
<1>4. Enumerating(s) => u.seen # {m}
  BY <1>2 DEF Sound, Watching, Enumerating
<1>5. ListedSoFar(u, m)
  BY <1>2, <1>4 DEF Sound, ListedSoFar, Enumerating
<1>6. InfoHeld(u, m)
  BY <1>2, <1>4 DEF Sound, InfoHeld, Enumerating
<1>7. IsFiniteSet(u.seen)
  BY <1>2, FS_AddElement DEF Sound, Watching
<1>8. Watching(u, m) /\ SignsInstalled(u, h)
  BY <1>2, <1>7 DEF Sound, Watching, SignsInstalled
<1>9. u.state = FALSE \/ (Enumerating(u) /\ h = "ksp")
  BY <1>2 DEF Sound, Enumerating
<1> QED BY <1>2, <1>3, <1>5, <1>6, <1>8, <1>9 DEF Sound

LEMMA ChangeStep ==
  ASSUME BridgeInv, Change
  PROVE  BridgeInv'
<1>1. /\ installed' \in Lists /\ installed' # installed
      /\ host' = host /\ client' = client /\ ready' = ready /\ overlap' = overlap
      /\ thread' = [t \in Threads |->
           IF thread[t].pc = "idle" THEN thread[t]
           ELSE [thread[t] EXCEPT !.seen = @ \cup {installed'}]]
  BY DEF Change, At, bridgeVars
<1>2. ASSUME NEW t \in Threads
      PROVE  Sound(thread'[t], host, installed') /\ thread'[t].pc = thread[t].pc
  <2>1. PICK s, m : s = thread[t] /\ m = installed'
    OBVIOUS
  <2>2. Sound(s, host, installed)
    BY <2>1 DEF BridgeInv, EnumInv
  <2>3. CASE s.pc = "idle"
    <3>1. Sound(s, host, m)
      BY <2>2, <2>3 DEF Sound, ListedSoFar, InfoHeld, Watching, Enumerating
    <3> QED BY <1>1, <2>1, <2>3, <3>1
  <2>4. CASE s.pc # "idle"
    <3>1. PICK u : u = [s EXCEPT !.seen = @ \cup {m}]
      OBVIOUS
    <3>2. Sound(u, host, m) /\ u.pc = s.pc
      BY <1>1, <2>1, <2>2, <2>4, <3>1, ChangeSound
    <3> QED BY <1>1, <2>1, <2>4, <3>1, <3>2
  <2> QED BY <2>3, <2>4
<1>3. EnumInv'
  <2>1. Lists' = Lists
    BY DEF Lists
  <2>2. EnumInv' <=> /\ installed' \in Lists'
                     /\ thread' = [r \in Threads |-> thread'[r]]
                     /\ \A r \in Threads : Sound(thread'[r], host', installed')
    BY DEF EnumInv
  <2> QED BY <1>1, <1>2, <2>1, <2>2
<1>4. OneStarts => OneStarts'
  BY <1>1, <1>2 DEF OneStarts, Starting
<1> QED BY <1>1, <1>3, <1>4 DEF BridgeInv, ReadyInv

-----------------------------------------------------------------------------
\* Both invariants hold at the start and after every step.
THEOREM BridgeInvariance == Spec => []BridgeInv
<1>1. ASSUME Init PROVE BridgeInv
  <2>1. /\ ThreadFrame(Start) /\ Start.pc = "idle" /\ Start.info = {} /\ Start.state = FALSE
        /\ Start.seen = {}
    BY DEF Start, ThreadFrame
  <2>2. Sound(Start, host, installed)
    BY <2>1, IdleSound
  <2>3. EnumInv
    BY <1>1, <2>2 DEF Init, EnumInv
  <2>4. \A t \in Threads : thread[t].pc = "idle"
    BY <1>1, <2>1 DEF Init
  <2>5. ReadyInv
    BY <1>1, <2>4 DEF Init, ReadyInv, OneStarts, Starting
  <2> QED BY <2>3, <2>5 DEF BridgeInv
<1>2. ASSUME BridgeInv, [Next]_vars PROVE BridgeInv'
  <2>1. CASE UNCHANGED vars
    <3>1. /\ host' = host /\ client' = client /\ ready' = ready /\ overlap' = overlap
          /\ installed' = installed /\ thread' = thread
      BY <2>1 DEF vars, bridgeVars, listVars
    <3>2. EnumInv'
      BY <1>2, <3>1 DEF BridgeInv, EnumInv, Lists
    <3>3. ReadyInv'
      BY <1>2, <3>1 DEF BridgeInv, ReadyInv, OneStarts, Starting
    <3> QED BY <3>2, <3>3 DEF BridgeInv
  <2>2. CASE Change \/ Detach
    BY <1>2, <2>2, ChangeStep, DetachStep
  <2>3. ASSUME NEW t \in Threads,
               \/ EnsureBridge(t) \/ InitGlobal(t) \/ Global(t) \/ SetReady(t)
               \/ EnumKeys(t) \/ InstalledCount(t) \/ GetInstalled(t) \/ CopyInfo(t)
               \/ EnumNext(t) \/ FreeBuffer(t) \/ LoopEnds(t)
               \/ CreateNewKeyObject(t) \/ Signed(t) \/ CopySignature(t)
        PROVE  BridgeInv'
    BY <1>2, <2>3, EnsureBridgeStep, InitGlobalStep, GlobalStep, SetReadyStep, EnumKeysStep,
       InstalledCountStep, GetInstalledStep, CopyInfoStep, EnumNextStep, LoopEndsStep,
       CreateNewKeyObjectStep, SignedStep
  <2>4. ASSUME NEW t \in Threads, NEW k \in Keys,
               OpenKey(t, k) \/ FreeKey(t, k) \/ tpmcert_sign_hash(t, k)
        PROVE  BridgeInv'
    BY <1>2, <2>4, OpenKeyStep, FreeKeyStep, SignStep
  <2> QED BY <1>2, <2>1, <2>2, <2>3, <2>4 DEF Next
<1> QED BY <1>1, <1>2, PTL DEF Spec

(***************************************************************************)
(* An enumeration by count and index, each call over the list of its       *)
(* moment, gives exactly the list if nothing changed and no key failed,    *)
(* and never more keys than the count or a key that was not installed, for *)
(* any list, any number of threads and any changes in between.             *)
(***************************************************************************)
THEOREM EnumerationLists == Spec => []ListsTheKeys
<1>1. ASSUME BridgeInv PROVE ListsTheKeys
  <2>1. SUFFICES ASSUME NEW t \in Threads, NEW s, s = thread[t], s.pc \in {"get", "listing"}
                 PROVE  /\ Len(s.names) <= s.n
                        /\ \A i \in DOMAIN s.names : \E l \in s.seen : In(s.names[i], l)
                        /\ ~More(s) /\ ~s.missed /\ Cardinality(s.seen) = 1 => s.seen = {s.names}
    BY DEF ListsTheKeys
  <2>2. Sound(s, host, installed) /\ Enumerating(s)
    BY <1>1, <2>1 DEF BridgeInv, EnumInv, Enumerating
  <2>3. /\ s.n \in Nat /\ s.i \in Nat /\ s.i <= s.n
        /\ s.names \in Seq(Keys) /\ Len(s.names) <= s.i /\ Len(s.names) \in Nat
        /\ \A j \in DOMAIN s.names : \E m \in s.seen : In(s.names[j], m)
    BY <2>2, LenProperties DEF Sound, WithinCount, ListedSoFar
  <2>4. Len(s.names) <= s.n
    BY <2>3
  <2>5. ASSUME ~More(s), ~s.missed, Cardinality(s.seen) = 1 PROVE s.seen = {s.names}
    <3>1. IsFiniteSet(s.seen) /\ installed \in s.seen
      BY <2>1, <2>2 DEF Sound, Watching
    <3>2. s.seen = {installed}
      BY <2>5, <3>1, FS_Singleton
    <3>3. s.i = s.n
      BY <2>3, <2>5 DEF More
    <3>4. /\ s.n = Len(installed) /\ Len(s.names) = s.i
          /\ \A j \in 1 .. s.i : s.names[j] = installed[j]
      BY <2>2, <2>5, <3>2 DEF Sound, ListedSoFar
    <3>5. installed \in Seq(Keys)
      BY <1>1, ListFacts DEF BridgeInv, EnumInv
    <3>6. s.names = installed
      BY <2>3, <3>3, <3>4, <3>5, SeqEqual
    <3> QED BY <3>2, <3>6
  <2> QED BY <2>3, <2>4, <2>5
<1> QED BY <1>1, BridgeInvariance, PTL

(***************************************************************************)
(* No key info that the bridge has allocated is left over when a call of a *)
(* library returns, whatever failed, and no state of an enumeration that   *)
(* has ended.                                                              *)
(***************************************************************************)
THEOREM InfosAreFreed == Spec => []InfosFreed
<1>1. BridgeInv => InfosFreed
  BY DEF BridgeInv, EnumInv, Sound, InfoHeld, Enumerating, InfosFreed
<1> QED BY <1>1, BridgeInvariance, PTL

(***************************************************************************)
(* A provider is ready only with a client, unless two threads have started *)
(* the bridge at the same time (EnsureBridge without a lock).              *)
(***************************************************************************)
THEOREM ReadyWithClient == Spec => []ReadyHasClient
<1>1. BridgeInv => ReadyHasClient
  BY DEF BridgeInv, ReadyInv, OneStarts, ReadyHasClient
<1> QED BY <1>1, BridgeInvariance, PTL

(***************************************************************************)
(* The Windows provider and the macOS token sign with no key that was      *)
(* removed before the call began.                                          *)
(***************************************************************************)
THEOREM SignsWithInstalled == Spec => []SignsInstalledKeys
<1>1. BridgeInv => SignsInstalledKeys
  BY DEF BridgeInv, EnumInv, Sound, SignsInstalled, SignsInstalledKeys
<1> QED BY <1>1, BridgeInvariance, PTL
=============================================================================
