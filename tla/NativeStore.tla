----------------------------- MODULE NativeStore -----------------------------
(***************************************************************************)
(* The certificate stores of Windows (internal/certstore/store_windows.go, *)
(* ncrypt.go) and macOS (store_darwin.go) behind the same three functions: *)
(* ListCertificates, ListCertificatesByProvider and SignHash.              *)
(*                                                                         *)
(* They work with objects of the operating system that have to be released *)
(* on every path, once, and not before their last use: stores, certificate *)
(* contexts and keys on Windows, lists of identities, keys and buffers on  *)
(* macOS.  The operating systems are external; each of their calls may     *)
(* fail.  Digests and paddings are the business of SigningPath.            *)
(***************************************************************************)
EXTENDS Integers, Sequences

CONSTANTS
  Threads,       \* calls at the same time
  Certs,         \* certificates
  HasKey,        \* those with a private key that can be had
  OfProvider,    \* those whose key belongs to the provider asked for
  MaxChanges     \* bound: changes of the stores

ASSUME NativeAssumption ==
  /\ HasKey \subseteq Certs
  /\ OfProvider \subseteq Certs
  /\ MaxChanges \in Nat

VARIABLES
  platform,      \* "windows" or "darwin"
  certDir,       \* whether a directory of certificates is configured (FileStore)
  stores,        \* the certificates in CurrentUser\MY and LocalMachine\MY
  changes,
  thread         \* [Threads -> the call under way]

nativeVars == <<platform, certDir, stores, changes, thread>>

Locations == {"CurrentUser", "LocalMachine"}
Ops == {"ListCertificates", "ListCertificatesByProvider", "SignHash"}

(***************************************************************************)
(* A call: its function, its place, the objects it holds, the releases it  *)
(* has deferred (the last first), whether the key belongs to the context,  *)
(* the certificates to look at and those found, the certificate to sign    *)
(* with, the locations still to be opened, the result, and whether it has  *)
(* used or released an object that is gone, or lost one.                   *)
(***************************************************************************)
NoCall ==
  [op |-> "none", pc |-> "idle", live |-> {}, defers |-> <<>>, cached |-> FALSE,
   left |-> {}, all |-> {}, out |-> {}, cert |-> {}, todo |-> {}, result |-> "none",
   misuse |-> FALSE]

To(s, pc) == [s EXCEPT !.pc = pc]
Get(s, x) == [s EXCEPT !.live = @ \cup {x}, !.misuse = @ \/ x \in s.live]
Use(s, x) == [s EXCEPT !.misuse = @ \/ x \notin s.live]
Defer(s, x) == [s EXCEPT !.defers = <<x>> \o @]
Return(s, result) == [s EXCEPT !.pc = "return", !.result = result]

\* A context takes a key with it that was cached in it, so that one must be
\* there still.
Free(s, x) ==
  [s EXCEPT !.live = @ \ ({x} \cup IF x = "ctx" /\ s.cached THEN {"key"} ELSE {}),
            !.cached = @ /\ x # "ctx",
            !.misuse = @ \/ x \notin s.live \/ (x = "ctx" /\ s.cached /\ "key" \notin s.live)]

NativeInit ==
  /\ platform \in {"windows", "darwin"}
  /\ certDir \in BOOLEAN
  /\ stores \in [Locations -> SUBSET Certs]
  /\ changes = 0
  /\ thread = [t \in Threads |-> NoCall]

Set(t, s) == thread' = [thread EXCEPT ![t] = s] /\ UNCHANGED <<platform, certDir, stores, changes>>
At(t, pc) == thread[t].pc = pc
Here(t) == thread[t]

\* Other programs add and remove certificates.
Change ==
  /\ changes < MaxChanges
  /\ changes' = changes + 1
  /\ \E l \in Locations, c \in Certs :
       stores' = [stores EXCEPT ![l] = IF c \in @ THEN @ \ {c} ELSE @ \cup {c}]
  /\ UNCHANGED <<platform, certDir, thread>>

(***************************************************************************)
(* The three functions begin.  With a directory configured they answer     *)
(* from there, on macOS only the list by provider does.                    *)
(***************************************************************************)
Native(op) == ~certDir \/ (platform = "darwin" /\ op # "ListCertificatesByProvider")

Call(t, op, c) ==
  /\ At(t, "idle")
  /\ Set(t, [NoCall EXCEPT
       !.op = op, !.cert = IF op = "SignHash" THEN {c} ELSE {},
       !.result = IF Native(op) THEN "none" ELSE "file store",
       !.pc = IF ~Native(op) THEN "return"
              ELSE IF platform = "darwin" THEN "identities" ELSE "open",
       !.todo = IF op = "ListCertificatesByProvider" THEN Locations ELSE {"CurrentUser"}])

(***************************************************************************)
(* Windows                                                                 *)
(***************************************************************************)
\* openStoreWithFlags: a store is what it is when it is opened.  The list by
\* provider goes over both stores, closes them itself, and passes over one
\* that does not open.
OpenStore(t) ==
  /\ At(t, "open")
  /\ \E l \in Here(t).todo :
       LET s == [Here(t) EXCEPT !.todo = @ \ {l}, !.left = stores[l], !.all = @ \cup stores[l]]
           byProvider == s.op = "ListCertificatesByProvider"
           opened == IF byProvider THEN Get(s, "store") ELSE Defer(Get(s, "store"), "store")
       IN  /\ l = "LocalMachine" => Here(t).todo = {"LocalMachine"}
           /\ \/ Set(t, To(opened, IF s.op = "SignHash" THEN "find" ELSE "enum"))
              \/ Set(t, IF ~byProvider THEN Return(Here(t), "error")
                        ELSE To([Here(t) EXCEPT !.todo = @ \ {l}], "close"))

\* CertEnumCertificatesInStore frees the context it is given, whatever it
\* returns.
Freed(s) == IF "ctx" \in s.live THEN Free(s, "ctx") ELSE s

\* Mutant: an error ends ListCertificates like the end of the store.
EnumFails_ends(t) ==
  /\ At(t, "enum")
  /\ Set(t, IF Here(t).op = "ListCertificates" THEN Return(Freed(Here(t)), "list")
            ELSE To(Freed(Here(t)), "close"))

\* An error of the enumeration ends ListCertificates; the list by provider
\* goes on with the next store.
EnumFails(t) ==
  /\ At(t, "enum")
  /\ Set(t, IF Here(t).op = "ListCertificates" THEN Return(Freed(Here(t)), "error")
            ELSE To(Freed(Here(t)), "close"))

EnumNext(t) ==
  /\ At(t, "enum")
  /\ \E c \in Here(t).left :
       LET s == [Get(Use(Freed(Here(t)), "store"), "ctx") EXCEPT !.left = @ \ {c}, !.cert = {c}]
       IN  Set(t, To(s, IF s.op = "ListCertificates" THEN "acquire" ELSE "provider"))

EnumEnd(t) ==
  /\ At(t, "enum")
  /\ Here(t).left = {}
  /\ Set(t, IF Here(t).op = "ListCertificates" THEN Return(Freed(Here(t)), "list")
            ELSE To(Freed(Here(t)), "close"))

\* A certificate that parses is in the list, once.
CertInfoFromContextWithoutKeyCheck(s) == [s EXCEPT !.out = @ \cup s.cert]

\* certProviderName: a provider that cannot be had is no provider.
Provider(t) ==
  /\ At(t, "provider")
  /\ \/ /\ Here(t).cert \subseteq OfProvider
        /\ Set(t, To(CertInfoFromContextWithoutKeyCheck(Use(Here(t), "ctx")), "enum"))
     \/ Set(t, To(Use(Here(t), "ctx"), "enum"))

\* The list by provider closes a store and opens the next.
CloseStore(t) ==
  LET s == Here(t) closed == IF "store" \in s.live THEN Free(s, "store") ELSE s IN
  /\ At(t, "close")
  /\ Set(t, IF s.todo # {} THEN To(closed, "open") ELSE Return(closed, "list"))

\* Mutant: nobody frees the context.
FindCert_no_defer(t) ==
  LET s == Use(Here(t), "store") IN
  /\ At(t, "find")
  /\ IF s.cert \subseteq s.left THEN Set(t, To(Get(s, "ctx"), "acquire"))
     ELSE Set(t, Return(s, "ErrCertificateNotFound"))

\* findCertByThumbprint.
FindCert(t) ==
  LET s == Use(Here(t), "store") IN
  /\ At(t, "find")
  /\ IF s.cert \subseteq s.left THEN Set(t, To(Defer(Get(s, "ctx"), "ctx"), "acquire"))
     ELSE Set(t, Return(s, "ErrCertificateNotFound"))

\* Mutant: a key is released whoever owns it.
AcquirePrivateKey_always_frees(t) ==
  /\ At(t, "acquire")
  /\ \/ /\ Here(t).cert \subseteq HasKey
        /\ \E cached \in BOOLEAN :
             LET s == [Get(Use(Here(t), "ctx"), "key") EXCEPT !.cached = cached] IN
             Set(t, IF s.op = "ListCertificates"
                    THEN To([Free(s, "key") EXCEPT !.out = @ \cup s.cert], "enum")
                    ELSE To(Defer(s, "key"), "sign"))
     \/ Set(t, IF Here(t).op = "ListCertificates" THEN To(Here(t), "enum")
               ELSE Return(Here(t), "ErrNoPrivateKey"))

\* hasPrivateKey frees the key it has asked for; a cached one belongs to its
\* context.
HasPrivateKey(s) == IF s.cached THEN s ELSE Free(s, "key")

\* The certificate is in the list if it has a key and parses.
CertInfoFromContext(s) == {HasPrivateKey(s), [HasPrivateKey(s) EXCEPT !.out = @ \cup s.cert]}

\* acquirePrivateKey for one of its two callers; signHashWithCert defers the
\* release of the key.
AcquirePrivateKey(t) ==
  /\ At(t, "acquire")
  /\ \/ /\ Here(t).cert \subseteq HasKey
        /\ \E cached \in BOOLEAN :
             LET s == [Get(Use(Here(t), "ctx"), "key") EXCEPT !.cached = cached] IN
             IF s.op = "ListCertificates"
             THEN \E listed \in CertInfoFromContext(s) : Set(t, To(listed, "enum"))
             ELSE Set(t, To(IF cached THEN s ELSE Defer(s, "key"), "sign"))
     \/ Set(t, IF Here(t).op = "ListCertificates" THEN To(Here(t), "enum")
               ELSE Return(Here(t), "ErrNoPrivateKey"))

\* signECDSA, signRSAPKCS1, signRSAPSS: NCryptSignHash for the size and
\* again for the signature; PSS with a key that is not RSA is refused.
SignHashWithCert(t) ==
  /\ At(t, "sign")
  /\ \E result \in {"signature", "error"} : Set(t, Return(Use(Here(t), "key"), result))

(***************************************************************************)
(* macOS                                                                   *)
(***************************************************************************)
\* get_mac_identities: the identities with their certificates; none if the
\* keychain does not answer.
get_mac_identities == {stores["CurrentUser"] \cap HasKey, {}}

\* getMacIdentitiesInternal: those that parse.  The callers defer the release
\* of the list.
GetIdentities(t) ==
  /\ At(t, "identities")
  /\ \E certs \in get_mac_identities : \E parsed \in SUBSET certs :
       LET s == [Defer(Get(Here(t), "list"), "list") EXCEPT !.all = certs, !.out = parsed] IN
       Set(t, CASE s.op = "ListCertificates" -> Return(s, "list")
                [] s.op = "ListCertificatesByProvider" ->
                     Return([s EXCEPT !.out = @ \cap OfProvider], "list")
                [] s.op = "SignHash" -> To(s, "match"))

\* The certificate, if it is there and has a key of a known kind that allows
\* the padding.
Match(t) ==
  /\ At(t, "match")
  /\ \/ Here(t).cert \subseteq Here(t).out /\ Set(t, To(Here(t), "privKey"))
     \/ Set(t, Return(Here(t), "error"))

\* mac_sign_hash: the private key of the identity ...
CopyPrivateKey(t) ==
  /\ At(t, "privKey")
  /\ \/ Set(t, To(Get(Use(Here(t), "list"), "privKey"), "create"))
     \/ Set(t, Return(Use(Here(t), "list"), "error"))

\* ... signs, and is released on every path; a signature is copied to a buffer
\* that SignHash frees.
CreateSignature(t) ==
  LET s == Free(Use(Here(t), "privKey"), "privKey") IN
  /\ At(t, "create")
  /\ \/ Set(t, To(Get(s, "sigBuf"), "copy"))
     \/ Set(t, Return(s, "error"))

CopySignature(t) ==
  /\ At(t, "copy")
  /\ Set(t, Return(Free(Use(Here(t), "sigBuf"), "sigBuf"), "signature"))

(***************************************************************************)
(* A function returns: its deferred releases, the last one first.          *)
(***************************************************************************)
RunDeferred(t) ==
  /\ At(t, "return")
  /\ IF Here(t).defers # <<>>
     THEN Set(t, [Free(Here(t), Head(Here(t).defers)) EXCEPT !.defers = Tail(@)])
     ELSE Set(t, To(Here(t), "idle"))

Step(t) ==
  \/ OpenStore(t) \/ EnumFails(t) \/ EnumNext(t) \/ EnumEnd(t) \/ Provider(t) \/ CloseStore(t)
  \/ FindCert(t) \/ AcquirePrivateKey(t) \/ SignHashWithCert(t)
  \/ GetIdentities(t) \/ Match(t) \/ CopyPrivateKey(t) \/ CreateSignature(t) \/ CopySignature(t)
  \/ RunDeferred(t)

NativeNext ==
  \/ Change
  \/ \E t \in Threads : Step(t) \/ \E op \in Ops, c \in Certs : Call(t, op, c)

NativeSpec == NativeInit /\ [][NativeNext]_nativeVars

-----------------------------------------------------------------------------
(***************************************************************************)
(* Properties                                                              *)
(***************************************************************************)
Objects == {"store", "ctx", "key", "list", "privKey", "sigBuf"}

\* Every variable keeps its type, and a store to be opened is left.
NativeTypeOK ==
  /\ platform \in {"windows", "darwin"}
  /\ certDir \in BOOLEAN
  /\ stores \in [Locations -> SUBSET Certs]
  /\ changes \in 0 .. MaxChanges
  /\ \A t \in Threads :
       /\ thread[t].live \subseteq Objects
       /\ thread[t].todo \subseteq Locations
       /\ thread[t].out \subseteq thread[t].all /\ thread[t].all \subseteq Certs
       /\ thread[t].pc = "open" => thread[t].todo # {}

(***************************************************************************)
(* Whatever fails, a function that has returned has released every store,  *)
(* context, key, list and buffer it got.                                   *)
(***************************************************************************)
ReleasedWhenDone == \A t \in Threads : thread[t].pc = "idle" => thread[t].live = {}

(***************************************************************************)
(* No object is used or released after it was released, by its owner or    *)
(* with the context that owns it, and none is lost by overwriting it.      *)
(***************************************************************************)
NoMisuse == \A t \in Threads : ~thread[t].misuse

(***************************************************************************)
(* ListCertificates on Windows returns no list that breaks off where the   *)
(* enumeration failed: it has looked at every certificate of the store.    *)
(***************************************************************************)
CompleteOrError ==
  \A t \in Threads :
    thread[t].op = "ListCertificates" /\ thread[t].result = "list" => thread[t].left = {}
=============================================================================
