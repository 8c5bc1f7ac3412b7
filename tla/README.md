# keyless-tls-proxy: TLA+ models, checks and proofs

The program lets applications on one machine sign with private keys that stay
on another. A *cert-server* holds the keys and answers two gRPC calls
(`ListCertificates`, `SignHash`). Providers on the client side make the remote
keys look local: a PKCS#11 module on Linux (`ksp11`), a key storage provider on
Windows (`ksp`), a CryptoTokenKit extension on macOS (`mac-provider`). All of
them reach the server through one Go client (`internal/kspclient`) exported as
a C library (`internal/kspbridge`, `internal/ctkbridge`).

## Inventory

| Part | State | Operations | Interacts with | Hard behaviour |
|---|---|---|---|---|
| `ksp11/ksp11.c` | initialised flag, bridge pointers, object table, session table, one signing operation per session slot, one global search | `C_Initialize`, `C_Finalize`, sessions, `C_FindObjects*`, `C_Sign*`, attribute queries | bridge (dlopen) | any order of calls; state left in reused slots; errors half way; size query followed by the real call |
| signing path | none (pure) | mechanism -> digest -> request -> scheme | ksp11, bridge, client, server, store | lengths, headers, PSS parameters and four encodings must agree |
| `internal/kspclient` | global client, connection, cached list and its time | `InitGlobal`, `ShutdownGlobal`, `AllKeys`, `InstalledKeys`, `SignHash` | bridge above, server below, platform store | threads, a mutex held during an RPC, timeouts, replacement of the client during calls |
| `internal/kspbridge`, `internal/ctkbridge` | none of their own | `tpmcert_*`, `ctk_bridge_*` | client below, C libraries above | two critical sections in `tpmcert_init`; key infos the caller must free |
| cert-server (`internal/server/service.go`, `cmd/cert-server`) | the store, goroutines, log file | `ListCertificates`, `SignHash`, start, stop | store, discovery | order of the start, requests during a graceful stop, a signal at any moment |
| file store (`internal/certstore/file_store.go`) | loaded identities under a RW mutex | `SetCertDir`, listing, signing | file system | files rewritten between two reads, load and swap, thumbprint prefixes |
| OS stores (`store_*.go`, `ncrypt.go`) | the operating system's | listing, signing | Windows, macOS | objects to release once on every path, enumeration that fails half way |
| discovery | socket, table of answers | probe, announce, collect | UDP | loss, duplication, late answers, termination |
| Windows KSP (`ksp/`) | provider and key handles, enumeration cursor | `KSP*` functions | bridge | enumeration of a changing list, unsynchronised lazy initialisation |
| macOS provider | tokens, keychain items | driver, session, helper | ctkbridge | one-time initialisation that cannot be retried |
| install and register tools | registry, certificate store, config file, the manager's screen | install, uninstall, register | OS, server, one another | partial failure and stops between steps, two tools at once |

What makes each of them correct: handles that never alias, state that never
leaks from one session to another, a signature that is exactly the one asked
for (ksp11); a list that is recent, a connection that is never leaked and calls
that always return (client); an atomic swap and the key that belongs to the
certificate (file store); every object released once (OS stores); a list of keys
that is the list (enumeration); termination and completeness (discovery); what
is reported is so, also after failing steps (installation, registration); no
accepted request without an answer (server).

## Modules

| Module | Models | Role |
|---|---|---|
| `SigningInput` | mechanism table, `parse_digest_info`, the digest of `do_sign`, hash and padding encodings, `CertService.SignHash`, the scheme of `signWithFileStore` | pure operators and the reference definition `Permitted` |
| `SigningPath` | one signature through all the stages | the pipeline TLC runs over all inputs |
| `Ksp11` | `ksp11.c` | state machine, one action per `C_*` call and outcome; extends `SigningInput` |
| `KspClient` | `client.go`, `bridge_linux.go`, `bridge.go` | state machine with threads, a clock and an external server |
| `Discovery` | `discovery.go`, `discovery_client.go` | state machine of servers, calls and UDP |
| `StoreLookup` | the identities of a file store and the answers they give | pure operators |
| `AtomicStore` | what the file store promises | abstract specification |
| `FileStore` | `file_store.go`, `store_linux.go`, the tests of `service.go` | state machine of disk, load and requests; implements `AtomicStore` |
| `NativeStore` | `store_windows.go`, `ncrypt.go`, `store_darwin.go` | state machine of calls with the objects they hold |
| `KeyBridge` | `kspbridge`, `ctkbridge` as used by `ksp.c`, `tpmcert_storage.c`, `ksp11.c`, `TokenDriver.m`, `Token.m`, `AppMain.m` | state machine of threads over a changing list of keys |
| `Install` | `ksp-install-cert`, `ksp-install-ui`, `config.go`, `install_windows.go` | state machine of two tools, the configuration file and the certificate store |
| `Registration` | `register_windows.go`, `ksp-register` | state machine of one run after another |
| `CertServer` | `cmd/cert-server/main.go` | state machine of the process |
| `MC*` | | instances for TLC |
| `*Proofs` | `CertServerProofs` covers `CertServer` and `NativeStore`, `InstallProofs` covers `Install` and `Registration`, `SigningPathProofs` covers `SigningPath` and `KeyBridge`; the others one module each | theorems and their proofs |

A proof module that covers two specifications extends both. They share no
variable, and one of the two has its own prefix on the names every specification
has (`RegSpec`, `NativeSpec`, `PathSpec`, and so `RegInit`, `NativeNext`,
`PathTypeOK`, ...; the others are `Spec`, `Init`, `Next`, `TypeOK`).

### SigningInput and SigningPath

Bytes are reduced to what the code distinguishes: an input has a length, the
DigestInfo header its first 19 bytes form (outer length and hash, or none) and
an identity. A digest records whether it is the whole input, what follows the
header, or a hash of the input. `DI_PREFIX` keeps the second byte of the C
tables, which is what the `digest_info` run is about. Key kinds are RSA, EC and
"other" (the server also loads Ed25519 keys, which it refuses to sign with and
which ksp11 shows as RSA objects). `Permitted` is written from the meaning of
the PKCS#11 mechanisms, not from the code: it does not mention
`parse_digest_info`, `BuildDigest`, `SignHash` or the encodings. One reading is
the module's own: a PSS hash it does not know means SHA-256, as the `default:`
of `C_SignInit` has it.

### Ksp11

Variables carry the names of the C globals; `g_sign[s]` is the `ksp_sign` of
slot `s`, and a `sign_reset` is one record. Each `C_*` function is an action,
its refusals are actions beside it (`SessionRefused` is the prologue all
session functions share, `SessionQuery` the functions that change nothing).
`C_Initialize` has one action per exit: refused, library not loaded, bridge not
initialised, no memory, success with any object table in `Enumerations`. The
bridge's RPCs may fail in any call (`do_sign_fails`). `ret` is what the last
call returned; `asked` is a history variable, what the application asked for in
each slot, from which the properties say what it should get.

Assumed: the application makes one call at a time (the module takes no lock);
certificates parse; the Go library stays mapped after `dlclose`, as Go shared
libraries do, so the bridge pointers remain callable; RSA keys are large enough
for the digests (2048 bits are). The length of a signature as returned is fixed
per key (an EC signature is converted to `r||s`); the size of the DER form,
which varies, only decides whether an RPC fails.

### KspClient

A thread is idle, between the two halves of `tpmcert_init`, in a ping, waiting
for `Client.mu`, in a refresh, or in a signature. Critical sections without an
RPC are single actions (`globalMu` is never held across one); a refresh holds
`mu` from `RequestList` to `ListArrives` or `ListFails`, and the server answers
(`ListCertificates`) somewhere in between, so the list may be out of date when
it arrives. The clock is discrete; `Tick` waits for threads whose deadline has
come, that is, an expired context ends its RPC before time moves on. `res` is
what the last step returned, if it was the end of a call, with the age of the list
in it. On Linux the bridge
calls `AllKeys` and `SignHashDirect` and pings in `tpmcert_init`; on Windows it
calls `InstalledKeys` and `SignHash` and does not ping: `Ops`, `StoreAnswers`
and `PingOnInit` select the platform. The server, its certificates, contexts,
connections and the platform's store are external.

### Discovery

A client is one call of `DiscoverServers`, with its goroutine (`reader`), its
socket (`inbox`, `port`) and its table (`seen`); a server is one `RunDiscovery`
loop. Addresses are numbers, a mask is the size of its subnet, and
`sameSubnet`, `broadcastAddr`, `localIPFor` and `grpcAddrForClient` compute
with them; port numbers of listeners, versions and the source address of an
announcement are left out, and so is the order of the result (its keys are
unique). Copies of a probe are put on the wire at once; a copy that is never
handled is a lost one. The socket that receives an answer is the one that has
its port *now*, perhaps a later call's. Hosts, interfaces, who hears a datagram
and from which source it comes are external (`Hears`, `Sources`); a broadcast is
heard on the sender's subnet. `intime` and `silent` are history variables. A
context may end before the reader starts, since callers pass one of their own.
The reader's timed-out read (`ReadTimeout`) and its look at the context
(`LookAtContext`) are two steps: answers may come and the context may end between
them. Datagrams that are no announcements reach the socket without end (`Noise`);
the reader skips one without a look at the context (`ReadOther`). The reader is
taken to reach its read within the 200 ms of the deadline it has just set.

### StoreLookup, AtomicStore and FileStore

A store maps the certificate files of a directory, in their order, to at most
one identity each. `StoreLookup` has what both specifications say with the same
words: `List` (by provider name: everything for the provider's own name or none,
else if the name is part of "file store: " and the directory, ignoring case, which
the constant `NameContains` gives), the search for a thumbprint and then for a prefix
(`Candidates`), and the first match (`Matched`). `NormalizeThumbprint` is a
constant function that maps texts to texts; two thumbprints of the instance
share a beginning, and one text has separators only.

`FileStore` follows `SetCertDir` read by read: the directory, then for each file
the certificate (`CertFromFile`), the same file again for its key
(`KeyForFile`), and the key file beside it (`SiblingKey`). Anything may be
written or removed between two reads (`Edit`). A request looks at `CertDir()`
in one critical section (`CheckCertDir`) and at the store in a second one
(`FromStore`). The cert-server calls `SetCertDir` once, before it serves; the
model lets it be called at any time, as the exported function allows.
`IsAtomicStore` is the refinement: with the directory and the identities as
`view`, every step is one of `AtomicStore` or changes nothing there. Its content
is in `Load`, which demands that every key belongs to its certificate, in
`LoadFails`, which leaves the view, and in `Serve`, which answers from one view.

### NativeStore

A call holds objects of the system (`live`) and has deferred releases
(`defers`, run by `RunDeferred` in reverse order, as Go does). `Get`, `Use` and
`Free` record a use or a release of something that is gone, and an object that
is overwritten. A key asked for with the cache flag may belong to the context
(`cached`) and then goes with it; `CertEnumCertificatesInStore` frees the context
it is given also when it fails. Certificate fields and digest checks are data.

### KeyBridge

One process with one of four libraries (`host`): they share the bridge's calls
and differ in how they start it (`EnsureBridge`: a flag without a lock on
Windows, `dispatch_once` in the token, a call of the application in ksp11, any
number of times in the app) and in what a failed key does to an enumeration
(`NotHad`). The list of keys is what the client would answer at this moment;
`seen` records the lists there were since a call began. `overlap` records that
two threads were in `tpmcert_init` at once.

### Install

A command of a tool is a sequence of steps (`Plan`) that is taken one by one and
may fail or be stopped at each. The command line tool saves the resolved address
before it calls the server; the manager binds first, saves the address as typed
and drops the error. `os.WriteFile` is two steps, so a stopped tool leaves an
empty file and two tools may leave a mixture. An address without a port is
dialled at 443 by gRPC (`Dial`), while both tools fill in 50051 for their own
calls. `quiet` and `fresh` are history variables: an install during which nothing
else changed, until somebody does anything else. The screen of the manager is
what its lists gave, with the refreshes of `ui/app.js` after each command. On
Windows `ListCertificatesByProvider` passes over a store that does not open, stops
at an error of the enumeration and reports neither, and `ListRemoteCertificates`
would drop an error of it, so either list may cover a part of the store
(`StoreLists`); `boundNow` and `remoteNow` remember which it was.

### Registration

`Register` is five calls of the system, `Unregister` the first two. A call that
fails changes nothing; "not found" and "already exists" are successes that
change nothing either. A registration that is there already stays as it is.

### CertServer

`main` step by step, with the goroutines of gRPC and discovery beside it. A
signal ends a process that has not called `signal.Notify` yet; later the channel
keeps one. `GracefulStop` is two steps: no new requests, then the wait for the
old ones. The log is a sequence of characters and newlines.

## Runs

| Run | Instance | Checks |
|---|---|---|
| `signing_path` | all 12 mechanisms, 5 PSS parameters, 3 key kinds, lengths around every boundary, headers with every outer length of interest | `SignedAsPermitted`, `ConformingIsSigned` |
| `digest_info` (violation) | the same | `DigestInfoIsSigned` |
| `ksp11` | 2 slots, 3 handles, 2 object tables, 2 templates, 2 parts, 6 mechanisms, 2 parameters, buffers too small and large enough | handles, cleanup, chosen key, search, finalisation, operation state, delivered signature, size query |
| `client` | 2 threads, 2 clients, 2 time units, all operations and stores of the bridge | one connection, mutex, freshness, order of answers, every call returns |
| `client_fallback` (violation) | 2 threads, Windows store | fallback of `InstalledKeys` |
| `discovery` | 2 calls on 1 port, 1 server on 2 LANs, 3 targets, other datagrams at the client | address announced, answers in time, silence, service of what is listed, termination |
| `file_store` | 2 certificate files, 8 contents each, 1 key file, 1 edit | refinement of `AtomicStore`, key of the certificate asked for, completeness of a load |
| `install` | both tools, 1 certificate, 1 change, a store read wholly or in part | an install is usable, the screen is current |
| `registration` | 3 failures or stops | reports are true, an undisturbed run repairs |
| `native_store` | 3 certificates in 2 stores, both platforms | release on every path, no misuse, no list that breaks off |
| `bridge` | 2 threads, 2 keys, 4 libraries, 1 change of the list | the enumeration gives the list, key infos are freed, ready means there is a client, no removed key signs |
| `cert_server` | 2 requests, logs of up to 6 bytes, bound 3 | port bound when announced, no answer lost, log bounded, a signal ends the server |

Type invariants. Each module states one (`TypeOK`, or with its prefix). The one of
`Ksp11` is checked and proved; those of `KspClient`, `Discovery` and `FileStore` are
conjuncts of the inductive invariants that are proved (`Invariance`), and that of
`Install` follows from its own (`InstallTyping`). In the other modules it documents the variables; it holds on the instances of the runs, whose
configurations do not list it.

Bounds. In `ksp11` two slots and three handles let a slot be reused while the
other is busy, fill the table, and leave an old handle that a mistake could
revive; two object tables of different length and order tell an index that
survived re-enumeration from the right one; two parts make a digest of two halves.
The constraint `OneThingAtATime` keeps the product of all this small: two open
sessions and searches go with plain operations, and the whole variety of signing
calls (size queries, parts, buffers, parameters) is for one slot, used by two
sessions in turn. Slots share nothing but the object table, and the proofs need
no such bound.
In `client` a unit is 15 s: an RPC may take one unit, a call two, and a list lives
for one, half of the code's 30 s, so that within two units it ages, expires and is
replaced, and a call runs out while it waits for the mutex. Two clients let a
client and its replacement overlap.
In `discovery` the server lists the LAN the client is not on first, so a wrong
interface shows; a probe reaches it by three targets, which gives late, doubled
and reordered answers; the one port makes the second call receive what was meant
for the first.
Two files with every kind of content cover a load that fails at the first, in
between and at the last, and the one edit falls between any two reads; more edits
only rewrite what was not read yet. The order of the two certificates' files is
free, since any content may be in either. In `bridge` one change lets a list lose
a key, gain one or change its order under an enumeration (keys and threads are
symmetric). Three faults let an unregistration fail in both calls and a run after
it be stopped. Logs of twice the bound have newlines at every position of the cut.
One certificate is enough for `install`: commands on different certificates do not
interact except through the file, which every command shares.
`CHECK_DEADLOCK FALSE` is only in runs whose specification really ends: the
pipeline of one signature, `Ksp11` after a crash or with its handles used up,
discovery when all calls have returned, and the server when it has exited. The
file store, the native stores, the bridge and the tools wait for somebody to call
them.

Fairness (`KspClient`). A thread that can go on or whose RPC can end does so
(weak fairness of `Proceed`): every RPC runs under a context with a timeout and
closing a connection fails its RPCs. A thread waiting for `Client.mu` gets it
if it is free again and again (strong fairness of `Lock`): Go's `sync.Mutex`
hands over to a waiter after 1 ms. Nothing is assumed about the server, the
clock or the arrival of calls.

Fairness (`Discovery`). Both goroutines of a call go on and its timer fires (weak
fairness of `MainStep`, `ReaderStep` and `Expire`). Nothing is assumed of servers
and network, in particular not that the socket is ever quiet. `Returns` says that a
call ends or reads datagrams that are no announcements for ever; announcements are
finitely many in the model, as each answers one copy of a probe.

Fairness (`Registration`). The tool makes its next call unless it is stopped
(weak fairness of `Call`); it need never be started.

Fairness (`CertServer`). Go's scheduler lets `main` go on (`Stop`,
`GracefulStop`, `Exit`), and a request ends (`Answer`). The last is an assumption
about the stores: a signature that waits for a person (a smart card's PIN) keeps
`GracefulStop` waiting, and a second signal does not help.

What the runs show. The two violations are disagreements between the source and
its own comments. `parse_digest_info` accepts no genuine SHA-384 or SHA-512
DigestInfo, as its tables have the outer length of SHA-256; OpenSSL users meet
it with raw `CKM_RSA_PKCS` and those hashes, digest mechanisms are unaffected.
`InstalledKeys` falls back to the remote list only on an unsupported platform,
not for an empty store as the comment above the test says.

Other weaknesses are in the models, since they are in the code, and the properties
are stated so as to leave them out. A server that listens on all addresses drops a
unicast probe whose source is on none of its subnets, over loopback for one. The
file store signs with its first certificate when the thumbprint has only
separators, since the test "thumbprint is required" looks at the text before it is
normalised. The macOS store ignores a configured directory in two of its three
functions. The connection test of the macOS app never asks the server. An install
by the manager may leave a configuration that does not work (address without a
port, or an error of the save that is dropped). A removal deletes a certificate
whose key belongs to somebody else. The timeout of a discovery, "how long to wait for
server replies" in the help of `run-discovery`, ends a call only once its socket has
been quiet for 200 ms: datagrams of any kind that keep coming hold it for ever (TLC
shows it at once without the second disjunct of `Returns`). The manager shows an incomplete list of the
store as if it were complete. And `Register` keeps an earlier registration
if its removal failed.

Everything else holds. Some things hold only in the form stated. The search is
excluded from `FindWithinTable` once it is older than a `C_Finalize` (which does
not end it): a `C_FindObjects` after re-initialisation reports handles of the
old table until somebody calls `C_FindObjectsFinal`. A kept signature answers
the *first* signing call of its operation, whatever data the follow-up call
passes. `InTimeIsFound` is about answers that came before the reader's last read
ended: one that comes after it, when the context ends before the reader looks at
it, is lost although it was in time. `FoundIsReachable`
leaves out servers bound to a loopback address, the default: they announce their
LAN address to other hosts, as a unit test wants, and do not listen on it.
`C_Finalize` before any successful load calls a NULL pointer
(`FinalizeCrashes`); `FinalizeSafe` says this cannot happen to an initialised
module. An enumeration under which the list changes may list a key twice or leave
one out; `ListsTheKeys` bounds it by its count and to keys that were there.
`ReadyHasClient` excepts two threads in `EnsureBridge` at once: the failure of
the second closes the client of the first, which then stays ready without one.
ksp11 signs without looking for the key again (`SignHashDirect`); the server has
the last word there, so `SignsInstalledKeys` is about the others.
`ListCertificatesByProvider` returns what it has when an enumeration fails;
`CompleteOrError` is about `ListCertificates`. On macOS `InstalledKeys` looks in
the keychain, where the certificates are only once the token is in use.

Each property has a mutant in its module (a definition whose name extends the
original's, `C_CloseSession_keeps_sign`): the same code with a plausible slip,
under which the property fails.

## Proofs

`SigningInputProofs` proves by cases on mechanism, key kind and input that what
the server signs is permitted (`ServedAsPermitted`), for inputs of any length;
`SigningPathProofs` lifts that to the pipeline, and proves the converse too: a
conforming call (`Conforming`) is refused by no stage (`PathSignsConforming`), from
what each mechanism makes of a message or a bare digest. Assumption: the types of
the constants (`SigningPathAssumption`).

`Ksp11Proofs` proves the invariants of the module for every `MaxSessions`, key
set, object table, mechanism set, input and bound. The inductive invariant is
the conjunction of nine named parts, none inductive alone: that a delivered
signature is permitted needs that the kept one is (`OperationAsAsked`), which
needs the key of an operation not to change (`SignOnChosenKey`), which needs a
newly opened session to start clean (`NothingLeftBehind`) and handles not to
alias (`HandlesUnique`). The server's part is `ServedAsPermitted`, cited as a
lemma. `ClosedForever` is an action property from the same invariant.
Assumption: `Ksp11Assumption` (types of the constants).

`KspClientProofs` proves, for every number of threads, clients and certificates
and all timeouts, `OneConnection`, `MutexHeld`, `ListIsFresh` and
`NeverAnOlderList`. The strengthening says of an answer on its way that it was
given during its call, within its deadline and not before the list its client
holds (`InFlight`), and of a cached list that it arrived within an RPC timeout
of being given (`Punctual`). Assumption: `KspClientAssumption` (types, a positive
time to live).

`DiscoveryProofs` proves `FoundIsReachable`, `OfTheService`, `InTimeIsFound` and
`BroadcastAnswered` for every topology, number of calls, servers, ports and
copies. The strengthening follows a datagram from the wire to the table: a probe
carries an address of its host and was heard (`ProbesHeard`), an announcement is
good wherever it waits (`AnswersGood`), and what came before the last read ended is
in the socket or in the table, and in the table once a read has timed out
(`InTimeKept`; only a reader that goes on counts what came since as in time). That `localIPFor` finds an interface uses that a set
of numbers has a least one. Assumptions: `DiscoveryAssumption` (types, broadcast
addresses within the address space) and `ConsistentMasks` (hosts on one subnet
agree on its mask, no subnet takes in loopback), without which a server's idea
of "same subnet" says nothing about the client.

`FileStoreProofs` proves, for all directories, files, certificates and threads and
any rewriting of the disk, that the store implements `AtomicStore`, signs with the
key of the certificate asked for and loads what is there. The strengthening says
that every key in the store and in the one being built is its certificate's
(`GoodKeys`), and of a load nobody disturbed that the files passed are in the new
store as they are on disk, those to come are not, and what was read of the file at
hand is still in it (`Followed`). That the first match signs with the right key
rests on `ThumbprintAssumption`: a thumbprint is a hash, so no other certificate
has it or begins with it. The lookup of the abstract store is shown equal to the
detailed one's operator by operator (`SameLookup`, `SameAnswer`), and each step is
matched in `StepSimulation`.

`CertServerProofs` proves `AnnouncedIsBound`, `NoAnswerLost` and `LogIsBounded` for
any log and any number of requests. For the first two the strengthening ties the
port to the place `main` has reached (`PortBound`, `ResponderLate`) and says that no
answer is lost while the process runs (`Answering`). `LogIsBounded` is a fact about
one cut (`CutBounds`: what is left starts after the first newline of the last
`MaxLogSize` bytes, or is those bytes), carried through the run by `LogInv`. That
there is a first newline uses that a set of numbers has a least one. Assumption:
`CertServerAssumption` (types).

The same module proves `ReleasedWhenDone`, `NoMisuse` and `CompleteOrError` of
`NativeStore`, for any number of calls at once, any stores and any changes of them.
The inductive invariant (`NativeInv`) is a table, `Owned`: for every place in every
function it names the objects that are held, the releases that are deferred, in
their order, and whether the key belongs to the context. None of the three
properties is inductive without it: that nothing is left at the return depends on
the deferred releases being exactly those of the objects held, and that no release
comes twice on the context never being both deferred and freed by the enumeration.
`Whole` says that a list on its way to be returned has nothing left to enumerate. No
assumption on the constants is used.

`InstallProofs` proves `ReportIsTrue` of `Registration` for any number of runs,
failures and stops: `RegBehind` says what the calls a run has behind it have done,
and that only a later call of the same run undoes it. And it proves
`InstalledIsUsable` and `ScreenIsCurrent` of `Install`, for any number of tools of
both kinds, certificates, addresses and changes. Its inductive invariant has five parts: the world
and the tools have their types and every step is in its place in the plan of its
command (`World`, `ToolsFormed`, `ScreensFormed`); an install that nothing disturbed
has achieved what its steps so far are for (`Carrying`: the file has been written with
an address that reaches the server, the certificate is offered, it is bound); and a
screen with refreshes still to come is the store's as far as those will not repair
it (`Showing`: nothing it shows is missing there, and it is all of it if the list
was complete). The properties speak about ended commands only, so they say nothing
about the steps that lead there. Assumption: `InstallAssumption` (types, the two kinds
of tools are different).

`SigningPathProofs` also proves the four invariants of `KeyBridge`, for any number of
threads, any finite set of keys and any changes of the list. `EnumInv` follows each
thread (`Sound`): the enumeration is within its count (`WithinCount`); what it has
listed was there at some time, and is the list so far if nothing has changed and no
key failed (`ListedSoFar`); it holds a key info only between the call that allocates
it and the one that frees it (`InfoHeld`); it has seen every list since its call began
(`Watching`). `ReadyInv` is about all threads together: as long as no two of them
were in `tpmcert_init` at once, one at most starts the bridge, nobody is ready
before it ends, and the client is there from `tpmcert_init` on (`OneStarts`).
Assumption: `KeyBridgeAssumption` (types, finitely many keys).

The inductive invariants of `NativeStore`, `Install` and `KeyBridge`, the least
obvious ones, were also checked by TLC on the instances of their runs.

With this every invariant and every action property of the runs, and the refinement,
is a theorem. Only model-checked are the four liveness properties
(`EveryCallReturns`, `Returns`, `RegisterRepairs`, `SignalEnds`): fairness and
`ENABLED` are out of the prover's reach. The two properties of the violation runs
are false of the code and have no theorem.

## Not modelled

- Attribute values of objects, slot and token information, the random generator
  and debug output of ksp11; two threads inside it at once (it has no lock and
  promises nothing, so every outcome would be allowed).
- Properties, algorithm queries and unsupported functions of the Windows
  provider, which keep no state; on macOS the digest handling of `TokenSession`,
  `KeychainHelper`, and the app apart from its connection test: Objective-C glue
  around system calls.
- Contents of certificates, wording, formatting, rendering, logging. `SaveConfig`
  makes the paths of keys absolute, also where a PEM text stands in place of a
  path; `ksp-install-cert` reads its input through two buffers in turn. Both are
  about text only.
- TLS and gRPC below the level of a call that succeeds, fails or times out.
- The demonstration programs, `gencerts`, `SelectFile`, generated and test code.

## Plan

1. `SigningInput`, `SigningPath`: done, proved.
2. `Ksp11`: done, proved.
3. `KspClient`: done, safety proved.
4. `Discovery`: done, safety proved.
5. `StoreLookup`, `AtomicStore`, `FileStore`: done, refinement proved.
6. `CertServer`: done, safety of the start and the stop proved.
7. `NativeStore`, `KeyBridge`, `Install`, `Registration`: done, safety proved.

Left: an abstract token (a signature only after an operation was begun, exactly one
per operation) that `Ksp11` implements, with the refinement checked and proved.
