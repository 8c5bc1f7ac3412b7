------------------------------ MODULE FileStore ------------------------------
(***************************************************************************)
(* The file-backed certificate store (internal/certstore/file_store.go)    *)
(* and the package functions over it on Linux (store_linux.go), as the     *)
(* gRPC service calls them (internal/server/service.go).                   *)
(*                                                                         *)
(* SetCertDir reads a directory file by file while files are written and   *)
(* removed; a certificate file is read twice, for its certificate and for  *)
(* its key, and the file "<basename>.key" may be read after it.  Requests  *)
(* look at the directory in one critical section and at the store in a     *)
(* second one.  The disk is external.                                      *)
(***************************************************************************)
EXTENDS StoreLookup

CONSTANTS
  Threads,       \* requests served at the same time
  Stems,         \* base names, each with one key file
  Stem,          \* [Files -> Stems]
  Contents,      \* what a certificate file may hold
  MaxEdits       \* bound: changes of the disk

\* What is behind a name: nothing (a folder counts as nothing), a file that
\* may not be read, or a file with or without a certificate (one that does not parse is
\* Garbage) and a private key.
Garbage == "garbage"
Absent == [kind |-> "absent", cert |-> {}, key |-> {}]
Sealed == [kind |-> "sealed", cert |-> {}, key |-> {}]
File(cert, key) == [kind |-> "file", cert |-> cert, key |-> key]
KeyFiles == {Absent} \cup {File({}, {k}) : k \in Keys} \cup {File({}, {})}

ASSUME FileStoreAssumption ==
  /\ Garbage \notin Certs
  /\ Stem \in [Files -> Stems]
  /\ \A x \in Contents :
       x \in {Absent, Sealed} \cup
             {File(c, k) : c \in {{}, {Garbage}} \cup {{d} : d \in Certs},
                           k \in {{}} \cup {{l} : l \in Keys}}
  /\ MaxEdits \in Nat

VARIABLES
  disk,          \* [Dirs -> [Files -> Contents]]
  keyDisk,       \* [Dirs -> [Stems -> KeyFiles]], the key files
  edits,         \* how often the disk has changed
  fileStoreDir,  \* the directory, or NoText
  fileStore,     \* the identities
  load,          \* the SetCertDir that is under way
  outcome,       \* what the last SetCertDir returned
  call,          \* [Threads -> the requests past the test of the directory, at most one]
  reply          \* [Threads -> the last answer]

diskVars == <<disk, keyDisk, edits>>
storeVars == <<fileStoreDir, fileStore>>
loadVars == <<load, outcome>>
callVars == <<call, reply>>
vars == <<diskVars, storeVars, loadVars, callVars>>

(***************************************************************************)
(* A load: where it is, the directory, the files still to be read, the     *)
(* certificate just read, the identities so far, and whether the disk is   *)
(* still as it was when the load began.                                    *)
(***************************************************************************)
Loading(pc, dir, todo, cert, out, quiet) ==
  [pc |-> pc, dir |-> dir, todo |-> todo, cert |-> cert, out |-> out, quiet |-> quiet]
NotLoading == Loading("idle", NoText, {}, {}, Empty, TRUE)

Init ==
  /\ disk \in [Dirs -> [Files -> Contents]]
  /\ keyDisk = [d \in Dirs |-> [s \in Stems |-> Absent]]
  /\ edits = 0
  /\ fileStoreDir = NoText
  /\ fileStore = Empty
  /\ load = NotLoading
  /\ outcome = "nil"
  /\ call = [t \in Threads |-> {}]
  /\ reply = [t \in Threads |-> Error("none", Request("none", NoText))]

\* Somebody writes or removes a file.
Edit(d) ==
  /\ edits < MaxEdits
  /\ edits' = edits + 1
  /\ \/ /\ \E f \in Files, x \in Contents : disk' = [disk EXCEPT ![d][f] = x]
        /\ UNCHANGED keyDisk
     \/ /\ \E s \in Stems, x \in KeyFiles : keyDisk' = [keyDisk EXCEPT ![d][s] = x]
        /\ UNCHANGED disk
  /\ load' = [load EXCEPT !.quiet = @ /\ d # load.dir]
  /\ UNCHANGED <<storeVars, outcome, callVars>>

(***************************************************************************)
(* SetCertDir                                                              *)
(***************************************************************************)
\* With the empty string.
ClearCertDir ==
  /\ load.pc = "idle"
  /\ fileStoreDir' = NoText
  /\ fileStore' = Empty
  /\ outcome' = "nil"
  /\ UNCHANGED <<diskVars, load, callVars>>

\* loadCertDir: the names of the certificate files, if they can be read.
ReadDir(d) ==
  /\ load.pc = "idle"
  /\ \/ load' = Loading("cert", d, {f \in Files : disk[d][f].kind \in {"file", "sealed"}}, {}, Empty, TRUE)
        /\ UNCHANGED outcome
     \/ outcome' = "error" /\ UNCHANGED load
  /\ UNCHANGED <<diskVars, storeVars, callVars>>

\* The file whose turn it is, as it is now.
AtFile(f) == f \in load.todo /\ \A g \in load.todo : f <= g
Read(f) == disk[load.dir][f]

Continue(l) == load' = l /\ UNCHANGED <<outcome, storeVars>>

\* Mutant: a load that fails leaves what it has read so far.
Abort_keeps_part ==
  /\ load' = NotLoading
  /\ outcome' = "error"
  /\ fileStore' = load.out
  /\ UNCHANGED fileStoreDir

\* An error anywhere ends the load; the store stays.
Abort == load' = NotLoading /\ outcome' = "error" /\ UNCHANGED storeVars

Skip(f) == [load EXCEPT !.pc = "cert", !.todo = @ \ {f}, !.cert = {}]

\* The first read: a file that is gone or cannot be read or whose
\* certificate does not parse ends the load, one without a certificate is
\* passed over.
CertFromFile(f) ==
  /\ load.pc = "cert"
  /\ AtFile(f)
  /\ \/ Read(f).kind # "file" /\ Abort
     \/ Read(f).cert = {Garbage} /\ Abort
     \/ Read(f).kind = "file" /\ Read(f).cert = {} /\ Continue(Skip(f))
     \/ \E c \in Read(f).cert \ {Garbage} :
          Continue([load EXCEPT !.pc = "key", !.cert = {c}])
  /\ UNCHANGED <<diskVars, callVars>>

\* The key must be the certificate's.
Accept(f, k) ==
  IF \A c \in load.cert : KeyOf[c] = k
  THEN Continue([Skip(f) EXCEPT !.out[f] = {[cert |-> c, key |-> k] : c \in load.cert}])
  ELSE Abort

\* The second read: a key in the certificate file itself.
KeyForFile(f) ==
  /\ load.pc = "key"
  /\ AtFile(f)
  /\ \/ Read(f).kind # "file" /\ Abort
     \/ \E k \in Read(f).key : Accept(f, k)
     \/ Read(f).kind = "file" /\ Read(f).key = {} /\ Continue([load EXCEPT !.pc = "sibling"])
  /\ UNCHANGED <<diskVars, callVars>>

\* The key file beside it.
SiblingKey(f) ==
  LET x == keyDisk[load.dir][Stem[f]] IN
  /\ load.pc = "sibling"
  /\ AtFile(f)
  /\ \/ x.key = {} /\ Abort
     \/ \E k \in x.key : Accept(f, k)
  /\ UNCHANGED <<diskVars, callVars>>

\* Mutant: every file that is left makes way for the new store.
Swap_too_early ==
  /\ load.pc = "cert"
  /\ load.out # Empty
  /\ fileStore' = load.out
  /\ fileStoreDir' = load.dir
  /\ load' = NotLoading
  /\ outcome' = "nil"
  /\ UNCHANGED <<diskVars, callVars>>

\* All files read: the new store replaces the old one.
Swap ==
  /\ load.pc = "cert"
  /\ load.todo = {}
  /\ fileStore' = load.out
  /\ fileStoreDir' = load.dir
  /\ load' = NotLoading
  /\ outcome' = "nil"
  /\ UNCHANGED <<diskVars, callVars>>

(***************************************************************************)
(* Requests                                                                *)
(***************************************************************************)
\* The service refuses a signature without a thumbprint; the package
\* refuses everything while CertDir() is empty.
CheckCertDir(t, q) ==
  /\ call[t] = {}
  /\ \/ /\ q = Request("SignHash", NoText)
        /\ reply' = [reply EXCEPT ![t] = Error("InvalidArgument", q)]
        /\ UNCHANGED call
     \/ /\ q # Request("SignHash", NoText)
        /\ fileStoreDir = NoText
        /\ reply' = [reply EXCEPT ![t] = Error("ErrUnsupportedPlatform", q)]
        /\ UNCHANGED call
     \/ /\ q # Request("SignHash", NoText)
        /\ fileStoreDir # NoText
        /\ call' = [call EXCEPT ![t] = {q}]
        /\ UNCHANGED reply
  /\ UNCHANGED <<diskVars, storeVars, loadVars>>

\* listFromFileStore, listFromFileStoreByProvider or signWithFileStore.
FromStore(t) ==
  /\ \E q \in call[t] :
       reply' = [reply EXCEPT ![t] = Answer(View(fileStoreDir, fileStore), q)]
  /\ call' = [call EXCEPT ![t] = {}]
  /\ UNCHANGED <<diskVars, storeVars, loadVars>>

SetCertDir ==
  \/ ClearCertDir \/ Swap
  \/ \E d \in Dirs : ReadDir(d)
  \/ \E f \in Files : CertFromFile(f) \/ KeyForFile(f) \/ SiblingKey(f)

Next ==
  \/ \E d \in Dirs : Edit(d)
  \/ SetCertDir
  \/ \E t \in Threads : FromStore(t) \/ \E q \in Requests : CheckCertDir(t, q)

Spec == Init /\ [][Next]_vars

-----------------------------------------------------------------------------
(***************************************************************************)
(* Properties                                                              *)
(***************************************************************************)
\* Every variable keeps its type; a store has at most one identity for each
\* file, and a load that is under way has a directory.
TypeOK ==
  /\ disk \in [Dirs -> [Files -> Contents]]
  /\ keyDisk \in [Dirs -> [Stems -> KeyFiles]]
  /\ edits \in 0 .. MaxEdits
  /\ fileStoreDir \in Dirs \cup {NoText}
  /\ fileStore \in Stores
  /\ load \in [pc : {"idle", "cert", "key", "sibling"}, dir : Dirs \cup {NoText},
               todo : SUBSET Files, cert : SUBSET Certs, out : Stores, quiet : BOOLEAN]
  /\ AtMostOne(load.cert)
  /\ load.pc # "idle" => load.dir \in Dirs
  /\ outcome \in {"nil", "error"}
  /\ call \in [Threads -> SUBSET Requests]
  /\ DOMAIN reply = Threads

(***************************************************************************)
(* The store with its files, its reads and its two critical sections       *)
(* behaves like one that is replaced and read in single steps: a SetCertDir*)
(* that fails changes nothing, one that succeeds leaves no trace of the old*)
(* directory, and no reply mixes two directories.                          *)
(***************************************************************************)
Abstract == INSTANCE AtomicStore WITH view <- View(fileStoreDir, fileStore)
IsAtomicStore == Abstract!Spec

(***************************************************************************)
(* A request for a certificate's thumbprint is never signed with the key   *)
(* of another certificate, however the directory is rewritten while it is  *)
(* read and whatever else in it begins with the same digits.               *)
(***************************************************************************)
SignedByItsKey ==
  \A t \in Threads, c \in Certs :
     /\ reply[t].kind = "signature"
     /\ NormalizeThumbprint[reply[t].request.arg] \in Thumbprints[c]
     => reply[t].key = {KeyOf[c]}

\* What a directory holds: its certificate files with their keys.
OnDisk(d) ==
  [f \in Files |->
     {[cert |-> c, key |-> k] :
        c \in disk[d][f].cert,
        k \in IF disk[d][f].key # {} THEN disk[d][f].key ELSE keyDisk[d][Stem[f]].key}]

(***************************************************************************)
(* A SetCertDir that succeeds while nobody touches the directory exposes   *)
(* every certificate in it, with the key in its file or else the one beside*)
(* it: no file is forgotten, doubled or given another file's key.          *)
(***************************************************************************)
LoadsWhatIsThere ==
  [][fileStoreDir' # NoText /\ storeVars' # storeVars /\ load.quiet
       => fileStore' = OnDisk(fileStoreDir')]_vars
=============================================================================
