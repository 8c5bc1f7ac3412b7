--------------------------- MODULE FileStoreProofs ---------------------------
(***************************************************************************)
(* Proofs about the file-backed certificate store: for all directories,    *)
(* files, certificates and threads, however the disk is rewritten during a *)
(* load, it implements AtomicStore, signs with the key of the certificate  *)
(* asked for, and loads what is there.                                     *)
(***************************************************************************)
EXTENDS FileStore, TLAPS

\* The keys of the store and of the one being built are their certificates'.
GoodKeys == Good(fileStore) /\ Good(load.out)

(***************************************************************************)
(* A load under which the directory did not change: the files passed are   *)
(* in the new store as they are on disk, the ones to come are not, and     *)
(* what was read of the file at hand is in it.                             *)
(***************************************************************************)
Followed ==
  load.pc # "idle" /\ load.quiet =>
    /\ \A f \in Files \ load.todo : load.out[f] = OnDisk(load.dir)[f]
    /\ \A f \in load.todo : load.out[f] = {}
    /\ \A f \in load.todo :
         AtFile(f) =>
           /\ load.pc \in {"key", "sibling"} => Read(f).cert = load.cert
           /\ load.pc = "sibling" => Read(f).key = {}

Inv == TypeOK /\ GoodKeys /\ Followed /\ SignedByItsKey

-----------------------------------------------------------------------------
\* What a certificate file and a key file may hold.
LEMMA ContentShape ==
  ASSUME NEW x \in Contents
  PROVE  /\ x.kind \in {"absent", "sealed", "file"}
         /\ x.kind \in {"absent", "sealed"} => x.cert = {} /\ x.key = {}
         /\ x.cert \subseteq Certs \cup {Garbage} /\ AtMostOne(x.cert)
         /\ x.key \subseteq Keys /\ AtMostOne(x.key)
<1>1. x \in {Absent, Sealed} \/ \E c \in {{}, {Garbage}} \cup {{d} : d \in Certs},
                                   k \in {{}} \cup {{l} : l \in Keys} : x = File(c, k)
  BY FileStoreAssumption
<1>2. CASE x \in {Absent, Sealed}
  BY <1>2 DEF Absent, Sealed, AtMostOne
<1>3. ASSUME NEW c \in {{}, {Garbage}} \cup {{d} : d \in Certs},
             NEW k \in {{}} \cup {{l} : l \in Keys}, x = File(c, k)
      PROVE  /\ x.kind = "file"
             /\ x.cert \subseteq Certs \cup {Garbage} /\ AtMostOne(x.cert)
             /\ x.key \subseteq Keys /\ AtMostOne(x.key)
  BY <1>3 DEF File, AtMostOne
<1> QED BY <1>1, <1>2, <1>3

LEMMA KeyFileShape ==
  ASSUME NEW x \in KeyFiles
  PROVE  x.key \subseteq Keys /\ AtMostOne(x.key)
BY DEF KeyFiles, Absent, File, AtMostOne

\* An identity made of the certificate read and a key that fits it.
LEMMA NewIdentity ==
  ASSUME TypeOK, NEW f \in Files, NEW k \in Keys, \A c \in load.cert : KeyOf[c] = k,
         Good(load.out),
         NEW out, out = [load.out EXCEPT ![f] = {[cert |-> c, key |-> k] : c \in load.cert}]
  PROVE  out \in Stores /\ Good(out)
<1> DEFINE new == {[cert |-> c, key |-> k] : c \in load.cert}
<1>1. load.cert \subseteq Certs /\ AtMostOne(load.cert) /\ load.out \in Stores
  BY DEF TypeOK
<1>2. new \in SUBSET Identities /\ AtMostOne(new) /\ \A i \in new : i.key = KeyOf[i.cert]
  BY <1>1 DEF Identities, AtMostOne
<1>3. load.out \in [Files -> SUBSET Identities] /\ \A g \in Files : AtMostOne(load.out[g])
  BY <1>1 DEF Stores
<1> HIDE DEF new
<1>4. out = [load.out EXCEPT ![f] = new]
  BY DEF new
<1>5. out \in [Files -> SUBSET Identities]
      /\ \A g \in Files : out[g] = IF g = f THEN new ELSE load.out[g]
  BY <1>2, <1>3, <1>4
<1> QED BY <1>2, <1>3, <1>5 DEF Stores, Good

\* A step that leaves the replies alone keeps what they say.
LEMMA RepliesKept ==
  ASSUME SignedByItsKey, UNCHANGED reply
  PROVE  SignedByItsKey'
BY DEF SignedByItsKey

-----------------------------------------------------------------------------
\* The disk changes, under a load or not.
LEMMA EditStep ==
  ASSUME Inv, NEW d \in Dirs, Edit(d)
  PROVE  Inv'
<1>1. /\ load' = [load EXCEPT !.quiet = @ /\ d # load.dir]
      /\ UNCHANGED <<fileStoreDir, fileStore, outcome, call, reply>>
      /\ edits \in 0 .. MaxEdits /\ edits < MaxEdits /\ edits' = edits + 1
  BY DEF Edit, storeVars, callVars, Inv, TypeOK
<1>2. /\ disk' \in [Dirs -> [Files -> Contents]]
      /\ keyDisk' \in [Dirs -> [Stems -> KeyFiles]]
      /\ \A e \in Dirs \ {d} : disk'[e] = disk[e] /\ keyDisk'[e] = keyDisk[e]
  <2>1. disk \in [Dirs -> [Files -> Contents]] /\ keyDisk \in [Dirs -> [Stems -> KeyFiles]]
    BY DEF Inv, TypeOK
  <2>2. ASSUME NEW f \in Files, NEW x \in Contents, disk' = [disk EXCEPT ![d][f] = x],
               UNCHANGED keyDisk
        PROVE  <1>2!1 /\ <1>2!2 /\ <1>2!3
    BY <2>1, <2>2
  <2>3. ASSUME NEW s \in Stems, NEW x \in KeyFiles, keyDisk' = [keyDisk EXCEPT ![d][s] = x],
               UNCHANGED disk
        PROVE  <1>2!1 /\ <1>2!2 /\ <1>2!3
    BY <2>1, <2>3
  <2> QED BY <2>2, <2>3 DEF Edit
<1>3. /\ load'.pc = load.pc /\ load'.dir = load.dir /\ load'.todo = load.todo
      /\ load'.cert = load.cert /\ load'.out = load.out
      /\ load'.quiet = (load.quiet /\ d # load.dir)
      /\ load' \in [pc : {"idle", "cert", "key", "sibling"}, dir : Dirs \cup {NoText},
                    todo : SUBSET Files, cert : SUBSET Certs, out : Stores, quiet : BOOLEAN]
  BY <1>1 DEF Inv, TypeOK
<1>4. TypeOK'
  <2>1. edits' \in 0 .. MaxEdits
    BY <1>1, FileStoreAssumption
  <2> QED BY <1>1, <1>2, <1>3, <2>1 DEF Inv, TypeOK
<1>5. GoodKeys'
  BY <1>1, <1>3 DEF Inv, GoodKeys, Good
<1>6. Followed'
  <2> SUFFICES ASSUME load'.pc # "idle", load'.quiet PROVE Followed'
    BY DEF Followed
  <2>1. disk'[load.dir] = disk[load.dir] /\ keyDisk'[load.dir] = keyDisk[load.dir]
        /\ load.pc # "idle" /\ load.quiet
    BY <1>2, <1>3 DEF Inv, TypeOK
  <2>2. OnDisk(load.dir)' = OnDisk(load.dir)
    BY <1>3, <2>1 DEF OnDisk
  <2>3. \A f \in Files : (Read(f)' = Read(f)) /\ (AtFile(f)' <=> AtFile(f))
    BY <1>3, <2>1 DEF Read, AtFile
  <2>4. load.todo \subseteq Files
    BY DEF Inv, TypeOK
  <2> QED BY <1>3, <2>1, <2>2, <2>3, <2>4 DEF Inv, Followed
<1> QED BY <1>1, <1>4, <1>5, <1>6, RepliesKept DEF Inv

\* A load that ends with an error, or a directory that cannot be read.
LEMMA AbortStep ==
  ASSUME Inv, Abort, UNCHANGED <<diskVars, callVars>>
  PROVE  Inv'
<1>1. Empty \in Stores /\ Good(Empty)
  BY DEF Empty, Stores, Good, AtMostOne
<1>2. TypeOK'
  BY <1>1 DEF Inv, TypeOK, Abort, NotLoading, Loading, storeVars, diskVars, callVars, AtMostOne
<1>3. GoodKeys'
  BY <1>1 DEF Inv, GoodKeys, Abort, NotLoading, Loading, storeVars, Good
<1>4. Followed'
  BY DEF Followed, Abort, NotLoading, Loading
<1> QED BY <1>2, <1>3, <1>4, RepliesKept DEF Inv, callVars

\* SetCertDir("").
LEMMA ClearStep ==
  ASSUME Inv, ClearCertDir
  PROVE  Inv'
<1>1. Empty \in Stores /\ Good(Empty)
  BY DEF Empty, Stores, Good, AtMostOne
<1>2. TypeOK'
  BY <1>1 DEF Inv, TypeOK, ClearCertDir, diskVars, callVars
<1>3. GoodKeys'
  BY <1>1 DEF Inv, GoodKeys, ClearCertDir, Good
<1>4. Followed'
  BY DEF Followed, ClearCertDir
<1> QED BY <1>2, <1>3, <1>4, RepliesKept DEF Inv, ClearCertDir, callVars

\* The names are read: what is no file has no certificate.
LEMMA ReadDirStep ==
  ASSUME Inv, NEW d \in Dirs, ReadDir(d)
  PROVE  Inv'
<1> DEFINE todo == {f \in Files : disk[d][f].kind \in {"file", "sealed"}}
<1>1. Empty \in Stores /\ Good(Empty)
  BY DEF Empty, Stores, Good, AtMostOne
<1>2. CASE outcome' = "error" /\ UNCHANGED load
  <2>1. TypeOK' /\ GoodKeys'
    BY <1>2 DEF Inv, TypeOK, GoodKeys, Good, ReadDir, diskVars, storeVars, callVars
  <2>2. Followed'
    BY <1>2 DEF Inv, ReadDir, diskVars, Followed, OnDisk, Read, AtFile
  <2> QED BY <2>1, <2>2, RepliesKept DEF Inv, ReadDir, callVars
<1>3. CASE load' = Loading("cert", d, todo, {}, Empty, TRUE) /\ UNCHANGED outcome
  <2>1. UNCHANGED <<disk, keyDisk, edits, fileStoreDir, fileStore, call, reply>>
    BY DEF ReadDir, diskVars, storeVars, callVars
  <2>2. load' = [pc |-> "cert", dir |-> d, todo |-> todo, cert |-> {}, out |-> Empty, quiet |-> TRUE]
    BY <1>3 DEF Loading
  <2> HIDE DEF todo
  <2>3. todo \in SUBSET Files
    BY DEF todo
  <2>4. TypeOK'
    <3>1. load' \in [pc : {"idle", "cert", "key", "sibling"}, dir : Dirs \cup {NoText},
                     todo : SUBSET Files, cert : SUBSET Certs, out : Stores, quiet : BOOLEAN]
      BY <1>1, <2>2, <2>3
    <3>2. AtMostOne(load'.cert) /\ load'.dir \in Dirs
      BY <2>2 DEF AtMostOne
    <3> QED BY <1>3, <2>1, <3>1, <3>2 DEF Inv, TypeOK
  <2>5. GoodKeys'
    BY <1>1, <2>1, <2>2 DEF Inv, GoodKeys, Good
  <2>6. \A f \in Files \ todo : disk[d][f].cert = {}
    BY ContentShape DEF todo, Inv, TypeOK
  <2>7. \A f \in Files \ todo : OnDisk(d)[f] = {}
    BY <2>6 DEF OnDisk
  <2>8. OnDisk(d)' = OnDisk(d)
    BY <2>1 DEF OnDisk
  <2>9. Followed'
    BY <2>2, <2>3, <2>7, <2>8 DEF Followed, Empty
  <2> QED BY <2>1, <2>4, <2>5, <2>9, RepliesKept DEF Inv
<1> QED BY <1>2, <1>3 DEF ReadDir

\* The store is replaced by the one that was built.
LEMMA SwapStep ==
  ASSUME Inv, Swap
  PROVE  Inv'
<1>1. Empty \in Stores /\ Good(Empty)
  BY DEF Empty, Stores, Good, AtMostOne
<1>2. TypeOK'
  BY <1>1 DEF Inv, TypeOK, Swap, NotLoading, Loading, diskVars, callVars, AtMostOne
<1>3. GoodKeys'
  BY <1>1 DEF Inv, GoodKeys, Swap, NotLoading, Loading, Good
<1>4. Followed'
  BY DEF Followed, Swap, NotLoading, Loading
<1> QED BY <1>2, <1>3, <1>4, RepliesKept DEF Inv, Swap, callVars

\* Only one file has its turn.
LEMMA OneTurn ==
  ASSUME TypeOK, NEW f \in Files, AtFile(f), NEW g \in load.todo, AtFile(g)
  PROVE  g = f
<1>1. f <= g /\ g <= f /\ f \in Int /\ g \in Int
  BY StoreAssumption DEF AtFile, TypeOK, Files
<1> QED BY <1>1

\* The next file: the one at hand is in the new store as it is on disk.
LEMMA PassStep ==
  ASSUME Inv, NEW f \in Files, AtFile(f), load.pc # "idle",
         NEW out \in Stores, Good(out),
         \A g \in Files \ {f} : out[g] = load.out[g],
         load.quiet => out[f] = OnDisk(load.dir)[f],
         load' = [Skip(f) EXCEPT !.out = out], UNCHANGED <<outcome, storeVars, diskVars, callVars>>
  PROVE  Inv'
<1>1. UNCHANGED <<disk, keyDisk, edits, fileStoreDir, fileStore, outcome, call, reply>>
  BY DEF storeVars, diskVars, callVars
<1>2. /\ load' = [load EXCEPT !.pc = "cert", !.todo = @ \ {f}, !.cert = {}, !.out = out]
      /\ load \in [pc : {"idle", "cert", "key", "sibling"}, dir : Dirs \cup {NoText},
                   todo : SUBSET Files, cert : SUBSET Certs, out : Stores, quiet : BOOLEAN]
  BY DEF Skip, Inv, TypeOK
<1>3. /\ load'.pc = "cert" /\ load'.dir = load.dir /\ load'.todo = load.todo \ {f}
      /\ load'.cert = {} /\ load'.out = out /\ load'.quiet = load.quiet
  BY <1>2
<1>4. load' \in [pc : {"idle", "cert", "key", "sibling"}, dir : Dirs \cup {NoText},
                 todo : SUBSET Files, cert : SUBSET Certs, out : Stores, quiet : BOOLEAN]
  BY <1>2
<1>5. TypeOK'
  BY <1>1, <1>3, <1>4 DEF Inv, TypeOK, AtMostOne
<1>6. GoodKeys'
  BY <1>1, <1>3 DEF Inv, GoodKeys, Good
<1>7. Followed'
  <2> SUFFICES ASSUME load.quiet PROVE Followed'
    BY <1>3 DEF Followed
  <2>1. OnDisk(load.dir)' = OnDisk(load.dir)
    BY <1>1, <1>3 DEF OnDisk
  <2>2. /\ \A g \in Files \ load.todo : load.out[g] = OnDisk(load.dir)[g]
        /\ \A g \in load.todo : load.out[g] = {}
        /\ load.todo \subseteq Files /\ f \in load.todo
    BY DEF Inv, Followed, TypeOK, AtFile
  <2> QED BY <1>3, <2>1, <2>2 DEF Followed
<1> QED BY <1>1, <1>5, <1>6, <1>7, RepliesKept DEF Inv

\* A load under way reads a file of its directory.
LEMMA AtHand ==
  ASSUME Inv, NEW f \in Files, load.pc # "idle"
  PROVE  load.dir \in Dirs /\ Read(f) \in Contents
BY DEF Inv, TypeOK, Read

\* The first read of a file.
LEMMA CertStep ==
  ASSUME Inv, NEW f \in Files, CertFromFile(f)
  PROVE  Inv'
<1> USE DEF Continue
<1>1. AtFile(f) /\ load.pc = "cert" /\ UNCHANGED <<diskVars, callVars>>
      /\ load.dir \in Dirs /\ Read(f) \in Contents
  <2>1. AtFile(f) /\ load.pc = "cert" /\ UNCHANGED <<diskVars, callVars>>
    BY DEF CertFromFile
  <2> QED BY <2>1, AtHand
<1>2. CASE Abort
  BY <1>1, <1>2, AbortStep
<1>3. CASE Read(f).kind = "file" /\ Read(f).cert = {} /\ Continue(Skip(f))
  <2>1. load.out \in Stores /\ Good(load.out)
    BY DEF Inv, TypeOK, GoodKeys
  <2>2. load' = [Skip(f) EXCEPT !.out = load.out]
    BY <1>3 DEF Skip, Inv, TypeOK
  <2>3. OnDisk(load.dir)[f] = {}
    BY <1>3 DEF OnDisk, Read
  <2>4. load.quiet => load.out[f] = {}
    BY <1>1 DEF Inv, Followed, AtFile
  <2> QED BY <1>1, <1>3, <2>1, <2>2, <2>3, <2>4, PassStep
<1>4. ASSUME NEW c \in Read(f).cert \ {Garbage},
             Continue([load EXCEPT !.pc = "key", !.cert = {c}])
      PROVE  Inv'
  <2>1. UNCHANGED <<disk, keyDisk, edits, fileStoreDir, fileStore, outcome, call, reply>>
    BY <1>1, <1>4 DEF storeVars, diskVars, callVars
  <2>2. c \in Certs /\ Read(f).cert = {c}
    BY <1>1, <1>4, ContentShape DEF AtMostOne
  <2>3. load \in [pc : {"idle", "cert", "key", "sibling"}, dir : Dirs \cup {NoText},
                  todo : SUBSET Files, cert : SUBSET Certs, out : Stores, quiet : BOOLEAN]
    BY DEF Inv, TypeOK
  <2>4. /\ load'.pc = "key" /\ load'.dir = load.dir /\ load'.todo = load.todo
        /\ load'.cert = {c} /\ load'.out = load.out /\ load'.quiet = load.quiet
        /\ load' \in [pc : {"idle", "cert", "key", "sibling"}, dir : Dirs \cup {NoText},
                      todo : SUBSET Files, cert : SUBSET Certs, out : Stores, quiet : BOOLEAN]
    BY <1>4, <2>2, <2>3
  <2>5. TypeOK'
    BY <1>1, <2>1, <2>4 DEF Inv, TypeOK, AtMostOne
  <2>6. GoodKeys'
    BY <2>1, <2>4 DEF Inv, GoodKeys, Good
  <2>7. Followed'
    <3>1. OnDisk(load.dir)' = OnDisk(load.dir)
      BY <2>1, <2>4 DEF OnDisk
    <3>2. \A g \in load.todo : AtFile(g)' => g = f
      BY <1>1, <2>4, OneTurn DEF Inv, AtFile
    <3>3. Read(f)' = Read(f)
      BY <2>1, <2>4 DEF Read
    <3> QED BY <1>1, <2>2, <2>4, <3>1, <3>2, <3>3 DEF Inv, Followed
  <2> QED BY <2>1, <2>5, <2>6, <2>7, RepliesKept DEF Inv
<1> QED BY <1>2, <1>3, <1>4 DEF CertFromFile

\* The key k was found for the file at hand.
LEMMA AcceptStep ==
  ASSUME Inv, NEW f \in Files, AtFile(f), load.pc # "idle", NEW k \in Keys, Accept(f, k),
         load.quiet => OnDisk(load.dir)[f] = {[cert |-> c, key |-> k] : c \in load.cert},
         UNCHANGED <<diskVars, callVars>>
  PROVE  Inv'
<1>1. CASE \A c \in load.cert : KeyOf[c] = k
  <2> DEFINE out == [load.out EXCEPT ![f] = {[cert |-> c, key |-> k] : c \in load.cert}]
  <2>1. Continue([Skip(f) EXCEPT !.out[f] = {[cert |-> c, key |-> k] : c \in load.cert}])
    BY <1>1 DEF Accept
  <2>2. Skip(f).out = load.out
    BY DEF Skip, Inv, TypeOK
  <2>3. load' = [Skip(f) EXCEPT !.out = out] /\ UNCHANGED <<outcome, storeVars>>
    BY <2>1, <2>2 DEF Continue
  <2>4. out \in Stores /\ Good(out)
    BY <1>1, NewIdentity DEF Inv, GoodKeys
  <2>5. load.out \in [Files -> SUBSET Identities]
    BY DEF Inv, TypeOK, Stores
  <2>6. /\ \A g \in Files \ {f} : out[g] = load.out[g]
        /\ out[f] = {[cert |-> c, key |-> k] : c \in load.cert}
    BY <2>5
  <2> HIDE DEF out
  <2> QED BY <2>3, <2>4, <2>6, PassStep
<1>2. CASE ~ \A c \in load.cert : KeyOf[c] = k
  BY <1>2, AbortStep DEF Accept
<1> QED BY <1>1, <1>2

\* The second read of a file.
LEMMA KeyStep ==
  ASSUME Inv, NEW f \in Files, KeyForFile(f)
  PROVE  Inv'
<1>1. AtFile(f) /\ load.pc = "key" /\ UNCHANGED <<diskVars, callVars>>
  BY DEF KeyForFile
<1>2. load.dir \in Dirs /\ Read(f) \in Contents
  BY <1>1, AtHand
<1>3. load.quiet => Read(f).cert = load.cert
  BY <1>1 DEF Inv, Followed, AtFile
<1>4. CASE Abort
  BY <1>1, <1>4, AbortStep
<1>5. ASSUME NEW k \in Read(f).key, Accept(f, k)
      PROVE  Inv'
  <2>1. k \in Keys /\ Read(f).key = {k}
    BY <1>2, ContentShape DEF AtMostOne
  <2>2. OnDisk(load.dir)[f] = {[cert |-> c, key |-> l] : c \in Read(f).cert, l \in Read(f).key}
    BY <2>1 DEF OnDisk, Read
  <2>3. load.quiet => OnDisk(load.dir)[f] = {[cert |-> c, key |-> k] : c \in load.cert}
    BY <1>3, <2>1, <2>2
  <2> QED BY <1>1, <1>5, <2>1, <2>3, AcceptStep
<1>6. CASE Read(f).key = {} /\ Continue([load EXCEPT !.pc = "sibling"])
  <2>1. UNCHANGED <<disk, keyDisk, edits, fileStoreDir, fileStore, outcome, call, reply>>
    BY <1>1, <1>6 DEF Continue, storeVars, diskVars, callVars
  <2>2. /\ load'.pc = "sibling" /\ load'.dir = load.dir /\ load'.todo = load.todo
        /\ load'.cert = load.cert /\ load'.out = load.out /\ load'.quiet = load.quiet
        /\ load' \in [pc : {"idle", "cert", "key", "sibling"}, dir : Dirs \cup {NoText},
                      todo : SUBSET Files, cert : SUBSET Certs, out : Stores, quiet : BOOLEAN]
    BY <1>6 DEF Continue, Inv, TypeOK
  <2>3. TypeOK'
    BY <1>2, <2>1, <2>2 DEF Inv, TypeOK
  <2>4. GoodKeys'
    BY <2>1, <2>2 DEF Inv, GoodKeys, Good
  <2>5. Followed'
    <3>1. OnDisk(load.dir)' = OnDisk(load.dir)
      BY <2>1, <2>2 DEF OnDisk
    <3>2. \A g \in load.todo : AtFile(g)' => g = f
      BY <1>1, <2>2, OneTurn DEF Inv, AtFile
    <3>3. Read(f)' = Read(f)
      BY <2>1, <2>2 DEF Read
    <3> QED BY <1>1, <1>3, <1>6, <2>2, <3>1, <3>2, <3>3 DEF Inv, Followed
  <2> QED BY <2>1, <2>3, <2>4, <2>5, RepliesKept DEF Inv
<1> QED BY <1>4, <1>5, <1>6 DEF KeyForFile

\* The key file beside the certificate file.
LEMMA SiblingStep ==
  ASSUME Inv, NEW f \in Files, SiblingKey(f)
  PROVE  Inv'
<1> DEFINE x == keyDisk[load.dir][Stem[f]]
<1>1. AtFile(f) /\ load.pc = "sibling" /\ UNCHANGED <<diskVars, callVars>>
  BY DEF SiblingKey
<1>2. load.dir \in Dirs /\ Read(f) \in Contents
  BY <1>1, AtHand
<1>3. load.quiet => Read(f).cert = load.cert /\ Read(f).key = {}
  BY <1>1 DEF Inv, Followed, AtFile
<1>4. x \in KeyFiles
  BY <1>2, FileStoreAssumption DEF Inv, TypeOK
<1>5. CASE Abort
  BY <1>1, <1>5, AbortStep
<1>6. ASSUME NEW k \in x.key, Accept(f, k)
      PROVE  Inv'
  <2>1. k \in Keys /\ x.key = {k}
    BY <1>4, KeyFileShape DEF AtMostOne
  <2>2. ASSUME load.quiet
        PROVE  OnDisk(load.dir)[f] = {[cert |-> c, key |-> k] : c \in load.cert}
    <3>1. disk[load.dir][f].key = {} /\ disk[load.dir][f].cert = load.cert
      BY <1>3, <2>2 DEF Read
    <3>2. OnDisk(load.dir)[f] = {[cert |-> c, key |-> l] : c \in load.cert, l \in x.key}
      BY <3>1 DEF OnDisk
    <3> QED BY <2>1, <3>2
  <2> QED BY <1>1, <1>6, <2>1, <2>2, AcceptStep
<1> QED BY <1>5, <1>6 DEF SiblingKey

-----------------------------------------------------------------------------
\* The identity that signs for a thumbprint has it: the search for a prefix
\* never takes over from the search for the whole.
LEMMA MatchedHasThumbprint ==
  ASSUME NEW ids \in Stores, Good(ids), NEW c \in Certs, NEW target \in Thumbprints[c],
         NEW i \in Matched(ids, target)
  PROVE  i.cert = c /\ i.key = KeyOf[c]
<1> DEFINE exact == {f \in Files : \E j \in ids[f] : target \in Thumbprints[j.cert]}
<1> DEFINE near == {f \in Files : \E j \in ids[f] : target \in Prefixes[j.cert]}
<1>1. PICK f \in Candidates(ids, target) : i \in ids[f]
  BY DEF Matched
<1>2. ids \in [Files -> SUBSET Identities] /\ \A g \in Files : AtMostOne(ids[g])
  BY DEF Stores
<1>3. \A d \in Certs : target \in Prefixes[d] => d = c
  BY ThumbprintAssumption
<1>4. target \in Prefixes[c]
  BY ThumbprintAssumption
<1>5. f \in exact \/ f \in near
  BY <1>1 DEF Candidates
<1>6. f \in Files /\ \E j \in ids[f] : target \in Prefixes[j.cert]
  <2>1. \A g \in Files : \A j \in ids[g] : j.cert \in Certs
    BY <1>2 DEF Identities
  <2>2. \A d \in Certs : target \in Thumbprints[d] => target \in Prefixes[d]
    BY ThumbprintAssumption
  <2> QED BY <1>5, <2>1, <2>2
<1>7. PICK j \in ids[f] : target \in Prefixes[j.cert]
  BY <1>6
<1>8. j = i /\ j.cert \in Certs
  BY <1>1, <1>2, <1>6, <1>7 DEF AtMostOne, Identities
<1>9. i.cert = c
  BY <1>3, <1>7, <1>8
<1> QED BY <1>1, <1>6, <1>9 DEF Good

\* What the store answers is signed with the right key.
LEMMA AnswerSigned ==
  ASSUME NEW d, NEW ids \in Stores, Good(ids), NEW q \in Requests, NEW c \in Certs,
         Answer(View(d, ids), q).kind = "signature",
         NormalizeThumbprint[Answer(View(d, ids), q).request.arg] \in Thumbprints[c]
  PROVE  Answer(View(d, ids), q).key = {KeyOf[c]}
<1> DEFINE found == Matched(ids, NormalizeThumbprint[q.arg])
<1>1. q.op = "SignHash"
  BY DEF Answer, Reply
<1>2. View(d, ids).ids = ids
  BY DEF View
<1>3. Answer(View(d, ids), q) =
        IF found = {} THEN Error("ErrCertificateNotFound", q)
        ELSE Reply("signature", {i.cert : i \in found}, {i.key : i \in found}, q)
  BY <1>1, <1>2 DEF Answer, Sign
<1> HIDE DEF found
<1>4. found # {}
  BY <1>3 DEF Error, Reply
<1>5. /\ Answer(View(d, ids), q).request = q
      /\ Answer(View(d, ids), q).key = {i.key : i \in found}
  BY <1>3, <1>4 DEF Reply
<1>6. \A i \in found : i.key = KeyOf[c]
  BY <1>5, MatchedHasThumbprint DEF found
<1> QED BY <1>4, <1>5, <1>6

\* A request changes neither the disk nor the store nor a load.
LEMMA RequestStep ==
  ASSUME Inv, NEW t \in Threads, FromStore(t) \/ \E q \in Requests : CheckCertDir(t, q)
  PROVE  Inv'
<1>1. UNCHANGED <<disk, keyDisk, edits, fileStoreDir, fileStore, load, outcome>>
  BY DEF FromStore, CheckCertDir, diskVars, storeVars, loadVars
<1>2. call' \in [Threads -> SUBSET Requests] /\ DOMAIN reply' = Threads
  BY DEF FromStore, CheckCertDir, Inv, TypeOK
<1>3. TypeOK'
  BY <1>1, <1>2 DEF Inv, TypeOK
<1>4. GoodKeys'
  BY <1>1 DEF Inv, GoodKeys, Good
<1>5. Followed'
  BY <1>1 DEF Inv, Followed, OnDisk, Read, AtFile
<1>6. SignedByItsKey'
  <2>1. CASE FromStore(t)
    <3>1. PICK q \in Requests :
             reply' = [reply EXCEPT ![t] = Answer(View(fileStoreDir, fileStore), q)]
      BY <2>1 DEF FromStore, Inv, TypeOK
    <3>2. \A s \in Threads :
            reply'[s] = IF s = t THEN Answer(View(fileStoreDir, fileStore), q) ELSE reply[s]
      BY <3>1 DEF Inv, TypeOK
    <3>3. fileStore \in Stores /\ Good(fileStore)
      BY DEF Inv, TypeOK, GoodKeys
    <3> QED BY <3>2, <3>3, AnswerSigned DEF Inv, SignedByItsKey
  <2>2. ASSUME NEW q \in Requests, CheckCertDir(t, q)
        PROVE  SignedByItsKey'
    <3>1. \A s \in Threads : reply'[s] = reply[s] \/ reply'[s].kind # "signature"
      BY <2>2 DEF CheckCertDir, Inv, TypeOK, Error, Reply
    <3> QED BY <3>1 DEF Inv, SignedByItsKey
  <2> QED BY <2>1, <2>2
<1> QED BY <1>3, <1>4, <1>5, <1>6 DEF Inv

\* The inductive invariant holds at the start and after every step.
THEOREM Invariance == Spec => []Inv
<1>1. Init => Inv
  <2> SUFFICES ASSUME Init PROVE Inv
    OBVIOUS
  <2>1. Empty \in Stores /\ Good(Empty)
    BY DEF Empty, Stores, Good, AtMostOne
  <2>2. load = [pc |-> "idle", dir |-> NoText, todo |-> {}, cert |-> {}, out |-> Empty, quiet |-> TRUE]
    BY DEF Init, NotLoading, Loading
  <2>3. TypeOK
    BY <2>1, <2>2, FileStoreAssumption DEF Init, TypeOK, AtMostOne, KeyFiles
  <2>4. GoodKeys /\ Followed
    BY <2>1, <2>2 DEF Init, GoodKeys, Followed
  <2>5. SignedByItsKey
    BY DEF Init, SignedByItsKey, Error, Reply
  <2> QED BY <2>3, <2>4, <2>5 DEF Inv
<1>2. ASSUME Inv, [Next]_vars PROVE Inv'
  <2>1. CASE UNCHANGED vars
    <3>1. UNCHANGED <<disk, keyDisk, edits, fileStoreDir, fileStore, load, outcome, call, reply>>
      BY <2>1 DEF vars, diskVars, storeVars, loadVars, callVars
    <3>2. TypeOK' /\ GoodKeys'
      BY <1>2, <3>1 DEF Inv, TypeOK, GoodKeys, Good
    <3>3. Followed'
      BY <1>2, <3>1 DEF Inv, Followed, OnDisk, Read, AtFile
    <3> QED BY <1>2, <3>1, <3>2, <3>3, RepliesKept DEF Inv
  <2>2. ASSUME NEW d \in Dirs, Edit(d) PROVE Inv'
    BY <1>2, <2>2, EditStep
  <2>3. CASE SetCertDir
    BY <1>2, <2>3, ClearStep, SwapStep, ReadDirStep, CertStep, KeyStep, SiblingStep DEF SetCertDir
  <2>4. ASSUME NEW t \in Threads, FromStore(t) \/ \E q \in Requests : CheckCertDir(t, q)
        PROVE  Inv'
    BY <1>2, <2>4, RequestStep
  <2> QED BY <1>2, <2>1, <2>2, <2>3, <2>4 DEF Next
<1> QED BY <1>1, <1>2, PTL DEF Spec

(***************************************************************************)
(* A request for a thumbprint is signed with the key of the certificate    *)
(* that has it (signWithFileStore), whatever was written to the directory  *)
(* between the reads of its load.                                          *)
(***************************************************************************)
THEOREM TheRightKey == Spec => []SignedByItsKey
<1>1. Inv => SignedByItsKey
  BY DEF Inv
<1> QED BY <1>1, Invariance, PTL

\* Only the swap puts a store in place of another.
LEMMA OnlySwap ==
  ASSUME Inv, [Next]_vars, fileStoreDir' # NoText, storeVars' # storeVars
  PROVE  Swap
<1>1. ASSUME NEW f \in Files, CertFromFile(f) \/ KeyForFile(f) \/ SiblingKey(f)
      PROVE  UNCHANGED storeVars
  BY <1>1 DEF CertFromFile, KeyForFile, SiblingKey, Accept, Continue, Abort
<1>2. ASSUME NEW d \in Dirs, Edit(d) \/ ReadDir(d) PROVE UNCHANGED storeVars
  BY <1>2 DEF Edit, ReadDir
<1>3. ASSUME NEW t \in Threads, FromStore(t) \/ \E q \in Requests : CheckCertDir(t, q)
      PROVE  UNCHANGED storeVars
  BY <1>3 DEF FromStore, CheckCertDir
<1>4. ~ClearCertDir
  BY DEF ClearCertDir
<1>5. ASSUME UNCHANGED vars PROVE UNCHANGED storeVars
  BY <1>5 DEF vars, storeVars
<1> QED BY <1>1, <1>2, <1>3, <1>4, <1>5 DEF Next, SetCertDir

\* A swap after a load that nobody disturbed.
LEMMA SwapLoads ==
  ASSUME Inv, Swap, load.quiet
  PROVE  fileStore' = OnDisk(load.dir) /\ fileStoreDir' = load.dir
<1>1. \A f \in Files : load.out[f] = OnDisk(load.dir)[f]
  BY DEF Swap, Inv, Followed
<1>2. load.out \in [Files -> SUBSET Identities]
  BY DEF Inv, TypeOK, Stores
<1>3. load.out = [f \in Files |-> load.out[f]] /\ OnDisk(load.dir) = [f \in Files |-> OnDisk(load.dir)[f]]
  BY <1>2 DEF OnDisk
<1>4. load.out = OnDisk(load.dir)
  BY <1>1, <1>3
<1> QED BY <1>4 DEF Swap

(***************************************************************************)
(* A SetCertDir that succeeds in a directory nobody touches exposes        *)
(* exactly the certificates in it with their keys (loadCertDir).           *)
(***************************************************************************)
THEOREM LoadsAll == Spec => LoadsWhatIsThere
<1>1. ASSUME Inv, [Next]_vars
      PROVE  [fileStoreDir' # NoText /\ storeVars' # storeVars /\ load.quiet
                => fileStore' = OnDisk(fileStoreDir')]_vars
  BY <1>1, OnlySwap, SwapLoads
<1> QED BY <1>1, Invariance, PTL DEF Spec, LoadsWhatIsThere

-----------------------------------------------------------------------------
\* The abstract specification has the same lookup.
LEMMA SameLookup ==
  /\ Abstract!Files = Files /\ Abstract!Empty = Empty /\ Abstract!Stores = Stores
  /\ Abstract!NoText = NoText /\ Abstract!Requests = Requests
  /\ \A d, ids : Abstract!View(d, ids) = View(d, ids)
  /\ \A ids : Abstract!Good(ids) <=> Good(ids)
  /\ \A op, arg : Abstract!Request(op, arg) = Request(op, arg)
  /\ \A kind, q : Abstract!Error(kind, q) = Error(kind, q)
<1>1. Abstract!Files = Files /\ Abstract!NoText = NoText /\ Abstract!Identities = Identities
  BY DEF Abstract!Files, Files, Abstract!NoText, NoText, Abstract!Identities, Identities
<1>2. Abstract!Empty = Empty /\ Abstract!Stores = Stores
  BY <1>1 DEF Abstract!Empty, Empty, Abstract!Stores, Stores, Abstract!AtMostOne, AtMostOne
<1>3. \A op, arg : Abstract!Request(op, arg) = Request(op, arg)
  BY DEF Abstract!Request, Request
<1>4. Abstract!Requests = Requests
  BY <1>1, <1>3 DEF Abstract!Requests, Requests, Abstract!Own, Own
<1>5. \A d, ids : Abstract!View(d, ids) = View(d, ids)
  BY DEF Abstract!View, View
<1>6. \A ids : Abstract!Good(ids) <=> Good(ids)
  BY <1>1 DEF Abstract!Good, Good
<1>7. \A kind, q : Abstract!Error(kind, q) = Error(kind, q)
  BY DEF Abstract!Error, Error, Abstract!Reply, Reply
<1> QED BY <1>1, <1>2, <1>3, <1>4, <1>5, <1>6, <1>7

LEMMA SameAnswer == \A v, q : Abstract!Answer(v, q) = Answer(v, q)
<1>1. \A ids, target : Abstract!Candidates(ids, target) = Candidates(ids, target)
  BY SameLookup DEF Abstract!Candidates, Candidates
<1>2. \A ids, target : Abstract!Matched(ids, target) = Matched(ids, target)
  BY <1>1 DEF Abstract!Matched, Matched
<1>3. \A v, q : Abstract!Sign(v, q) = Sign(v, q)
  BY <1>2, SameLookup DEF Abstract!Sign, Sign, Abstract!Reply, Reply
<1>4. \A v, q : Abstract!List(v, q) = List(v, q)
  BY SameLookup DEF Abstract!List, List, Abstract!Own, Own
<1> QED BY <1>3, <1>4 DEF Abstract!Answer, Answer, Abstract!Reply, Reply

\* Every step of the store is one of the abstract store, or none.
LEMMA StepSimulation ==
  ASSUME Inv, [Next]_vars
  PROVE  [Abstract!Next]_<<View(fileStoreDir, fileStore), outcome, reply>>
<1> DEFINE view == View(fileStoreDir, fileStore)
<1>1. ASSUME UNCHANGED <<storeVars, outcome, callVars>>
      PROVE  UNCHANGED <<view, outcome, reply>>
  BY <1>1 DEF storeVars, callVars, View
<1>2. ASSUME outcome' = "error", UNCHANGED <<storeVars, callVars>>
      PROVE  Abstract!LoadFails
  BY <1>2 DEF Abstract!LoadFails, storeVars, callVars, View
<1>3. ASSUME NEW d \in Dirs, Edit(d) \/ ReadDir(d)
      PROVE  [Abstract!Next]_<<view, outcome, reply>>
  BY <1>1, <1>2, <1>3 DEF Edit, ReadDir, Abstract!Next
<1>4. ASSUME NEW f \in Files, CertFromFile(f) \/ KeyForFile(f) \/ SiblingKey(f)
      PROVE  [Abstract!Next]_<<view, outcome, reply>>
  <2>1. (UNCHANGED <<storeVars, outcome>> \/ (outcome' = "error" /\ UNCHANGED storeVars))
        /\ UNCHANGED callVars
    BY <1>4 DEF CertFromFile, KeyForFile, SiblingKey, Accept, Continue, Abort
  <2> QED BY <1>1, <1>2, <2>1 DEF Abstract!Next
<1>5. ASSUME ClearCertDir PROVE Abstract!Clear
  BY <1>5, SameLookup DEF ClearCertDir, Abstract!Clear, callVars
<1>6. ASSUME Swap PROVE Abstract!Load
  <2>1. /\ fileStore' \in Stores /\ Good(fileStore') /\ fileStoreDir' \in Dirs
        /\ outcome' = "nil" /\ UNCHANGED reply
    BY <1>6 DEF Swap, Inv, TypeOK, GoodKeys, callVars
  <2>2. view'.dir = fileStoreDir' /\ view'.ids = fileStore'
    BY DEF View
  <2> QED BY <2>1, <2>2, SameLookup DEF Abstract!Load
<1>7. ASSUME NEW t \in Threads, FromStore(t) \/ \E q \in Requests : CheckCertDir(t, q)
      PROVE  [Abstract!Next]_<<view, outcome, reply>>
  <2>1. UNCHANGED <<view, outcome>>
    BY <1>7 DEF FromStore, CheckCertDir, storeVars, loadVars, View
  <2>2. CASE FromStore(t)
    <3>1. PICK q \in Requests : reply' = [reply EXCEPT ![t] = Answer(view, q)]
      BY <2>2 DEF FromStore, Inv, TypeOK
    <3>2. Abstract!Serve(t, q)
      BY <2>1, <3>1, SameAnswer DEF Abstract!Serve
    <3> QED BY <3>2, SameLookup DEF Abstract!Next
  <2>3. ASSUME NEW q \in Requests, CheckCertDir(t, q)
        PROVE  [Abstract!Next]_<<view, outcome, reply>>
    <3>1. view.dir = fileStoreDir
      BY DEF View
    <3>2. CASE q = Request("SignHash", NoText)
               /\ reply' = [reply EXCEPT ![t] = Error("InvalidArgument", q)]
      <4>1. Abstract!Serve(t, q)
        BY <2>1, <3>2, SameLookup DEF Abstract!Serve
      <4> QED BY <4>1, SameLookup DEF Abstract!Next
    <3>3. CASE fileStoreDir = NoText
               /\ reply' = [reply EXCEPT ![t] = Error("ErrUnsupportedPlatform", q)]
      <4>1. Abstract!Serve(t, q)
        BY <2>1, <3>1, <3>3, SameLookup DEF Abstract!Serve
      <4> QED BY <4>1, SameLookup DEF Abstract!Next
    <3>4. CASE UNCHANGED reply
      BY <2>1, <3>4
    <3> QED BY <2>3, <3>2, <3>3, <3>4 DEF CheckCertDir
  <2> QED BY <1>7, <2>2, <2>3
<1>8. ASSUME UNCHANGED vars PROVE UNCHANGED <<view, outcome, reply>>
  BY <1>8 DEF vars, storeVars, loadVars, callVars, View
<1> QED
  BY <1>3, <1>4, <1>5, <1>6, <1>7, <1>8 DEF Next, SetCertDir, Abstract!Next

(***************************************************************************)
(* The store with its files, reads and critical sections implements the    *)
(* atomic one (SetCertDir, CertDir and the functions of store_linux.go).   *)
(***************************************************************************)
THEOREM Implements == Spec => IsAtomicStore
<1>1. Init => Abstract!Init
  BY SameLookup DEF Init, Abstract!Init
<1>2. Inv /\ [Next]_vars => [Abstract!Next]_<<View(fileStoreDir, fileStore), outcome, reply>>
  BY StepSimulation
<1> QED BY <1>1, <1>2, Invariance, PTL DEF Spec, IsAtomicStore, Abstract!Spec
=============================================================================
