----------------------------- MODULE StoreLookup -----------------------------
(***************************************************************************)
(* The contents of the file-backed certificate store (internal/certstore)  *)
(* and the answers it gives: listing and the choice of the key that signs. *)
(*                                                                         *)
(* A store maps the names of certificate files, in their order, to at most *)
(* one identity each.  An identity is a certificate and a private key.     *)
(***************************************************************************)
EXTENDS Integers

CONSTANTS
  Dirs,          \* directories
  Providers,     \* provider names callers ask for
  NameContains,  \* [Dirs -> the names that are part of "file store: <dir>", in any case]
  NFiles,        \* certificate file names of a directory, 1 .. NFiles in order
  Certs,         \* certificates
  Keys,          \* private keys
  KeyOf,         \* [Certs -> the key that belongs to the certificate]
  Texts,         \* thumbprints and parts of them, as users write them
  NormalizeThumbprint, \* [Texts -> Texts], without separators, in upper case
  Thumbprints,   \* [Certs -> its SHA-1 and SHA-256 thumbprints]
  Prefixes       \* [Certs -> the texts its thumbprints begin with]

NoText == ""     \* no directory, no thumbprint

ASSUME StoreAssumption ==
  /\ NFiles \in Nat
  /\ NoText \notin Dirs
  /\ NameContains \in [Dirs -> SUBSET Providers]
  /\ KeyOf \in [Certs -> Keys]
  /\ NormalizeThumbprint \in [Texts -> Texts]
  /\ Thumbprints \in [Certs -> SUBSET Texts]
  /\ Prefixes \in [Certs -> SUBSET Texts]

\* A thumbprint is a hash: no other certificate has it or begins with it.
ASSUME ThumbprintAssumption ==
  /\ \A c \in Certs : Thumbprints[c] \subseteq Prefixes[c]
  /\ \A c, d \in Certs : Thumbprints[c] \cap Prefixes[d] # {} => c = d

Files == 1 .. NFiles
Identities == [cert : Certs, key : Keys]
AtMostOne(S) == \A x, y \in S : x = y
Stores == {ids \in [Files -> SUBSET Identities] : \A f \in Files : AtMostOne(ids[f])}
Empty == [f \in Files |-> {}]
View(dir, ids) == [dir |-> dir, ids |-> ids]

\* Every private key belongs to its certificate.
Good(ids) == \A f \in Files : \A i \in ids[f] : i.key = KeyOf[i.cert]

(***************************************************************************)
(* Requests and replies                                                    *)
(***************************************************************************)
Request(op, arg) == [op |-> op, arg |-> arg]
Reply(kind, certs, key, request) ==
  [kind |-> kind, certs |-> certs, key |-> key, request |-> request]
Error(kind, q) == Reply(kind, {}, {}, q)

Own == "Fred Proxy Key Storage Provider"
Requests ==
  {Request("ListCertificates", Own)}
    \cup {Request("ListCertificatesByProvider", p) : p \in Providers \cup {Own, NoText}}
    \cup {Request("SignHash", t) : t \in Texts}

\* listFromFileStore and listFromFileStoreByProvider: the identities of a
\* store have the provider name "file store: " and its directory, and a name
\* that is part of it selects them; the key storage provider asks for its own
\* name, which stands for all, and so does no name.
List(v, q) ==
  IF q.arg \in {Own, NoText} \/ (v.dir \in Dirs /\ q.arg \in NameContains[v.dir])
  THEN {i.cert : i \in UNION {v.ids[f] : f \in Files}} ELSE {}

\* Mutant: if no thumbprint is the target, any certificate will do.
Candidates_any(ids, target) ==
  LET exact == {f \in Files : \E i \in ids[f] : target \in Thumbprints[i.cert]}
  IN  IF exact # {} THEN exact ELSE {f \in Files : ids[f] # {}}

\* signWithFileStore looks for the thumbprint, and only if there is none
\* for a thumbprint that begins with the target.
Candidates(ids, target) ==
  LET exact == {f \in Files : \E i \in ids[f] : target \in Thumbprints[i.cert]}
  IN  IF exact # {} THEN exact
      ELSE {f \in Files : \E i \in ids[f] : target \in Prefixes[i.cert]}

\* The first of them in the order of file names signs.
Matched(ids, target) ==
  LET files == Candidates(ids, target)
  IN  UNION {ids[f] : f \in {g \in files : \A h \in files : g <= h}}

Sign(v, q) ==
  LET found == Matched(v.ids, NormalizeThumbprint[q.arg])
  IN  IF found = {} THEN Error("ErrCertificateNotFound", q)
      ELSE Reply("signature", {i.cert : i \in found}, {i.key : i \in found}, q)

\* The answer of a store as it is at one moment.
Answer(v, q) ==
  IF q.op = "SignHash" THEN Sign(v, q) ELSE Reply("list", List(v, q), {}, q)
=============================================================================
