---------------------------- MODULE SigningInput ----------------------------
(***************************************************************************)
(* What becomes of the bytes an application hands to the Linux PKCS#11     *)
(* module: the mechanism table, the extraction of a digest from the input  *)
(* and the request the cert-server signs (or refuses).                     *)
(*                                                                         *)
(* Bytes are abstracted to what this path can tell apart.  An input is     *)
(*    [len  |-> its length in bytes,                                       *)
(*     lead |-> the DigestInfo header its first 19 bytes form, if any,     *)
(*     msg  |-> its identity (a sequence of the parts it was built from)]  *)
(* and a digest records the input it was taken from and how.               *)
(***************************************************************************)
EXTENDS Integers, Sequences

(***************************************************************************)
(* hash_alg of ksp_sign, of tpmcert_sign_hash and of the protocol buffer:  *)
(* 1 = SHA-256, 2 = SHA-384, 3 = SHA-512; 0 = "derive from the input".     *)
(***************************************************************************)
HashAlg == 1 .. 3

DigestSize(h) == IF h = 1 THEN 32 ELSE IF h = 2 THEN 48 ELSE 64

(***************************************************************************)
(* Mechanisms                                                              *)
(***************************************************************************)
RsaMechs == {"CKM_RSA_PKCS", "CKM_RSA_PKCS_PSS",
             "CKM_SHA256_RSA_PKCS", "CKM_SHA384_RSA_PKCS", "CKM_SHA512_RSA_PKCS",
             "CKM_SHA256_RSA_PKCS_PSS", "CKM_SHA384_RSA_PKCS_PSS",
             "CKM_SHA512_RSA_PKCS_PSS"}

EcMechs == {"CKM_ECDSA", "CKM_ECDSA_SHA256", "CKM_ECDSA_SHA384", "CKM_ECDSA_SHA512"}

PssMechs == {"CKM_RSA_PKCS_PSS", "CKM_SHA256_RSA_PKCS_PSS",
             "CKM_SHA384_RSA_PKCS_PSS", "CKM_SHA512_RSA_PKCS_PSS"}

RawMechs == {"CKM_RSA_PKCS", "CKM_RSA_PKCS_PSS", "CKM_ECDSA"}

MechType == RsaMechs \cup EcMechs

\* The table, column by column.
MdOf(t) ==
  IF t \in {"CKM_SHA256_RSA_PKCS", "CKM_SHA256_RSA_PKCS_PSS", "CKM_ECDSA_SHA256"} THEN 1
  ELSE IF t \in {"CKM_SHA384_RSA_PKCS", "CKM_SHA384_RSA_PKCS_PSS", "CKM_ECDSA_SHA384"} THEN 2
  ELSE IF t \in {"CKM_SHA512_RSA_PKCS", "CKM_SHA512_RSA_PKCS_PSS", "CKM_ECDSA_SHA512"} THEN 3
  ELSE 0

ksp_mechs ==
  [t \in MechType |->
     [digest_mech |-> IF t \in RawMechs THEN 0 ELSE 1,
      md          |-> MdOf(t),
      pss         |-> IF t \in PssMechs THEN 1 ELSE 0]]

mech_ok_for_type(t, ktype) == t \in IF ktype = "CKK_RSA" THEN RsaMechs ELSE EcMechs

(***************************************************************************)
(* The key type an object shows is CKK_RSA unless its certificate holds an *)
(* EC key.  A key on the server is "RSA", "EC" or "other" (Ed25519).       *)
(***************************************************************************)
KeyKind == {"RSA", "EC", "other"}

parse_cert_pubkey(kind) == IF kind = "EC" THEN "CKK_EC" ELSE "CKK_RSA"

(***************************************************************************)
(* The hash C_SignInit fixes.  `par' is the hashAlg of the PSS parameters: *)
(* 1..3, "NoParams" when none (or a short structure) is passed, "other"    *)
(* for a hash the module does not know.                                    *)
(***************************************************************************)
PssParam == {"NoParams", "other", "CKM_SHA256", "CKM_SHA384", "CKM_SHA512"}

ParamHash(par) == IF par = "CKM_SHA384" THEN 2 ELSE IF par = "CKM_SHA512" THEN 3 ELSE 1

\* Mutant: the hash of the PSS parameters is not looked at.
InitHashAlg_no_pss_hash(mech, par) ==
  IF ksp_mechs[mech].digest_mech = 1 THEN ksp_mechs[mech].md
  ELSE IF ksp_mechs[mech].pss = 1 /\ par # "NoParams" THEN 1 ELSE 0

InitHashAlg(mech, par) ==
  IF ksp_mechs[mech].digest_mech = 1 THEN ksp_mechs[mech].md
  ELSE IF ksp_mechs[mech].pss = 1 /\ par # "NoParams" THEN ParamHash(par)
  ELSE 0

(***************************************************************************)
(* From the input to the digest                                            *)
(***************************************************************************)
PrefixLen == 19
DigestCap == 64                        \* sizeof(digest) in do_sign

Lead(outer, oid) == [outer |-> outer, oid |-> oid]
NoLead == Lead(0, 0)

\* The three prefix tables: their second byte is 0x31 (49) in all of them.
DI_PREFIX(h) == Lead(49, h)

\* Mutant: no case for SHA-384.
hash_alg_from_len_no_sha384(len) == IF len = 64 THEN 3 ELSE 1

hash_alg_from_len(len) == IF len = 48 THEN 2 ELSE IF len = 64 THEN 3 ELSE 1

\* A digest: the whole input, its last bytes, or its hash.
Whole(in)     == [how |-> "whole", alg |-> 0, msg |-> in.msg]
Tail19(in)    == [how |-> "tail", alg |-> 0, msg |-> in.msg]
Hashed(in, h) == [how |-> "hash", alg |-> h, msg |-> in.msg]

Refusal == [ok |-> FALSE, digest |-> [how |-> "none", alg |-> 0, msg |-> << >>],
            len |-> 0, alg |-> 0]
Extracted(digest, len, alg) == [ok |-> TRUE, digest |-> digest, len |-> len, alg |-> alg]

parse_digest_info(in) ==
  IF in.len \in {32, 48, 64}
  THEN Extracted(Whole(in), in.len, hash_alg_from_len(in.len))
  ELSE IF \E h \in HashAlg : in.len = PrefixLen + DigestSize(h) /\ in.lead = DI_PREFIX(h)
  THEN LET h == CHOOSE h \in HashAlg : in.len = PrefixLen + DigestSize(h)
       IN  Extracted(Tail19(in), DigestSize(h), h)
  ELSE Refusal

\* A digest mechanism hashes; PSS and EC input is the digest; RSA PKCS#1
\* input is a DigestInfo or a digest.
BuildDigest(digest_mech, md, pss, hash_alg, ktype, in) ==
  IF digest_mech = 1
  THEN Extracted(Hashed(in, md), DigestSize(md), hash_alg)
  ELSE IF pss = 1 \/ ktype = "CKK_EC"
  THEN IF in.len > DigestCap THEN Refusal
       ELSE Extracted(Whole(in), in.len,
                      IF pss = 1 /\ hash_alg # 0 THEN hash_alg ELSE hash_alg_from_len(in.len))
  ELSE parse_digest_info(in)

PaddingInt(pss) == IF pss = 1 THEN 2 ELSE 1

(***************************************************************************)
(* Through the bridge and the client to the server                         *)
(***************************************************************************)
HashAlgFromInt(v) == IF v = 2 THEN "SHA384" ELSE IF v = 3 THEN "SHA512" ELSE "SHA256"
PaddingFromInt(v) == IF v = 2 THEN "PSS" ELSE "PKCS1"

protoHashToCertstore(h) ==
  IF h = "SHA256" THEN 1 ELSE IF h = "SHA384" THEN 2 ELSE IF h = "SHA512" THEN 3 ELSE 0

\* The scheme a key signs with, "none" when the store refuses the pair.
Scheme(kind, padding) ==
  IF kind = "RSA"
  THEN IF padding = "PSS" THEN "RSASSA-PSS" ELSE "RSASSA-PKCS1-v1_5"
  ELSE IF kind = "EC" /\ padding # "PSS" THEN "ECDSA" ELSE "none"

(***************************************************************************)
(* The signatures the server may return for a request on the key (of the   *)
(* given kind) that the thumbprint names: none when it refuses.            *)
(***************************************************************************)
SignHash(key, kind, d) ==
  LET hash   == protoHashToCertstore(HashAlgFromInt(d.alg))
      scheme == Scheme(kind, PaddingFromInt(d.padding))
  IN  IF d.len > 0 /\ hash # 0 /\ d.len = DigestSize(hash) /\ scheme # "none"
      THEN {[key |-> key, scheme |-> scheme, hash |-> hash, digest |-> d.digest]}
      ELSE {}

Request(x, pss) == [digest |-> x.digest, len |-> x.len, alg |-> x.alg,
                    padding |-> PaddingInt(pss)]

(***************************************************************************)
(* Reference definition: the signatures a caller of mechanism `mech' with  *)
(* PSS parameter `par' may be given for input `in'.  A digest mechanism    *)
(* signs the hash of the input.  CKM_RSA_PKCS_PSS and CKM_ECDSA sign the   *)
(* input as a digest, PSS under the hash its parameters name (SHA-256 for  *)
(* one the module does not know).  CKM_RSA_PKCS signs the digest after the *)
(* header, under the hash the header names, or a bare digest.              *)
(***************************************************************************)
ParamAllows(par, h) == par = "NoParams" \/ h = ParamHash(par)

MechScheme(mech) ==
  IF mech \in EcMechs THEN "ECDSA"
  ELSE IF ksp_mechs[mech].pss = 1 THEN "RSASSA-PSS" ELSE "RSASSA-PKCS1-v1_5"

Permitted(key, mech, par, in) ==
  LET m == ksp_mechs[mech]
      Sig(hash, digest) == [key |-> key, scheme |-> MechScheme(mech),
                            hash |-> hash, digest |-> digest]
      bare    == {h \in HashAlg : in.len = DigestSize(h) /\ (m.pss = 1 => ParamAllows(par, h))}
      wrapped == {h \in HashAlg : /\ mech = "CKM_RSA_PKCS"
                                  /\ in.len = PrefixLen + DigestSize(h)
                                  /\ in.lead.oid = h}
  IN  IF m.digest_mech = 1
      THEN {Sig(m.md, Hashed(in, m.md))}
      ELSE {Sig(h, Whole(in)) : h \in bare} \cup {Sig(h, Tail19(in)) : h \in wrapped}

\* A DER DigestInfo of hash h: the outer length counts the 17 bytes that
\* follow it in the header and the digest (0x31, 0x41 and 0x51).
IsDigestInfo(in, h) == /\ in.len = PrefixLen + DigestSize(h)
                       /\ in.lead = Lead(17 + DigestSize(h), h)
=============================================================================
