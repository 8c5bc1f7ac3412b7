------------------------- MODULE SigningInputProofs -------------------------
(***************************************************************************)
(* For every mechanism, PSS parameter, kind of key and input (of any       *)
(* length): what do_sign extracts and the server signs is what the         *)
(* mechanism permits.                                                      *)
(***************************************************************************)
EXTENDS SigningInput, TLAPS

\* The rows of ksp_mechs the proofs use: a digest mechanism has a hash, and
\* only RSA mechanisms use PSS.
LEMMA MechTable ==
  ASSUME NEW mech \in MechType
  PROVE  LET m == ksp_mechs[mech] IN
         /\ m.digest_mech \in 0 .. 1 /\ m.pss \in 0 .. 1 /\ m.md \in 0 .. 3
         /\ m.digest_mech = 1 => m.md \in HashAlg
         /\ mech \in EcMechs => m.pss = 0
         /\ (mech \in RsaMechs) <=> (mech \notin EcMechs)
         /\ (mech \in RsaMechs /\ m.digest_mech = 0 /\ m.pss = 0) => mech = "CKM_RSA_PKCS"
<1>1. /\ ksp_mechs[mech].digest_mech = IF mech \in RawMechs THEN 0 ELSE 1
      /\ ksp_mechs[mech].pss = IF mech \in PssMechs THEN 1 ELSE 0
      /\ ksp_mechs[mech].md = MdOf(mech)
  BY DEF ksp_mechs
<1>2. MdOf(mech) \in 0 .. 3 /\ (mech \notin RawMechs => MdOf(mech) \in HashAlg)
  BY DEF MdOf, HashAlg, MechType, RsaMechs, EcMechs, RawMechs
<1>3. /\ (mech \in RsaMechs) <=> (mech \notin EcMechs)
      /\ mech \in EcMechs => mech \notin PssMechs
      /\ mech \in RsaMechs \cap RawMechs /\ mech \notin PssMechs => mech = "CKM_RSA_PKCS"
  BY DEF MechType, RsaMechs, EcMechs, RawMechs, PssMechs
<1>4. QED
  BY <1>1, <1>2, <1>3

\* The hash C_SignInit fixes: the table's, the one the PSS parameters name,
\* or 0 when it is left to the input.
LEMMA InitHash ==
  ASSUME NEW mech \in MechType, NEW par \in PssParam
  PROVE  LET m == ksp_mechs[mech]  h == InitHashAlg(mech, par) IN
         /\ h \in 0 .. 3
         /\ m.digest_mech = 1 => h = m.md
         /\ (m.digest_mech = 0 /\ m.pss = 1 /\ h # 0) => h \in HashAlg /\ ParamAllows(par, h)
         /\ (m.digest_mech = 0 /\ m.pss = 1 /\ h = 0) => par = "NoParams"
         /\ (m.digest_mech = 0 /\ m.pss = 0) => h = 0
BY MechTable DEF InitHashAlg, ParamAllows, ParamHash, HashAlg

\* The hash survives the conversions of the bridge, the client and the server.
LEMMA HashRoundTrip ==
  ASSUME NEW alg \in HashAlg
  PROVE  protoHashToCertstore(HashAlgFromInt(alg)) = alg
BY DEF protoHashToCertstore, HashAlgFromInt, HashAlg

\* What the server signs: the digest it was sent, of the size of its hash, in
\* the scheme of the key and the padding.
LEMMA SignHashResult ==
  ASSUME NEW key, NEW kind, NEW x, NEW pss \in 0 .. 1, x.alg \in HashAlg,
         NEW sig \in SignHash(key, kind, Request(x, pss))
  PROVE  /\ x.len = DigestSize(x.alg)
         /\ Scheme(kind, PaddingFromInt(PaddingInt(pss))) # "none"
         /\ sig = [key |-> key, scheme |-> Scheme(kind, PaddingFromInt(PaddingInt(pss))),
                   hash |-> x.alg, digest |-> x.digest]
<1>1. protoHashToCertstore(HashAlgFromInt(x.alg)) = x.alg
  BY HashRoundTrip
<1>2. /\ Request(x, pss).alg = x.alg /\ Request(x, pss).len = x.len
      /\ Request(x, pss).digest = x.digest /\ Request(x, pss).padding = PaddingInt(pss)
  BY DEF Request
<1>3. QED
  BY <1>1, <1>2 DEF SignHash

\* The scheme the server uses on a key of the mechanism's type is the mechanism's.
LEMMA SchemeAgrees ==
  ASSUME NEW mech \in MechType, NEW kind \in KeyKind,
         mech_ok_for_type(mech, parse_cert_pubkey(kind)),
         Scheme(kind, PaddingFromInt(PaddingInt(ksp_mechs[mech].pss))) # "none"
  PROVE  Scheme(kind, PaddingFromInt(PaddingInt(ksp_mechs[mech].pss))) = MechScheme(mech)
<1>1. /\ kind = "EC" => mech \in EcMechs
      /\ kind = "RSA" => mech \notin EcMechs
  BY MechTable DEF mech_ok_for_type, parse_cert_pubkey
<1>2. kind \in {"RSA", "EC"}
  BY DEF Scheme, KeyKind
<1>3. QED
  BY <1>1, <1>2, MechTable DEF Scheme, PaddingFromInt, PaddingInt, MechScheme

\* The digest do_sign extracts, when it does not refuse: the hash of the
\* input, the input itself, or what follows its header, with its hash.
LEMMA ExtractedDigest ==
  ASSUME NEW mech \in MechType, NEW par \in PssParam, NEW kind \in KeyKind,
         mech_ok_for_type(mech, parse_cert_pubkey(kind)),
         NEW in,
         NEW x,
         x = BuildDigest(ksp_mechs[mech].digest_mech, ksp_mechs[mech].md, ksp_mechs[mech].pss,
                         InitHashAlg(mech, par), parse_cert_pubkey(kind), in),
         x.ok
  PROVE  /\ x.alg \in HashAlg
         /\ \/ /\ ksp_mechs[mech].digest_mech = 1
               /\ x.digest = Hashed(in, ksp_mechs[mech].md) /\ x.alg = ksp_mechs[mech].md
            \/ /\ ksp_mechs[mech].digest_mech = 0
               /\ x.digest = Whole(in) /\ x.len = in.len
               /\ ksp_mechs[mech].pss = 1 => ParamAllows(par, x.alg)
            \/ /\ ksp_mechs[mech].digest_mech = 0
               /\ mech = "CKM_RSA_PKCS"
               /\ x.digest = Tail19(in)
               /\ in.len = PrefixLen + DigestSize(x.alg) /\ in.lead.oid = x.alg
<1> DEFINE m == ksp_mechs[mech]
<1> DEFINE h == InitHashAlg(mech, par)
<1>1. ~Refusal.ok
  BY DEF Refusal
<1>2. ASSUME NEW d, NEW l, NEW a
      PROVE  /\ Extracted(d, l, a).digest = d
             /\ Extracted(d, l, a).len = l
             /\ Extracted(d, l, a).alg = a
  BY DEF Extracted
<1>3. CASE m.digest_mech = 1
  <2>1. x = Extracted(Hashed(in, m.md), DigestSize(m.md), h)
    BY <1>3 DEF BuildDigest
  <2>2. QED
    BY <1>2, <1>3, <2>1, MechTable, InitHash
<1>4. CASE m.digest_mech = 0 /\ (m.pss = 1 \/ parse_cert_pubkey(kind) = "CKK_EC")
  <2>1. x = Extracted(Whole(in), in.len,
                      IF m.pss = 1 /\ h # 0 THEN h ELSE hash_alg_from_len(in.len))
    BY <1>1, <1>4 DEF BuildDigest
  <2>2. /\ x.digest = Whole(in) /\ x.len = in.len
        /\ x.alg = IF m.pss = 1 /\ h # 0 THEN h ELSE hash_alg_from_len(in.len)
    BY <1>2, <2>1
  <2>3. hash_alg_from_len(in.len) \in HashAlg
    BY DEF hash_alg_from_len, HashAlg
  <2>4. QED
    BY <1>4, <2>2, <2>3, InitHash DEF ParamAllows
<1>5. CASE m.digest_mech = 0 /\ m.pss # 1 /\ parse_cert_pubkey(kind) # "CKK_EC"
  <2>1. x = parse_digest_info(in)
    BY <1>5 DEF BuildDigest
  <2>2. mech = "CKM_RSA_PKCS" /\ m.pss = 0
    BY <1>5, MechTable DEF mech_ok_for_type, parse_cert_pubkey
  <2>3. CASE in.len \in {32, 48, 64}
    <3>1. x = Extracted(Whole(in), in.len, hash_alg_from_len(in.len))
      BY <2>1, <2>3 DEF parse_digest_info
    <3>2. hash_alg_from_len(in.len) \in HashAlg
      BY DEF hash_alg_from_len, HashAlg
    <3>3. QED
      BY <1>2, <1>5, <2>2, <3>1, <3>2
  <2>4. CASE in.len \notin {32, 48, 64}
    <3>1. PICK k \in HashAlg : in.len = PrefixLen + DigestSize(k) /\ in.lead = DI_PREFIX(k)
      BY <1>1, <2>1, <2>4 DEF parse_digest_info
    <3>2. k = CHOOSE g \in HashAlg : in.len = PrefixLen + DigestSize(g)
      <4>1. \A g \in HashAlg : in.len = PrefixLen + DigestSize(g) => g = k
        BY <3>1 DEF HashAlg, DigestSize, PrefixLen
      <4>2. QED
        BY <3>1, <4>1
    <3>3. x = Extracted(Tail19(in), DigestSize(k), k)
      BY <2>1, <2>4, <3>1, <3>2 DEF parse_digest_info
    <3>4. in.lead.oid = k
      BY <3>1 DEF DI_PREFIX, Lead
    <3>5. QED
      BY <1>2, <1>5, <2>2, <3>1, <3>3, <3>4
  <2>5. QED
    BY <2>3, <2>4
<1>6. QED
  BY <1>3, <1>4, <1>5, MechTable

(***************************************************************************)
(* do_sign, the bridge, the client and the server together: whatever the   *)
(* mechanism, the parameters, the key and the input, a signature that      *)
(* comes back is one the mechanism permits.                                *)
(***************************************************************************)
THEOREM ServedAsPermitted ==
  ASSUME NEW key, NEW mech \in MechType, NEW par \in PssParam, NEW kind \in KeyKind,
         mech_ok_for_type(mech, parse_cert_pubkey(kind)),
         NEW in,
         NEW x,
         x = BuildDigest(ksp_mechs[mech].digest_mech, ksp_mechs[mech].md, ksp_mechs[mech].pss,
                         InitHashAlg(mech, par), parse_cert_pubkey(kind), in),
         x.ok
  PROVE  SignHash(key, kind, Request(x, ksp_mechs[mech].pss))
            \subseteq Permitted(key, mech, par, in)
<1> DEFINE m == ksp_mechs[mech]
<1> DEFINE Sig(hash, digest) == [key |-> key, scheme |-> MechScheme(mech),
                                 hash |-> hash, digest |-> digest]
<1>1. SUFFICES ASSUME NEW sig \in SignHash(key, kind, Request(x, m.pss))
               PROVE  sig \in Permitted(key, mech, par, in)
  OBVIOUS
<1>2. x.alg \in HashAlg
  BY ExtractedDigest
<1>3. m.pss \in 0 .. 1
  BY MechTable
<1>4. x.len = DigestSize(x.alg) /\ sig = Sig(x.alg, x.digest)
  BY <1>2, <1>3, SignHashResult, SchemeAgrees
<1>5. CASE m.digest_mech = 1
  <2>1. x.digest = Hashed(in, m.md) /\ x.alg = m.md
    BY <1>5, ExtractedDigest
  <2>2. sig = Sig(m.md, Hashed(in, m.md))
    BY <1>4, <2>1
  <2>3. QED
    BY <1>5, <2>2 DEF Permitted
<1>6. CASE m.digest_mech = 0 /\ x.digest = Whole(in) /\ x.len = in.len
           /\ (m.pss = 1 => ParamAllows(par, x.alg))
  BY <1>2, <1>4, <1>6 DEF Permitted
<1>7. CASE /\ m.digest_mech = 0 /\ mech = "CKM_RSA_PKCS" /\ x.digest = Tail19(in)
           /\ in.len = PrefixLen + DigestSize(x.alg) /\ in.lead.oid = x.alg
  BY <1>2, <1>4, <1>7 DEF Permitted
<1>8. QED
  BY <1>5, <1>6, <1>7, ExtractedDigest
=============================================================================
