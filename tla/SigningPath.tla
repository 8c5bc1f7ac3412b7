----------------------------- MODULE SigningPath -----------------------------
(***************************************************************************)
(* One signature, end to end, as a pipeline: C_SignInit fixes the          *)
(* mechanism, do_sign extracts the digest, the cert-server signs.  A       *)
(* signing request is chosen in the initial state and every answer the     *)
(* three stages can give is an action of its own, so that TLC visits every *)
(* combination of mechanism, PSS parameter, key and input.                 *)
(***************************************************************************)
EXTENDS SigningInput

CONSTANTS
  Lens,        \* input lengths that are tried
  Kinds,       \* kinds of server keys that are tried
  Outers       \* outer DigestInfo lengths that are tried

ASSUME SigningPathAssumption ==
  /\ Lens \subseteq Nat
  /\ Kinds \subseteq KeyKind
  /\ Outers \subseteq Nat

VARIABLES
  call,        \* the caller's request: mechanism, parameter, key kind, input
  stage,       \* "init", "sign", "rpc", "signed" or "refused"
  x,           \* the digest do_sign extracted
  sig          \* the set of signatures given back (at most one)

pathVars == <<call, stage, x, sig>>

Leads == {NoLead} \cup {Lead(o, h) : o \in Outers, h \in HashAlg}

Inputs == [len : Lens, lead : Leads, msg : {<<"m">>}]

\* Only 19 bytes or more can hold a header.
Calls == {c \in [mech : MechType, par : PssParam, kind : Kinds, in : Inputs] :
             c.in.lead = NoLead \/ c.in.len >= PrefixLen}

PathTypeOK ==
  /\ call \in Calls
  /\ stage \in {"init", "sign", "rpc", "signed", "refused"}
  /\ x.ok \in BOOLEAN
  /\ (stage = "signed") <=> (sig # {})

PathInit ==
  /\ call \in Calls
  /\ stage = "init"
  /\ x = Refusal
  /\ sig = {}

KType == parse_cert_pubkey(call.kind)

\* C_SignInit: CKR_MECHANISM_INVALID, or the operation becomes active.
SignInit ==
  /\ stage = "init"
  /\ stage' = IF mech_ok_for_type(call.mech, KType) THEN "sign" ELSE "refused"
  /\ UNCHANGED <<call, x, sig>>

\* do_sign up to the RPC: CKR_DATA_INVALID, or a digest to send.
Extract ==
  /\ stage = "sign"
  /\ LET m == ksp_mechs[call.mech]
     IN  x' = BuildDigest(m.digest_mech, m.md, m.pss,
                          InitHashAlg(call.mech, call.par), KType, call.in)
  /\ stage' = IF x'.ok THEN "rpc" ELSE "refused"
  /\ UNCHANGED <<call, sig>>

\* The RPC: an error (CKR_FUNCTION_FAILED), or a signature.
Serve ==
  /\ stage = "rpc"
  /\ sig' = SignHash("key", call.kind, Request(x, ksp_mechs[call.mech].pss))
  /\ stage' = IF sig' = {} THEN "refused" ELSE "signed"
  /\ UNCHANGED <<call, x>>

PathNext == SignInit \/ Extract \/ Serve

PathSpec == PathInit /\ [][PathNext]_pathVars

-----------------------------------------------------------------------------
(***************************************************************************)
(* Whatever the input, a signature that comes back is one the mechanism    *)
(* permits: its scheme is the mechanism's, its hash is the one the         *)
(* mechanism, the PSS parameters or the DigestInfo header names, and it is *)
(* over exactly the digest the caller meant.                               *)
(***************************************************************************)
SignedAsPermitted == sig \subseteq Permitted("key", call.mech, call.par, call.in)

(***************************************************************************)
(* No digest of the supported hashes is lost on the way: for an RSA or EC  *)
(* key and a mechanism of its type, a message under a digest mechanism     *)
(* and a bare digest of 32, 48 or 64 bytes (under the hash the PSS         *)
(* parameters name, if they name one) are never refused, by any stage.     *)
(***************************************************************************)
ConformingIsSigned ==
  LET m == ksp_mechs[call.mech] IN
  ( /\ call.kind # "other"
    /\ mech_ok_for_type(call.mech, parse_cert_pubkey(call.kind))
    /\ \/ m.digest_mech = 1
       \/ \E h \in HashAlg : /\ call.in.len = DigestSize(h)
                             /\ m.pss = 1 => ParamAllows(call.par, h) )
  => stage # "refused"

(***************************************************************************)
(* The comment on parse_digest_info and the README say raw CKM_RSA_PKCS    *)
(* input may be a DER DigestInfo: none is refused for an RSA key.          *)
(***************************************************************************)
DigestInfoIsSigned ==
  ( /\ call.mech = "CKM_RSA_PKCS" /\ call.kind = "RSA"
    /\ \E h \in HashAlg : IsDigestInfo(call.in, h) )
  => stage # "refused"
=============================================================================
