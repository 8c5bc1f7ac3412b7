------------------------------- MODULE MCKsp11 -------------------------------
(***************************************************************************)
(* An RSA and an EC key with signatures of different length, object tables *)
(* that differ between two initialisations; two slots and three handles,   *)
(* so that a slot is reused and the table fills up.                        *)
(***************************************************************************)
EXTENDS Ksp11

CONSTANTS rsa, ec

MCKeys == {rsa, ec}
MCCertKind == [k \in MCKeys |-> IF k = rsa THEN "RSA" ELSE "EC"]
MCSubject == [k \in MCKeys |-> "CN=a"]
MCSigLen == [k \in MCKeys |-> IF k = rsa THEN 2 ELSE 1]
MCEnumerations == {<<rsa, ec>>, <<ec>>}

Digest32 == [len |-> 32, lead |-> NoLead, id |-> "a"]
Half16   == [len |-> 16, lead |-> NoLead, id |-> "b"]

PlainMechs == {"CKM_RSA_PKCS", "CKM_ECDSA"}
MCMechs == PlainMechs \cup {"CKM_SHA256_RSA_PKCS", "CKM_RSA_PKCS_PSS", "CKM_ECDSA_SHA512", "unknown"}
MCParams == {"NoParams", "CKM_SHA384"}
MCParts == {Digest32, Half16}
MCTemplates == {{}, {[type |-> "CKA_KEY_TYPE", value |-> "CKK_EC"]}}

\* A signing operation of the simplest kind.
Plain(a) == /\ a.mech \in PlainMechs \cup {"none"}
            /\ a.par = "NoParams"
            /\ a.fed = << >>
            /\ a.input \subseteq {<<Digest32>>}

(***************************************************************************)
(* Bound: two slots and searches go with plain operations only; the whole  *)
(* variety of signing calls is for the sessions, two in turn, of one slot. *)
(***************************************************************************)
OneThingAtATime ==
  \/ \A s \in Slots : Plain(asked[s])
  \/ g_next_handle <= 3 /\ g_sessions[2] = ClosedSession /\ g_find = NoFind
=============================================================================
