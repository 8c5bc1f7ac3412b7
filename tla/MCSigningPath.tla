---------------------------- MODULE MCSigningPath ----------------------------
(***************************************************************************)
(* Lengths around every boundary the code tests: empty, a SHA-1 digest,    *)
(* the three digests, the three DigestInfo lengths and both sides of the   *)
(* 64-byte digest buffer.  Outer lengths: the DER ones of the three hashes.*)
(***************************************************************************)
EXTENDS SigningPath

MCLens == {0, 20, 31, 32, 33, 48, 51, 64, 65, 67, 83}
MCKinds == {"RSA", "EC", "other"}
MCOuters == {49, 65, 81}
=============================================================================
