---------------------------- MODULE MCFileStore ----------------------------
(***************************************************************************)
(* Instances of FileStore for TLC.  Two certificates with a key each whose *)
(* thumbprints both begin with "A".                                        *)
(***************************************************************************)
EXTENDS FileStore, TLC

mcCerts == {"c1", "c2"}
mcKeys == {"k1", "k2"}
mcKeyOf == ("c1" :> "k1") @@ ("c2" :> "k2")

\* The thumbprints AC and AB, their common beginning, one with separators
\* and a text of separators only.
mcTexts == {"", ":", "A", "AC", "AB", "a:b"}
mcNormalizeThumbprint ==
  [t \in mcTexts |-> CASE t = ":" -> "" [] t = "a:b" -> "AB" [] OTHER -> t]
mcThumbprints == ("c1" :> {"AC"}) @@ ("c2" :> {"AB"})
mcPrefixes == ("c1" :> {"", "A", "AC"}) @@ ("c2" :> {"", "A", "AB"})

\* A name that is part of the store's, and one that is not.
mcProviders == {"File Store", "TPM"}
mcNameContains == [d \in Dirs |-> {"File Store"}]

\* Both certificate files have the base name of the one key file.
mcStem == [f \in 1 .. NFiles |-> "s"]
mcContents ==
  {Absent, Sealed, File({}, {}), File({Garbage}, {"k1"}),
   File({"c1"}, {"k1"}), File({"c1"}, {}), File({"c2"}, {"k1"}), File({"c2"}, {"k2"})}
=============================================================================
