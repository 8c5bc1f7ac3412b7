----------------------------- MODULE MCKspClient -----------------------------
(***************************************************************************)
(* One certificate that comes and goes.  The unit of time is 15 s: an RPC  *)
(* may take one unit, a call two.  A list lives for one unit, half of what *)
(* the code has, so that it expires within the bound on time.              *)
(***************************************************************************)
EXTENDS KspClient

CONSTANTS t1, t2, cert

\* SignHash stands for InstalledKeys too, which takes the same way to a list.
BridgeOps == {"init", "shutdown", "AllKeys", "SignHashDirect", "SignHash"}
WindowsOps == {"init", "InstalledKeys", "SignHash"}
WindowsStore == {StoreError, Store({}), Store({cert})}
AnyStore == WindowsStore \cup {Unsupported}
=============================================================================
