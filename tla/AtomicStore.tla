----------------------------- MODULE AtomicStore -----------------------------
(***************************************************************************)
(* What the file-backed certificate store promises its callers, whatever   *)
(* happens on disk: a SetCertDir takes effect at once and completely or    *)
(* not at all, every key in the store belongs to its certificate, and      *)
(* every answer is that of the store at one moment.                        *)
(***************************************************************************)
EXTENDS StoreLookup

CONSTANT Threads \* requests served at the same time

VARIABLES
  view,          \* the directory and its store
  outcome,       \* what the last SetCertDir returned
  reply          \* [Threads -> the last answer]

Init ==
  /\ view = View(NoText, Empty)
  /\ outcome = "nil"
  /\ reply = [t \in Threads |-> Error("none", Request("none", NoText))]

Clear ==
  /\ view' = View(NoText, Empty)
  /\ outcome' = "nil"
  /\ UNCHANGED reply

\* Any store will do whose keys belong to their certificates.
Load ==
  /\ view' = View(view'.dir, view'.ids)
  /\ view'.dir \in Dirs
  /\ view'.ids \in Stores
  /\ Good(view'.ids)
  /\ outcome' = "nil"
  /\ UNCHANGED reply

LoadFails ==
  /\ outcome' = "error"
  /\ UNCHANGED <<view, reply>>

\* The view of the moment answers; a missing thumbprint is refused, and so
\* is every request without a directory.
Serve(t, q) ==
  /\ \/ reply' = [reply EXCEPT ![t] = Answer(view, q)]
     \/ q = Request("SignHash", NoText) /\ reply' = [reply EXCEPT ![t] = Error("InvalidArgument", q)]
     \/ view.dir = NoText /\ reply' = [reply EXCEPT ![t] = Error("ErrUnsupportedPlatform", q)]
  /\ UNCHANGED <<view, outcome>>

Next == Clear \/ Load \/ LoadFails \/ \E t \in Threads, q \in Requests : Serve(t, q)

Spec == Init /\ [][Next]_<<view, outcome, reply>>
=============================================================================
