---------------------------- MODULE Registration ----------------------------
(***************************************************************************)
(* Registering the key storage provider with Windows                       *)
(* (internal/kspregister/register_windows.go, run by cmd/ksp-register).    *)
(*                                                                         *)
(* The operating system keeps the provider itself, the list applications   *)
(* go through for key storage and the provider's place in it; each call    *)
(* changes one of them.  A call may fail and leave all as it is, and the   *)
(* tool may be stopped between two calls.  The calls are external.         *)
(***************************************************************************)
EXTENDS Integers, Sequences

CONSTANT MaxFaults   \* bound: calls that fail and runs that are stopped

ASSUME FaultsAssumption == MaxFaults \in Nat

VARIABLES
  provider,    \* the registration: "none", an "earlier" one, or "this" build's
  context,     \* whether the default context has the list
  listed,      \* whether the provider is in the list
  run,         \* the run of the tool: its command, its next call, its first error
  outcome,     \* how the last run ended
  faults

regVars == <<provider, context, listed, run, outcome, faults>>

\* Register begins with the calls of Unregister.
Calls ==
  [none       |-> <<>>,
   register   |-> <<"RemoveContextFunctionProvider", "UnregisterProvider", "RegisterProvider",
                    "AddContextFunction", "AddContextFunctionProvider">>,
   unregister |-> <<"RemoveContextFunctionProvider", "UnregisterProvider">>,
   enum       |-> <<"EnumRegisteredProviders">>]

NotRunning == [cmd |-> "none", at |-> 1, err |-> FALSE]
Ended(cmd, result) == [cmd |-> cmd, result |-> result]

\* An earlier build may have been installed, whole or in part.
RegInit ==
  /\ provider \in {"none", "earlier"}
  /\ context \in BOOLEAN
  /\ listed \in BOOLEAN
  /\ run = NotRunning
  /\ outcome = Ended("none", "ok")
  /\ faults = 0

main(cmd) ==
  /\ run.cmd = "none"
  /\ run' = [NotRunning EXCEPT !.cmd = cmd]
  /\ outcome' = Ended("none", "ok")
  /\ UNCHANGED <<provider, context, listed, faults>>

AtCall(c) == run.at <= Len(Calls[run.cmd]) /\ Calls[run.cmd][run.at] = c
Return(result) == run' = NotRunning /\ outcome' = Ended(run.cmd, result)

\* The next call, or the end: Register has dropped what Unregister returned,
\* Unregister returns its first error.
GoOn(err) ==
  IF run.at < Len(Calls[run.cmd])
  THEN run' = [run EXCEPT !.at = @ + 1, !.err = @ \/ err] /\ UNCHANGED outcome
  ELSE Return(IF run.cmd = "unregister" /\ (run.err \/ err) THEN "error" ELSE "ok")

Fault == faults < MaxFaults /\ faults' = faults + 1

\* Mutant: an error ends Unregister, and nothing is reported.
Removal_ends(c, entry, none) ==
  /\ AtCall(c)
  /\ \/ entry' = none /\ GoOn(FALSE) /\ UNCHANGED faults
     \/ Fault /\ Return("ok") /\ UNCHANGED entry

\* An entry that is not there is no error; an error does not keep Unregister
\* from its second call.
Removal(c, entry, none) ==
  /\ AtCall(c)
  /\ \/ entry' = none /\ GoOn(FALSE) /\ UNCHANGED faults
     \/ Fault /\ GoOn(TRUE) /\ UNCHANGED entry

\* Mutant: an entry that is there already is an error.
Addition_collides(c, entry, none, added) ==
  /\ AtCall(c)
  /\ \/ entry = none /\ entry' = added /\ GoOn(FALSE) /\ UNCHANGED faults
     \/ entry # none /\ Return("error") /\ UNCHANGED <<entry, faults>>
     \/ Fault /\ Return("error") /\ UNCHANGED entry

\* An entry that is there already is no error and stays as it is; any other
\* error ends Register.
Addition(c, entry, none, added) ==
  /\ AtCall(c)
  /\ \/ entry' = (IF entry = none THEN added ELSE entry) /\ GoOn(FALSE) /\ UNCHANGED faults
     \/ Fault /\ Return("error") /\ UNCHANGED entry

RemoveContextFunctionProvider ==
  Removal("RemoveContextFunctionProvider", listed, FALSE) /\ UNCHANGED <<provider, context>>
UnregisterProvider ==
  Removal("UnregisterProvider", provider, "none") /\ UNCHANGED <<context, listed>>
RegisterProvider ==
  Addition("RegisterProvider", provider, "none", "this") /\ UNCHANGED <<context, listed>>
AddContextFunction ==
  Addition("AddContextFunction", context, FALSE, TRUE) /\ UNCHANGED <<provider, listed>>
AddContextFunctionProvider ==
  Addition("AddContextFunctionProvider", listed, FALSE, TRUE) /\ UNCHANGED <<provider, context>>

EnumProviders ==
  /\ AtCall("EnumRegisteredProviders")
  /\ \/ Return(IF provider = "none" THEN "not printed" ELSE "printed") /\ UNCHANGED faults
     \/ Fault /\ Return("error")
  /\ UNCHANGED <<provider, context, listed>>

\* The tool is stopped.
StopRun ==
  /\ run.cmd # "none"
  /\ Fault
  /\ run' = NotRunning
  /\ UNCHANGED <<provider, context, listed, outcome>>

Call ==
  \/ RemoveContextFunctionProvider \/ UnregisterProvider
  \/ RegisterProvider \/ AddContextFunction \/ AddContextFunctionProvider
  \/ EnumProviders

RegNext ==
  \/ \E cmd \in {"register", "unregister", "enum"} : main(cmd)
  \/ Call
  \/ StopRun

\* The tool runs on while nobody stops it.
RegSpec == RegInit /\ [][RegNext]_regVars /\ WF_regVars(Call)

-----------------------------------------------------------------------------
(***************************************************************************)
(* Properties                                                              *)
(***************************************************************************)
\* Every variable keeps its type.
RegTypeOK ==
  /\ provider \in {"none", "earlier", "this"}
  /\ context \in BOOLEAN
  /\ listed \in BOOLEAN
  /\ run \in [cmd : DOMAIN Calls, at : 1 .. 5, err : BOOLEAN]
  /\ outcome \in [cmd : DOMAIN Calls, result : {"ok", "error", "printed", "not printed"}]
  /\ faults \in 0 .. MaxFaults

Registered == provider # "none" /\ context /\ listed

(***************************************************************************)
(* "Registered" and "Unregistered" are printed only when it is so, however *)
(* many runs before have failed half way or were stopped: after the one    *)
(* applications find the provider, after the other nothing is left of it.  *)
(***************************************************************************)
ReportIsTrue ==
  /\ outcome = Ended("register", "ok") => Registered
  /\ outcome = Ended("unregister", "ok") => provider = "none" /\ ~listed

(***************************************************************************)
(* A run of Register that meets no failure repairs whatever is there: it   *)
(* ends with this build registered.                                        *)
(***************************************************************************)
RegisterRepairs ==
  \A n \in 0 .. MaxFaults :
    run.cmd = "register" /\ run.at = 1 /\ faults = n
      ~> faults > n \/ (Registered /\ provider = "this" /\ outcome.result = "ok")
=============================================================================
