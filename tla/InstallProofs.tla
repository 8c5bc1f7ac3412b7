---------------------------- MODULE InstallProofs ----------------------------
(***************************************************************************)
(* Proofs about the tools that set up a client machine: the registration   *)
(* of the provider (Registration) and the tools that install certificates  *)
(* (Install).  The two specifications share nothing; they are proved here  *)
(* one after the other.                                                    *)
(***************************************************************************)
EXTENDS Install, Registration, FiniteSetTheorems, TLAPS

-----------------------------------------------------------------------------
(***************************************************************************)
(* Registration                                                            *)
(***************************************************************************)
\* A run under way has a command and a place in it.
RegRuns ==
  /\ run \in [cmd : {"none", "register", "unregister", "enum"}, at : 1 .. 5, err : BOOLEAN]
  /\ context \in BOOLEAN /\ listed \in BOOLEAN

\* Nothing is reported before a run ends.
RegSilent == run.cmd # "none" => outcome.cmd = "none"

\* What the calls a run has behind it have done, unless they failed: nothing
\* but a later call of the same run undoes it.
RegBehind ==
  /\ run.cmd = "register" /\ run.at >= 4 => provider # "none"
  /\ run.cmd = "register" /\ run.at = 5 => context
  /\ run.cmd = "unregister" /\ run.at = 2 /\ ~run.err => ~listed

RegInv == RegRuns /\ RegSilent /\ RegBehind /\ ReportIsTrue

\* The calls of the three commands.
LEMMA RegCalls ==
  /\ Calls["none"] = <<>>
  /\ Calls["register"] =
       <<"RemoveContextFunctionProvider", "UnregisterProvider", "RegisterProvider",
         "AddContextFunction", "AddContextFunctionProvider">>
  /\ Calls["unregister"] = <<"RemoveContextFunctionProvider", "UnregisterProvider">>
  /\ Calls["enum"] = <<"EnumRegisteredProviders">>
BY DEF Calls

\* Where a call stands in the commands that make it.
LEMMA RegPlace ==
  ASSUME RegRuns, NEW c, AtCall(c)
  PROVE  /\ c = "RemoveContextFunctionProvider" =>
              run.at = 1 /\ run.cmd \in {"register", "unregister"}
         /\ c = "UnregisterProvider" => run.at = 2 /\ run.cmd \in {"register", "unregister"}
         /\ c = "RegisterProvider" => run.at = 3 /\ run.cmd = "register"
         /\ c = "AddContextFunction" => run.at = 4 /\ run.cmd = "register"
         /\ c = "AddContextFunctionProvider" => run.at = 5 /\ run.cmd = "register"
         /\ c = "EnumRegisteredProviders" => run.cmd = "enum"
BY RegCalls DEF RegRuns, AtCall

\* How many calls the two longer commands make.
LEMMA RegLength == Len(Calls["register"]) = 5 /\ Len(Calls["unregister"]) = 2
BY RegCalls

\* GoOn before the last call of a command makes the next call.
LEMMA RegNextCall ==
  ASSUME RegRuns, NEW err \in BOOLEAN, GoOn(err), NEW n \in 1 .. 4, run.at = n,
         \/ run.cmd = "register"
         \/ run.cmd = "unregister" /\ n = 1
  PROVE  /\ run' \in [cmd : {"none", "register", "unregister", "enum"}, at : 1 .. 5, err : BOOLEAN]
         /\ run'.cmd = run.cmd
         /\ run'.at = n + 1
         /\ run'.err = (run.err \/ err)
         /\ UNCHANGED outcome
<1>1. run.at < Len(Calls[run.cmd])
  <2>1. n < 5 /\ 1 < 2
    OBVIOUS
  <2> QED BY <2>1, RegLength, Zenon
<1>2. run' = [run EXCEPT !.at = run.at + 1, !.err = run.err \/ err] /\ UNCHANGED outcome
  BY <1>1 DEF GoOn
<1>3. run' = [run EXCEPT !.at = n + 1, !.err = run.err \/ err] /\ n + 1 \in 1 .. 5
  BY <1>2
<1>4. (run.err \/ err) \in BOOLEAN
  OBVIOUS
<1>5. run'.cmd = run.cmd /\ run'.at = n + 1 /\ run'.err = (run.err \/ err)
  BY <1>3, Zenon DEF RegRuns
<1>6. run' \in [cmd : {"none", "register", "unregister", "enum"}, at : 1 .. 5, err : BOOLEAN]
  BY <1>3, <1>4, Zenon DEF RegRuns
<1> QED BY <1>2, <1>5, <1>6

\* GoOn after the last call ends the command.
LEMMA RegLastCall ==
  ASSUME RegRuns, NEW err \in BOOLEAN, GoOn(err),
         \/ run.cmd = "register" /\ run.at = 5
         \/ run.cmd = "unregister" /\ run.at = 2
  PROVE  /\ run' = NotRunning
         /\ outcome' = Ended(run.cmd, IF run.cmd = "unregister" /\ (run.err \/ err)
                                          THEN "error" ELSE "ok")
<1>1. ~(run.at < Len(Calls[run.cmd]))
  <2>1. ~(5 < 5) /\ ~(2 < 2)
    OBVIOUS
  <2> QED BY <2>1, RegLength, Zenon
<1> QED BY <1>1, Zenon DEF GoOn, Return

\* A run that has ended, or was stopped, is no longer there.
LEMMA RegAtRest ==
  ASSUME run' = NotRunning, context' \in BOOLEAN, listed' \in BOOLEAN
  PROVE  RegRuns' /\ RegSilent' /\ RegBehind'
BY DEF RegRuns, RegSilent, RegBehind, NotRunning

\* A report of anything but a success says nothing about the system.
LEMMA RegNoClaim ==
  ASSUME NEW cmd, NEW result, outcome' = Ended(cmd, result),
         cmd \notin {"register", "unregister"} \/ result # "ok"
  PROVE  ReportIsTrue'
BY DEF ReportIsTrue, Ended

LEMMA RegMain ==
  ASSUME RegInv, NEW cmd \in {"register", "unregister", "enum"}, main(cmd)
  PROVE  RegInv'
<1>1. run' = [cmd |-> cmd, at |-> 1, err |-> FALSE]
  BY DEF main, NotRunning
<1>2. run'.cmd = cmd /\ run'.at = 1 /\ outcome' = Ended("none", "ok")
  BY <1>1 DEF main
<1>3. RegRuns'
  <2>1. run' \in [cmd : {"none", "register", "unregister", "enum"}, at : 1 .. 5, err : BOOLEAN]
    BY <1>1
  <2>2. UNCHANGED <<context, listed>> /\ context \in BOOLEAN /\ listed \in BOOLEAN
    BY DEF RegInv, RegRuns, main
  <2> QED BY <2>1, <2>2, Zenon DEF RegRuns
<1>4. RegSilent' /\ ReportIsTrue'
  BY <1>2 DEF RegSilent, ReportIsTrue, Ended
<1>5. RegBehind'
  BY <1>2 DEF RegBehind
<1> QED BY <1>3, <1>4, <1>5 DEF RegInv

LEMMA RegRemovesFromList ==
  ASSUME RegInv, RemoveContextFunctionProvider
  PROVE  RegInv'
<1>1. run.at = 1 /\ run.cmd \in {"register", "unregister"} /\ RegRuns
  BY RegPlace DEF RegInv, RemoveContextFunctionProvider, Removal
<1>2. PICK err \in BOOLEAN : GoOn(err) /\ (~err => listed' = FALSE)
                            /\ (err => listed' = listed) /\ UNCHANGED <<provider, context>>
  BY Zenon DEF RemoveContextFunctionProvider, Removal
<1>3. /\ run' \in [cmd : {"none", "register", "unregister", "enum"}, at : 1 .. 5, err : BOOLEAN]
      /\ run'.cmd = run.cmd /\ run'.at = 1 + 1 /\ run'.err = (run.err \/ err)
      /\ UNCHANGED outcome
  <2>1. 1 \in 1 .. 4
    OBVIOUS
  <2> QED BY <1>1, <1>2, <2>1, RegNextCall, Zenon
<1>4. RegRuns'
  <2>1. listed' \in BOOLEAN /\ context' \in BOOLEAN
    BY <1>1, <1>2, Zenon DEF RegRuns
  <2> QED BY <1>3, <2>1, Zenon DEF RegRuns
<1>5. RegSilent' /\ outcome.cmd = "none"
  BY <1>1, <1>3 DEF RegInv, RegSilent
<1>6. ReportIsTrue'
  BY <1>3, <1>5 DEF ReportIsTrue, Ended
<1>7. RegBehind'
  <2>1. ~(1 + 1 >= 4) /\ 1 + 1 # 5
    OBVIOUS
  <2> QED BY <1>2, <1>3, <2>1, Zenon DEF RegBehind
<1> QED BY <1>4, <1>5, <1>6, <1>7 DEF RegInv

LEMMA RegRemovesProvider ==
  ASSUME RegInv, UnregisterProvider
  PROVE  RegInv'
<1>1. run.at = 2 /\ run.cmd \in {"register", "unregister"} /\ RegRuns
  BY RegPlace DEF RegInv, UnregisterProvider, Removal
<1>2. PICK err \in BOOLEAN : GoOn(err) /\ (~err => provider' = "none")
                            /\ UNCHANGED <<context, listed>>
  BY Zenon DEF UnregisterProvider, Removal
<1>3. listed' \in BOOLEAN /\ context' \in BOOLEAN
  BY <1>1, <1>2 DEF RegRuns
<1>4. CASE run.cmd = "register"
  <2>1. /\ run' \in [cmd : {"none", "register", "unregister", "enum"}, at : 1 .. 5, err : BOOLEAN]
        /\ run'.cmd = "register" /\ run'.at = 2 + 1 /\ UNCHANGED outcome
    <3>1. 2 \in 1 .. 4
      OBVIOUS
    <3> QED BY <1>1, <1>2, <1>4, <3>1, RegNextCall, Zenon
  <2>2. RegRuns'
    BY <1>3, <2>1, Zenon DEF RegRuns
  <2>3. RegSilent' /\ outcome.cmd = "none"
    BY <1>4, <2>1 DEF RegInv, RegSilent
  <2>4. RegBehind' /\ ReportIsTrue'
    BY <2>1, <2>3 DEF RegBehind, ReportIsTrue, Ended
  <2> QED BY <2>2, <2>3, <2>4 DEF RegInv
<1>5. CASE run.cmd = "unregister"
  <2>1. /\ run' = NotRunning
        /\ outcome' = Ended("unregister", IF run.err \/ err THEN "error" ELSE "ok")
    BY <1>1, <1>2, <1>5, RegLastCall, Zenon
  <2>2. ~run.err => ~listed
    BY <1>1, <1>5 DEF RegInv, RegBehind
  <2>3. ReportIsTrue'
    <3>1. CASE run.err \/ err
      BY <2>1, <3>1, RegNoClaim
    <3>2. CASE ~(run.err \/ err)
      <4>1. provider' = "none" /\ ~listed'
        BY <1>2, <2>2, <3>2, Zenon
      <4> QED BY <2>1, <3>2, <4>1 DEF ReportIsTrue, Ended
    <3> QED BY <3>1, <3>2
  <2> QED BY <1>3, <2>1, <2>3, RegAtRest DEF RegInv
<1> QED BY <1>1, <1>4, <1>5

\* The three additions of Register: a call that failed ends the run with an error.
LEMMA RegAdditionFails ==
  ASSUME RegInv, Return("error"), UNCHANGED <<context, listed>>
  PROVE  RegInv'
<1>1. run' = NotRunning /\ outcome' = Ended(run.cmd, "error")
  BY DEF Return
<1>2. context' \in BOOLEAN /\ listed' \in BOOLEAN
  BY DEF RegInv, RegRuns
<1> QED BY <1>1, <1>2, RegAtRest, RegNoClaim DEF RegInv

\* One that did not and is not the last goes on to the next.
LEMMA RegAdditionDone ==
  ASSUME RegInv, GoOn(FALSE), run.cmd = "register", NEW n \in 3 .. 4, run.at = n,
         context' \in BOOLEAN, listed' \in BOOLEAN,
         provider' # "none", n = 4 => context'
  PROVE  RegInv'
<1>1. n \in 1 .. 4 /\ RegRuns /\ n + 1 # 2 /\ (n + 1 = 5 => n = 4)
  BY DEF RegInv
<1>2. /\ run' \in [cmd : {"none", "register", "unregister", "enum"}, at : 1 .. 5, err : BOOLEAN]
      /\ run'.cmd = "register" /\ run'.at = n + 1 /\ UNCHANGED outcome
  BY <1>1, RegNextCall, Zenon
<1>3. RegRuns'
  BY <1>2, Zenon DEF RegRuns
<1>4. outcome.cmd = "none" /\ RegSilent' /\ ReportIsTrue'
  BY <1>2 DEF RegInv, RegSilent, ReportIsTrue, Ended
<1>5. RegBehind'
  BY <1>1, <1>2, Zenon DEF RegBehind
<1> QED BY <1>3, <1>4, <1>5 DEF RegInv

LEMMA RegRegisters ==
  ASSUME RegInv, RegisterProvider
  PROVE  RegInv'
<1>1. run.at = 3 /\ run.cmd = "register" /\ UNCHANGED <<context, listed>>
  BY RegPlace DEF RegInv, RegisterProvider, Addition
<1>2. context' \in BOOLEAN /\ listed' \in BOOLEAN
  BY <1>1 DEF RegInv, RegRuns
<1>3. \/ provider' # "none" /\ GoOn(FALSE)
      \/ Return("error")
  BY DEF RegisterProvider, Addition
<1>4. 3 \in 3 .. 4 /\ 3 # 4
  OBVIOUS
<1> QED BY <1>1, <1>2, <1>3, <1>4, RegAdditionDone, RegAdditionFails, Zenon

LEMMA RegAddsList ==
  ASSUME RegInv, AddContextFunction
  PROVE  RegInv'
<1>1. run.at = 4 /\ run.cmd = "register" /\ UNCHANGED <<provider, listed>>
  BY RegPlace DEF RegInv, AddContextFunction, Addition
<1>2. listed' \in BOOLEAN /\ context \in BOOLEAN
  BY <1>1 DEF RegInv, RegRuns
<1>3. provider' # "none"
  BY <1>1 DEF RegInv, RegBehind
<1>4. \/ context' = TRUE /\ GoOn(FALSE)
      \/ Return("error") /\ UNCHANGED context
  BY <1>2, Zenon DEF AddContextFunction, Addition
<1>5. 4 \in 3 .. 4
  OBVIOUS
<1>6. CASE context' = TRUE /\ GoOn(FALSE)
  BY <1>1, <1>2, <1>3, <1>5, <1>6, RegAdditionDone, Zenon
<1>7. CASE Return("error") /\ UNCHANGED context
  BY <1>1, <1>7, RegAdditionFails
<1> QED BY <1>4, <1>6, <1>7

LEMMA RegAddsToList ==
  ASSUME RegInv, AddContextFunctionProvider
  PROVE  RegInv'
<1>1. run.at = 5 /\ run.cmd = "register" /\ RegRuns /\ UNCHANGED <<provider, context>>
  BY RegPlace DEF RegInv, AddContextFunctionProvider, Addition
<1>2. context' \in BOOLEAN /\ listed \in BOOLEAN
  BY <1>1 DEF RegInv, RegRuns
<1>3. provider' # "none" /\ context'
  BY <1>1 DEF RegInv, RegBehind
<1>4. \/ listed' = TRUE /\ GoOn(FALSE)
      \/ Return("error") /\ UNCHANGED listed
  BY <1>2, Zenon DEF AddContextFunctionProvider, Addition
<1>5. CASE listed' = TRUE /\ GoOn(FALSE)
  <2>1. run' = NotRunning /\ outcome' = Ended("register", "ok")
    BY <1>1, <1>5, RegLastCall
  <2>2. ReportIsTrue'
    BY <1>3, <1>5, <2>1 DEF ReportIsTrue, Registered, Ended
  <2>3. listed' \in BOOLEAN
    BY <1>5
  <2> QED BY <1>2, <2>1, <2>2, <2>3, RegAtRest DEF RegInv
<1>6. CASE Return("error") /\ UNCHANGED listed
  BY <1>1, <1>6, RegAdditionFails
<1> QED BY <1>4, <1>5, <1>6

LEMMA RegEnumerates ==
  ASSUME RegInv, EnumProviders
  PROVE  RegInv'
<1>1. run.cmd = "enum" /\ UNCHANGED <<context, listed>>
  BY RegPlace DEF RegInv, EnumProviders
<1>2. PICK result : run' = NotRunning /\ outcome' = Ended("enum", result)
  BY <1>1, Zenon DEF EnumProviders, Return
<1>3. context' \in BOOLEAN /\ listed' \in BOOLEAN
  BY <1>1 DEF RegInv, RegRuns
<1> QED BY <1>2, <1>3, RegAtRest, RegNoClaim DEF RegInv

\* A run that is stopped reports nothing.
LEMMA RegStops ==
  ASSUME RegInv, StopRun
  PROVE  RegInv'
<1>1. run' = NotRunning /\ outcome.cmd = "none" /\ UNCHANGED <<provider, context, listed, outcome>>
  BY DEF RegInv, RegSilent, StopRun
<1>2. context' \in BOOLEAN /\ listed' \in BOOLEAN
  BY <1>1 DEF RegInv, RegRuns
<1>3. ReportIsTrue'
  BY <1>1 DEF ReportIsTrue, Ended
<1> QED BY <1>1, <1>2, <1>3, RegAtRest DEF RegInv

LEMMA RegStep ==
  ASSUME RegInv, [RegNext]_regVars
  PROVE  RegInv'
<1>1. CASE RegNext
  BY <1>1, RegMain, RegRemovesFromList, RegRemovesProvider, RegRegisters, RegAddsList,
     RegAddsToList, RegEnumerates, RegStops DEF RegNext, Call
<1>2. CASE UNCHANGED regVars
  BY <1>2 DEF RegInv, RegRuns, RegSilent, RegBehind, ReportIsTrue, Registered, regVars
<1> QED BY <1>1, <1>2

(***************************************************************************)
(* ksp-register prints "Registered" and "Unregistered" only when it is so: *)
(* however often its calls have failed and its runs were stopped, for any  *)
(* number of faults.                                                       *)
(***************************************************************************)
THEOREM ReportsTrue == RegSpec => []ReportIsTrue
<1>1. RegInit => RegInv
  BY DEF RegInit, RegInv, RegRuns, RegSilent, RegBehind, ReportIsTrue, Registered,
         NotRunning, Ended
<1>2. RegInv /\ [RegNext]_regVars => RegInv'
  BY RegStep
<1>3. RegInv => ReportIsTrue
  BY DEF RegInv
<1> QED BY <1>1, <1>2, <1>3, PTL DEF RegSpec

-----------------------------------------------------------------------------
(***************************************************************************)
(* Install                                                                 *)
(***************************************************************************)
\* Addresses a tool may save.
SavedAddrs == [host : Hosts, port : {DefaultPort, NoPort}]

OpNames ==
  {"none", "main", "remove", "InstallCertificate", "UninstallCertificate", "SaveConfig",
   "ListInstalledCertificates", "ListRemoteCertificates", "TestConnection"}

Commands ==
  [op : OpNames, at : 1 .. 7, addr : SavedAddrs \cup {NoAddr}, given : BOOLEAN,
   target : SavedAddrs \cup {NoAddr}, certs : SUBSET Certs, quiet : BOOLEAN]

Nows == {"no", "part", "all"}
Screens ==
  [bound : SUBSET Certs, boundNow : Nows, remote : SUBSET Certs, marked : SUBSET Certs,
   remoteNow : Nows, test : {"none", "invalid", "signed", "failed"}]

One(certs) == \E c \in Certs : certs = {c}

\* What a command is in itself: whose it is, that main calls the address it
\* saves, and that a command that binds or removes has one certificate.
Formed(p, t) ==
  /\ t.op \in {"main", "remove"} => p \in CliTools
  /\ t.op \notin {"none", "main", "remove"} => p \in UiTools
  /\ t.op = "main" => t.addr = t.target /\ t.addr.port # NoPort
  /\ t.op \in {"main", "InstallCertificate", "SaveConfig"} => t.addr \in SavedAddrs
  /\ t.op = "InstallCertificate" /\ t.at = 2 => \E c \in Certs : t.certs \subseteq {c}
  /\ t.op = "InstallCertificate" /\ t.at \in {1, 3} => One(t.certs)
  /\ t.op = "main" /\ t.at = 5 => One(t.certs)
  /\ t.op \in {"remove", "UninstallCertificate"} /\ t.at = 1 => One(t.certs)

\* What a command that nobody has disturbed finds as it has left or met it:
\* the file it has written, the server that answered, the certificate bound.
Carried(t, f, s, u, o) ==
  t.quiet =>
    /\ t.op = "main" /\ ~t.given /\ t.at = 2 => f.kind = "empty"
    /\ t.op = "main" /\ ~t.given /\ t.at \in {3, 4, 5} => f = File("whole", t.addr)
    /\ t.op = "main" /\ t.at \in {4, 5} => t.target \in u /\ t.certs \subseteq o
    /\ t.op = "InstallCertificate" /\ t.at \in {2, 3, 4, 5, 6, 7} => t.certs \subseteq o
    /\ t.op = "InstallCertificate" /\ t.at \in {4, 5, 6, 7} => \A c \in t.certs : s[c] = "ksp"

\* A manager's screen is current but for the change it has made itself and
\* has not shown yet.
BoundIn(s) == {c \in Certs : s[c] = "ksp"}
Shown(t, sc, s) ==
  /\ \/ Agrees(sc.boundNow, sc.bound, BoundIn(s))
     \/ t.op = "InstallCertificate" /\ t.at \in {4, 5, 6, 7}
     \/ t.op = "UninstallCertificate" /\ t.at = 2
  /\ \/ Agrees(sc.remoteNow, sc.marked, sc.remote \cap BoundIn(s))
     \/ t.op = "InstallCertificate" /\ t.at \in {4, 5, 6}
     \/ t.op = "UninstallCertificate" /\ t.at \in {2, 3}

World ==
  /\ up \subseteq Endpoints
  /\ offers \subseteq Certs
  /\ changes \in 0 .. MaxChanges
  /\ file \in [kind : {"absent", "empty", "whole", "mixed"}, addr : SavedAddrs \cup {NoAddr}]
  /\ store \in [Certs -> {"none", "other", "ksp"}]

ToolsFormed == tool \in [Tools -> Commands] /\ \A p \in Tools : Formed(p, tool[p])
ScreensFormed ==
  screen \in [UiTools -> Screens] /\ \A p \in UiTools : screen[p].marked \subseteq screen[p].remote
Carrying == \A p \in Tools : Carried(tool[p], file, store, up, offers)
Showing == \A p \in UiTools : Shown(tool[p], screen[p], store)

InstallInv ==
  World /\ ToolsFormed /\ ScreensFormed /\ Carrying /\ Showing /\ InstalledIsUsable

-----------------------------------------------------------------------------
\* The steps of the commands.
LEMMA PlanTable ==
  /\ DOMAIN Plan = OpNames
  /\ Plan["none"] = <<>>
  /\ Plan["main"] = <<"open", "write", "list", "choose", "bind">>
  /\ Plan["remove"] = <<"delete">>
  /\ Plan["InstallCertificate"] = <<"list", "lookup", "bind", "open", "write", "fetch", "show">>
  /\ Plan["UninstallCertificate"] = <<"delete", "show", "fetch">>
  /\ Plan["SaveConfig"] = <<"open", "write">>
  /\ Plan["ListInstalledCertificates"] = <<"show">>
  /\ Plan["ListRemoteCertificates"] = <<"fetch">>
  /\ Plan["TestConnection"] = <<"list", "fetch">>
BY DEF Plan, OpNames

\* How many steps a command has.
LEMMA PlanLength ==
  ASSUME NEW op
  PROVE  /\ op = "main" => Len(Plan[op]) = 5
         /\ op = "remove" => Len(Plan[op]) = 1
         /\ op = "InstallCertificate" => Len(Plan[op]) = 7
         /\ op = "UninstallCertificate" => Len(Plan[op]) = 3
         /\ op = "SaveConfig" => Len(Plan[op]) = 2
         /\ op \in {"ListInstalledCertificates", "ListRemoteCertificates"} => Len(Plan[op]) = 1
         /\ op = "TestConnection" => Len(Plan[op]) = 2
<1>1. /\ Len(Plan["main"]) = 5 /\ Len(Plan["remove"]) = 1 /\ Len(Plan["InstallCertificate"]) = 7
      /\ Len(Plan["UninstallCertificate"]) = 3 /\ Len(Plan["SaveConfig"]) = 2
      /\ Len(Plan["ListInstalledCertificates"]) = 1 /\ Len(Plan["ListRemoteCertificates"]) = 1
      /\ Len(Plan["TestConnection"]) = 2
  BY PlanTable
<1> QED BY <1>1, Zenon

\* Where a step stands in the commands that have it.
Places(step, op, at) ==
  /\ step = "open" => <<op, at>> \in {<<"main", 1>>, <<"InstallCertificate", 4>>, <<"SaveConfig", 1>>}
  /\ step = "write" => <<op, at>> \in {<<"main", 2>>, <<"InstallCertificate", 5>>, <<"SaveConfig", 2>>}
  /\ step = "list" => <<op, at>> \in {<<"main", 3>>, <<"InstallCertificate", 1>>, <<"TestConnection", 1>>}
  /\ step = "choose" => <<op, at>> \in {<<"main", 4>>}
  /\ step = "lookup" => <<op, at>> \in {<<"InstallCertificate", 2>>}
  /\ step = "bind" => <<op, at>> \in {<<"main", 5>>, <<"InstallCertificate", 3>>}
  /\ step = "delete" => <<op, at>> \in {<<"remove", 1>>, <<"UninstallCertificate", 1>>}
  /\ step = "fetch" => <<op, at>> \in {<<"InstallCertificate", 6>>, <<"UninstallCertificate", 3>>, <<"ListRemoteCertificates", 1>>, <<"TestConnection", 2>>}
  /\ step = "show" => <<op, at>> \in {<<"InstallCertificate", 7>>, <<"UninstallCertificate", 2>>, <<"ListInstalledCertificates", 1>>}

LEMMA PlanPlace ==
  ASSUME NEW op \in OpNames, NEW at \in 1 .. 7, NEW step,
         at <= Len(Plan[op]), Plan[op][at] = step
  PROVE  op # "none" /\ Places(step, op, at)
<1>1. CASE op = "main"
  BY <1>1, PlanTable DEF Places
<1>2. CASE op = "remove"
  BY <1>2, PlanTable DEF Places
<1>3. CASE op = "InstallCertificate"
  BY <1>3, PlanTable DEF Places
<1>4. CASE op = "UninstallCertificate"
  BY <1>4, PlanTable DEF Places
<1>5. CASE op = "SaveConfig"
  BY <1>5, PlanTable DEF Places
<1>6. CASE op = "ListInstalledCertificates"
  BY <1>6, PlanTable DEF Places
<1>7. CASE op = "ListRemoteCertificates"
  BY <1>7, PlanTable DEF Places
<1>8. CASE op = "TestConnection"
  BY <1>8, PlanTable DEF Places
<1>9. op # "none"
  BY PlanTable
<1> QED BY <1>1, <1>2, <1>3, <1>4, <1>5, <1>6, <1>7, <1>8, <1>9 DEF OpNames

LEMMA ToolPlace ==
  ASSUME ToolsFormed, NEW p \in Tools, NEW step, At(p, step)
  PROVE  /\ tool[p] \in Commands /\ tool[p].op # "none"
         /\ Places(step, tool[p].op, tool[p].at)
<1>1. tool[p] \in Commands /\ tool[p].op \in OpNames /\ tool[p].at \in 1 .. 7
  BY DEF ToolsFormed, Commands
<1> QED BY <1>1, PlanPlace DEF At

\* The record of a command with another place, other certificates, or after
\* somebody else has changed something.
LEMMA CommandAt ==
  ASSUME NEW t \in Commands, NEW n \in 1 .. 7, NEW u, u = [t EXCEPT !.at = n]
  PROVE  /\ u \in Commands /\ u.at = n
         /\ u.op = t.op /\ u.addr = t.addr /\ u.given = t.given /\ u.target = t.target
         /\ u.certs = t.certs /\ u.quiet = t.quiet
BY DEF Commands

LEMMA CommandCerts ==
  ASSUME NEW t \in Commands, NEW cs \in SUBSET Certs, NEW u, u = [t EXCEPT !.certs = cs]
  PROVE  /\ u \in Commands /\ u.certs = cs
         /\ u.op = t.op /\ u.at = t.at /\ u.addr = t.addr /\ u.given = t.given
         /\ u.target = t.target /\ u.quiet = t.quiet
BY DEF Commands

LEMMA CommandDisturbed ==
  ASSUME NEW t \in Commands, NEW u, u = [t EXCEPT !.quiet = FALSE]
  PROVE  /\ u \in Commands /\ u.quiet = FALSE
         /\ u.op = t.op /\ u.at = t.at /\ u.addr = t.addr /\ u.given = t.given
         /\ u.target = t.target /\ u.certs = t.certs
BY DEF Commands

\* A tool that does nothing is in order.
LEMMA IdleFormed ==
  /\ Idle \in Commands /\ Idle.op = "none" /\ Idle.at = 1
  /\ \A p \in Tools : Formed(p, Idle)
BY DEF Idle, Command, Commands, OpNames, Formed

-----------------------------------------------------------------------------
(***************************************************************************)
(* How a step of one tool is put together.                                 *)
(***************************************************************************)
\* Another tool goes on as before, or has to reckon with a change.
LeftAlone(q) ==
  \/ tool'[q] = [tool[q] EXCEPT !.quiet = FALSE]
  \/ tool'[q] = tool[q] /\ UNCHANGED <<file, store, up, offers>>

\* So does another manager's screen.
ScreenLeft(q) ==
  \/ /\ screen'[q].bound = screen[q].bound /\ screen'[q].boundNow = screen[q].boundNow
     /\ screen'[q].remote = screen[q].remote /\ screen'[q].marked = screen[q].marked
     /\ screen'[q].remoteNow = screen[q].remoteNow
     /\ UNCHANGED store
  \/ screen'[q].boundNow = "no" /\ screen'[q].remoteNow = "no"

LEMMA OthersKeep ==
  ASSUME ToolsFormed, Carrying, NEW p \in Tools, NEW q \in Tools, LeftAlone(q)
  PROVE  /\ tool'[q] \in Commands /\ Formed(q, tool'[q])
         /\ Carried(tool'[q], file', store', up', offers')
         /\ tool'[q].op = tool[q].op /\ tool'[q].at = tool[q].at
<1>1. tool[q] \in Commands /\ Formed(q, tool[q]) /\ Carried(tool[q], file, store, up, offers)
  BY DEF ToolsFormed, Carrying
<1>2. CASE tool'[q] = [tool[q] EXCEPT !.quiet = FALSE]
  <2>1. /\ tool'[q] \in Commands /\ tool'[q].quiet = FALSE
        /\ tool'[q].op = tool[q].op /\ tool'[q].at = tool[q].at /\ tool'[q].addr = tool[q].addr
        /\ tool'[q].target = tool[q].target /\ tool'[q].certs = tool[q].certs
    BY <1>1, <1>2, CommandDisturbed
  <2>2. Formed(q, tool'[q])
    BY <1>1, <2>1 DEF Formed
  <2>3. Carried(tool'[q], file', store', up', offers')
    BY <2>1 DEF Carried
  <2> QED BY <2>1, <2>2, <2>3
<1>3. CASE tool'[q] = tool[q] /\ UNCHANGED <<file, store, up, offers>>
  BY <1>1, <1>3
<1> QED BY <1>2, <1>3 DEF LeftAlone

LEMMA Assembled ==
  ASSUME InstallInv, NEW p \in Tools, World', ScreensFormed', InstalledIsUsable',
         tool' = [q \in Tools |-> tool'[q]], tool'[p] \in Commands, Formed(p, tool'[p]),
         Carried(tool'[p], file', store', up', offers'),
         p \in UiTools => Shown(tool'[p], screen'[p], store'),
         \A q \in Tools \ {p} : LeftAlone(q),
         \A q \in UiTools \ {p} : ScreenLeft(q)
  PROVE  InstallInv'
<1>1. \A q \in Tools : /\ tool'[q] \in Commands /\ Formed(q, tool'[q])
                       /\ Carried(tool'[q], file', store', up', offers')
                       /\ q # p => tool'[q].op = tool[q].op /\ tool'[q].at = tool[q].at
  BY OthersKeep DEF InstallInv
<1>2. ToolsFormed'
  <2>1. tool' \in [Tools -> Commands]
    BY <1>1
  <2> QED BY <1>1, <2>1 DEF ToolsFormed
<1>3. Carrying'
  BY <1>1 DEF Carrying
<1>4. Showing'
  <2>1. SUFFICES ASSUME NEW q \in UiTools, q # p PROVE Shown(tool'[q], screen'[q], store')
    BY DEF Showing
  <2>2. /\ tool'[q].op = tool[q].op /\ tool'[q].at = tool[q].at
        /\ Shown(tool[q], screen[q], store) /\ ScreenLeft(q)
    BY <1>1, <2>1 DEF InstallInv, Showing, Tools
  <2>3. CASE ~(screen'[q].boundNow = "no" /\ screen'[q].remoteNow = "no")
    BY <2>2, <2>3 DEF Shown, ScreenLeft
  <2>4. CASE screen'[q].boundNow = "no" /\ screen'[q].remoteNow = "no"
    BY <2>4 DEF Shown, Agrees
  <2> QED BY <2>2, <2>3, <2>4 DEF ScreenLeft
<1> QED BY <1>2, <1>3, <1>4 DEF InstallInv

\* The command after a step.
After(t) == IF t.at = Len(Plan[t.op]) THEN Idle ELSE [t EXCEPT !.at = t.at + 1]

LEMMA AfterLast ==
  ASSUME NEW t \in Commands, t.at = Len(Plan[t.op])
  PROVE  After(t) = Idle
BY DEF After

LEMMA AfterStep ==
  ASSUME NEW t \in Commands, NEW n \in 1 .. 6, t.at = n, n # Len(Plan[t.op])
  PROVE  /\ After(t) \in Commands /\ After(t).at = n + 1
         /\ After(t).op = t.op /\ After(t).addr = t.addr /\ After(t).given = t.given
         /\ After(t).target = t.target /\ After(t).certs = t.certs /\ After(t).quiet = t.quiet
<1>1. After(t) = [t EXCEPT !.at = n + 1] /\ n + 1 \in 1 .. 7
  BY DEF After
<1>2. PICK m \in 1 .. 7 : m = n + 1
  BY <1>1
<1>3. After(t) = [t EXCEPT !.at = m]
  BY <1>1, <1>2
<1> QED BY <1>2, <1>3, CommandAt

\* What Proceed does to the tools.
LEMMA Proceeds ==
  ASSUME ToolsFormed, NEW p \in Tools, NEW t, NEW others, Proceed(p, t, others)
  PROVE  /\ tool' = [q \in Tools |-> tool'[q]]
         /\ tool'[p] = After(t)
         /\ \A q \in Tools \ {p} :
              tool'[q] = IF q \in others THEN [tool[q] EXCEPT !.quiet = FALSE] ELSE tool[q]
         /\ t.at # Len(Plan[t.op]) => fresh' = {}
         /\ t.op \notin {"main", "InstallCertificate"} => fresh' = {}
         /\ ~t.quiet \/ t.given => fresh' = {}
         /\ fresh' \subseteq {[tool |-> p, cert |-> c] : c \in t.certs}
<1>1. tool' = [Disturbed(others) EXCEPT ![p] = After(t)]
  BY DEF Proceed, After
<1> QED BY <1>1 DEF Proceed, Disturbed

\* A step that succeeds, with what the others see of it.
LEMMA ProceedStep ==
  ASSUME InstallInv, NEW p \in Tools, NEW t \in Commands, NEW others, Proceed(p, t, others),
         World', ScreensFormed',
         others = Tools \ {p} \/ UNCHANGED <<file, store, up, offers>>,
         After(t) \in Commands, Formed(p, After(t)),
         Carried(After(t), file', store', up', offers'),
         p \in UiTools => Shown(After(t), screen'[p], store'),
         \A q \in UiTools \ {p} : ScreenLeft(q),
         InstalledIsUsable'
  PROVE  InstallInv'
<1>1. ToolsFormed
  BY DEF InstallInv
<1>2. \A q \in Tools \ {p} : LeftAlone(q)
  BY <1>1, Proceeds DEF LeftAlone
<1>3. tool' = [q \in Tools |-> tool'[q]] /\ tool'[p] = After(t)
  BY <1>1, Proceeds
<1> QED BY <1>2, <1>3, Assembled

\* A command that fails before it has changed the store.
LEMMA FailStep ==
  ASSUME InstallInv, NEW p \in Tools, Fail(p), UNCHANGED <<envVars, file, store, screen>>,
         ~(tool[p].op = "InstallCertificate" /\ tool[p].at \in {4, 5, 6, 7}),
         ~(tool[p].op = "UninstallCertificate" /\ tool[p].at \in {2, 3})
  PROVE  InstallInv'
<1>1. World' /\ ScreensFormed'
  BY DEF InstallInv, World, ScreensFormed, envVars
<1>2. InstalledIsUsable'
  BY DEF Fail, InstalledIsUsable
<1>3. tool \in [Tools -> Commands]
  BY DEF InstallInv, ToolsFormed
<1>4. tool' = [q \in Tools |-> tool'[q]] /\ tool'[p] = Idle /\ \A q \in Tools \ {p} : tool'[q] = tool[q]
  BY <1>3 DEF Fail
<1>5. Formed(p, Idle) /\ Idle \in Commands
  BY IdleFormed
<1>6. Carried(Idle, file', store', up', offers')
  BY IdleFormed DEF Carried
<1>7. p \in UiTools => Shown(Idle, screen'[p], store')
  BY DEF InstallInv, Showing, Shown
<1>8. (\A q \in Tools \ {p} : LeftAlone(q)) /\ (\A q \in UiTools \ {p} : ScreenLeft(q))
  BY <1>4 DEF LeftAlone, ScreenLeft, envVars
<1> QED BY <1>1, <1>2, <1>4, <1>5, <1>6, <1>7, <1>8, Assembled

-----------------------------------------------------------------------------
(***************************************************************************)
(* Commands begin                                                          *)
(***************************************************************************)
LEMMA CommandFields ==
  ASSUME NEW op \in OpNames, NEW addr \in SavedAddrs \cup {NoAddr}, NEW given \in BOOLEAN,
         NEW target \in SavedAddrs \cup {NoAddr}, NEW certs \in SUBSET Certs,
         NEW cmd, cmd = Command(op, addr, given, target, certs)
  PROVE  /\ cmd \in Commands /\ cmd.op = op /\ cmd.at = 1 /\ cmd.addr = addr
         /\ cmd.target = target /\ cmd.certs = certs
<1>1. cmd = [op |-> op, at |-> 1, addr |-> addr, given |-> given, target |-> target,
             certs |-> certs, quiet |-> TRUE]
  BY DEF Command
<1>2. 1 \in 1 .. 7
  OBVIOUS
<1> QED BY <1>1, <1>2 DEF Commands

\* An address that was resolved has a host and a port.
LEMMA Resolved ==
  ASSUME NEW a \in Typed, NEW hint \in SUBSET Hosts, NEW r \in ResolveServerAddress(a, hint)
  PROVE  r \in SavedAddrs /\ r.port # NoPort
<1>1. a.host \in Hosts /\ a.port \in {DefaultPort, NoPort} /\ LookupAddr[a.host] \subseteq Hosts
  BY InstallAssumption
<1>2. PICK n \in Hosts : r = Address(n, DefaultPort)
  BY <1>1 DEF ResolveServerAddress, resolveOrTestHostname
<1> QED BY <1>2 DEF Address, SavedAddrs, DefaultPort, NoPort

\* A screen whose last test signature is forgotten or replaced.
LEMMA ScreenTest ==
  ASSUME NEW sc \in Screens, NEW r \in {"none", "invalid", "signed", "failed"},
         NEW new, new = [sc EXCEPT !.test = r]
  PROVE  /\ new \in Screens /\ new.bound = sc.bound /\ new.boundNow = sc.boundNow
         /\ new.remote = sc.remote /\ new.marked = sc.marked /\ new.remoteNow = sc.remoteNow
BY DEF Screens

LEMMA BeginStep ==
  ASSUME InstallInv, NEW p \in Tools, NEW cmd \in Commands, cmd.at = 1, Formed(p, cmd),
         Begin(p, cmd)
  PROVE  InstallInv'
<1>1. World' /\ UNCHANGED <<file, store, up, offers>>
  BY DEF InstallInv, World, Begin, envVars
<1>2. InstalledIsUsable'
  BY DEF Begin, InstalledIsUsable
<1>3. \A q \in UiTools : screen[q] \in Screens /\ screen'[q] = [screen[q] EXCEPT !.test = "none"]
  BY DEF InstallInv, ScreensFormed, Begin
<1>4. \A q \in UiTools :
        /\ screen'[q] \in Screens
        /\ screen'[q].bound = screen[q].bound /\ screen'[q].boundNow = screen[q].boundNow
        /\ screen'[q].remote = screen[q].remote /\ screen'[q].marked = screen[q].marked
        /\ screen'[q].remoteNow = screen[q].remoteNow
  <2> SUFFICES ASSUME NEW q \in UiTools
               PROVE  /\ screen'[q] \in Screens
                      /\ screen'[q].bound = screen[q].bound
                      /\ screen'[q].boundNow = screen[q].boundNow
                      /\ screen'[q].remote = screen[q].remote
                      /\ screen'[q].marked = screen[q].marked
                      /\ screen'[q].remoteNow = screen[q].remoteNow
    OBVIOUS
  <2>1. PICK r \in {"none", "invalid", "signed", "failed"} : r = "none"
    OBVIOUS
  <2>2. screen[q] \in Screens /\ screen'[q] = [screen[q] EXCEPT !.test = r]
    BY <1>3, <2>1
  <2> QED BY <2>2, ScreenTest
<1>5. ScreensFormed'
  <2>1. screen' \in [UiTools -> Screens]
    BY <1>4 DEF Begin
  <2> QED BY <1>4, <2>1 DEF InstallInv, ScreensFormed
<1>6. \A q \in UiTools \ {p} : ScreenLeft(q)
  BY <1>1, <1>4 DEF ScreenLeft
<1>7. tool[p].op = "none" /\ tool \in [Tools -> Commands] /\ tool' = [tool EXCEPT ![p] = cmd]
  BY DEF Begin, InstallInv, ToolsFormed
<1>8. tool' = [q \in Tools |-> tool'[q]] /\ tool'[p] = cmd /\ \A q \in Tools \ {p} : tool'[q] = tool[q]
  BY <1>7
<1>9. \A q \in Tools \ {p} : LeftAlone(q)
  BY <1>1, <1>8 DEF LeftAlone
<1>10. Carried(cmd, file', store', up', offers')
  BY DEF Carried
<1>11. p \in UiTools => Shown(cmd, screen'[p], store')
  BY <1>1, <1>4, <1>7 DEF InstallInv, Showing, Shown
<1> QED BY <1>1, <1>2, <1>5, <1>6, <1>8, <1>9, <1>10, <1>11, Assembled

\* main and -remove.
LEMMA CliStarts ==
  ASSUME InstallInv, NEW p \in CliTools,
         \/ CliInstall(p)
         \/ \E c \in Certs : Begin(p, Command("remove", NoAddr, FALSE, NoAddr, {c}))
  PROVE  InstallInv'
<1>1. p \in Tools
  BY DEF Tools
<1>2. CASE CliInstall(p)
  <2>1. PICK a \in Typed, hint \in SUBSET Hosts :
          \E r \in ResolveServerAddress(a, hint), given \in BOOLEAN :
            Begin(p, Command("main", r, given, r, {}))
    BY <1>2 DEF CliInstall
  <2>2. PICK r \in ResolveServerAddress(a, hint), given \in BOOLEAN :
          Begin(p, Command("main", r, given, r, {}))
    BY <2>1
  <2>3. PICK cmd : cmd = Command("main", r, given, r, {})
    OBVIOUS
  <2>4. r \in SavedAddrs /\ r.port # NoPort
    BY <2>2, Resolved
  <2>5. cmd \in Commands /\ cmd.op = "main" /\ cmd.at = 1 /\ cmd.addr = r /\ cmd.target = r
    BY <2>3, <2>4, CommandFields DEF OpNames
  <2>6. Formed(p, cmd)
    BY <2>4, <2>5 DEF Formed
  <2> QED BY <1>1, <2>2, <2>3, <2>5, <2>6, BeginStep
<1>3. CASE \E c \in Certs : Begin(p, Command("remove", NoAddr, FALSE, NoAddr, {c}))
  <2>1. PICK c \in Certs : Begin(p, Command("remove", NoAddr, FALSE, NoAddr, {c}))
    BY <1>3
  <2>2. PICK cmd : cmd = Command("remove", NoAddr, FALSE, NoAddr, {c})
    OBVIOUS
  <2>3. cmd \in Commands /\ cmd.op = "remove" /\ cmd.at = 1 /\ cmd.certs = {c}
    <3>1. PICK given \in BOOLEAN : given = FALSE
      OBVIOUS
    <3>2. cmd = Command("remove", NoAddr, given, NoAddr, {c})
      BY <2>2, <3>1
    <3> QED BY <3>2, CommandFields DEF OpNames
  <2>4. Formed(p, cmd)
    BY <2>3 DEF Formed, One
  <2> QED BY <1>1, <2>1, <2>2, <2>3, <2>4, BeginStep
<1> QED BY <1>2, <1>3

\* The manager's calls that save the address of the form.
LEMMA UiSaves ==
  ASSUME InstallInv, NEW p \in UiTools, NEW op, NEW certs, UiSave(p, op, certs),
         \/ op = "InstallCertificate" /\ One(certs)
         \/ op = "SaveConfig" /\ certs = {}
  PROVE  InstallInv'
<1>1. PICK a \in Typed, given \in BOOLEAN : \E r \in ResolveServerAddress(a, {}) :
        Begin(p, Command(op, a, given, r, certs))
  BY DEF UiSave
<1>2. PICK r \in ResolveServerAddress(a, {}) : Begin(p, Command(op, a, given, r, certs))
  BY <1>1
<1>3. r \in SavedAddrs /\ a \in SavedAddrs
  BY <1>2, Resolved, InstallAssumption DEF SavedAddrs
<1>4. PICK cmd : cmd = Command(op, a, given, r, certs)
  OBVIOUS
<1>5. cmd \in Commands /\ cmd.op = op /\ cmd.at = 1 /\ cmd.addr = a /\ cmd.certs = certs
  BY <1>3, <1>4, CommandFields DEF OpNames, One
<1>6. Formed(p, cmd)
  BY <1>3, <1>5 DEF Formed, One
<1> QED BY <1>2, <1>4, <1>5, <1>6, BeginStep DEF Tools

\* Those that only use it.
LEMMA UiCalls ==
  ASSUME InstallInv, NEW p \in UiTools, NEW op, NEW certs, UiCall(p, op, certs),
         \/ op = "UninstallCertificate" /\ One(certs)
         \/ /\ op \in {"ListInstalledCertificates", "ListRemoteCertificates", "TestConnection"}
            /\ certs = {}
  PROVE  InstallInv'
<1>1. PICK a \in Typed : \E r \in ResolveServerAddress(a, {}) :
        Begin(p, Command(op, NoAddr, FALSE, r, certs))
  BY DEF UiCall
<1>2. PICK r \in ResolveServerAddress(a, {}) : Begin(p, Command(op, NoAddr, FALSE, r, certs))
  BY <1>1
<1>3. r \in SavedAddrs
  BY <1>2, Resolved
<1>4. PICK cmd : cmd = Command(op, NoAddr, FALSE, r, certs)
  OBVIOUS
<1>5. cmd \in Commands /\ cmd.op = op /\ cmd.at = 1 /\ cmd.certs = certs
  <2>1. PICK given \in BOOLEAN : given = FALSE
    OBVIOUS
  <2>2. cmd = Command(op, NoAddr, given, r, certs)
    BY <1>4, <2>1
  <2>3. op \in OpNames /\ certs \in SUBSET Certs
    BY DEF OpNames, One
  <2> QED BY <1>3, <2>2, <2>3, CommandFields
<1>6. Formed(p, cmd)
  BY <1>5 DEF Formed
<1> QED BY <1>2, <1>4, <1>5, <1>6, BeginStep DEF Tools

LEMMA StartStep ==
  ASSUME InstallInv, NEW p \in Tools, Start(p)
  PROVE  InstallInv'
<1>1. p \in UiTools => screen[p].remote \subseteq Certs /\ screen[p].bound \subseteq Certs
  BY DEF InstallInv, ScreensFormed, Screens
<1>2. CASE p \in CliTools /\ (CliInstall(p) \/ \E c \in Certs :
                                Begin(p, Command("remove", NoAddr, FALSE, NoAddr, {c})))
  BY <1>2, CliStarts
<1>3. CASE p \in UiTools /\ \E c \in screen[p].remote : UiSave(p, "InstallCertificate", {c})
  BY <1>1, <1>3, UiSaves DEF One
<1>4. CASE p \in UiTools /\ UiSave(p, "SaveConfig", {})
  BY <1>4, UiSaves
<1>5. CASE p \in UiTools /\ \E c \in screen[p].bound : UiCall(p, "UninstallCertificate", {c})
  BY <1>1, <1>5, UiCalls DEF One
<1>6. CASE p \in UiTools /\ \E op \in {"ListInstalledCertificates", "ListRemoteCertificates",
                                       "TestConnection"} : UiCall(p, op, {})
  BY <1>6, UiCalls
<1> QED BY <1>2, <1>3, <1>4, <1>5, <1>6 DEF Start

-----------------------------------------------------------------------------
(***************************************************************************)
(* The steps of a command                                                  *)
(***************************************************************************)
LEMMA NothingFresh == ASSUME fresh' = {} PROVE InstalledIsUsable'
BY DEF InstalledIsUsable

\* A step that leaves store and screens alone.
LEMMA ScreensKept ==
  ASSUME InstallInv, UNCHANGED <<store, screen>>
  PROVE  /\ ScreensFormed'
         /\ \A q \in UiTools : ScreenLeft(q) /\ Shown(tool[q], screen'[q], store')
<1>1. ScreensFormed'
  BY DEF InstallInv, ScreensFormed
<1>2. \A q \in UiTools : ScreenLeft(q) /\ Shown(tool[q], screen'[q], store')
  BY DEF InstallInv, Showing, ScreenLeft
<1> QED BY <1>1, <1>2

\* What the invariant says of one tool.
LEMMA OneTool ==
  ASSUME InstallInv, NEW p \in Tools
  PROVE  /\ tool[p] \in Commands /\ Formed(p, tool[p])
         /\ Carried(tool[p], file, store, up, offers)
         /\ ToolsFormed
BY DEF InstallInv, ToolsFormed, Carrying

LEMMA SaveFailsStep ==
  ASSUME InstallInv, NEW p \in Tools, At(p, "open") \/ At(p, "write"), SaveFails(p),
         UNCHANGED <<envVars, file, store, screen>>
  PROVE  InstallInv'
<1>1. /\ tool[p] \in Commands /\ Formed(p, tool[p]) /\ Carried(tool[p], file, store, up, offers)
      /\ tool[p].op = "InstallCertificate" => tool[p].at \in {4, 5}
      /\ tool[p].op # "UninstallCertificate"
  BY OneTool, ToolPlace DEF Places
<1>2. CASE tool[p].op = "InstallCertificate"
  <2> DEFINE t == [tool[p] EXCEPT !.at = 5]
  <2>1. Proceed(p, t, {})
    BY <1>2 DEF SaveFails
  <2>2. /\ t \in Commands /\ t.at = 5 /\ t.op = "InstallCertificate" /\ t.addr = tool[p].addr
        /\ t.certs = tool[p].certs /\ t.quiet = tool[p].quiet
    <3>1. 5 \in 1 .. 7
      OBVIOUS
    <3> QED BY <1>1, <1>2, <3>1, CommandAt
  <2> HIDE DEF t
  <2>3. 5 # Len(Plan[t.op]) /\ 5 \in 1 .. 6
    BY <2>2, PlanLength
  <2>4. /\ After(t) \in Commands /\ After(t).at = 6 /\ After(t).op = "InstallCertificate"
        /\ After(t).addr = tool[p].addr /\ After(t).certs = tool[p].certs
        /\ After(t).quiet = tool[p].quiet
    BY <2>2, <2>3, AfterStep
  <2>5. Formed(p, After(t))
    BY <1>1, <1>2, <2>4 DEF Formed
  <2>6. Carried(After(t), file', store', up', offers')
    BY <1>1, <1>2, <2>4 DEF Carried, envVars
  <2>7. Shown(After(t), screen'[p], store')
    BY <2>4 DEF Shown
  <2>8. fresh' = {}
    BY <1>1, <2>1, <2>2, <2>3, OneTool, Proceeds
  <2>9. World' /\ UNCHANGED <<file, store, up, offers>>
    BY DEF InstallInv, World, envVars
  <2> QED
    BY <2>1, <2>2, <2>4, <2>5, <2>6, <2>7, <2>8, <2>9, ScreensKept, NothingFresh, ProceedStep
<1>3. CASE tool[p].op # "InstallCertificate"
  BY <1>1, <1>3, FailStep DEF SaveFails
<1> QED BY <1>2, <1>3

LEMMA OpenStep ==
  ASSUME InstallInv, NEW p \in Tools, OpenFile(p)
  PROVE  InstallInv'
<1>1. CASE UNCHANGED file /\ SaveFails(p)
  BY <1>1, SaveFailsStep DEF OpenFile
<1>2. CASE /\ file' = IF tool[p].given THEN file ELSE File("empty", NoAddr)
           /\ Proceed(p, tool[p], Tools \ {p})
  <2> DEFINE t == tool[p]
  <2>1. /\ t \in Commands /\ Formed(p, t) /\ Carried(t, file, store, up, offers)
        /\ Places("open", t.op, t.at)
    BY OneTool, ToolPlace DEF OpenFile
  <2>2. UNCHANGED <<up, offers, changes, store, screen>>
    BY DEF OpenFile, envVars
  <2> HIDE DEF t
  <2>3. t.at \in 1 .. 6 /\ t.at # Len(Plan[t.op])
    <3>1. \/ t.op = "main" /\ t.at = 1
          \/ t.op = "InstallCertificate" /\ t.at = 4
          \/ t.op = "SaveConfig" /\ t.at = 1
      BY <2>1 DEF Places
    <3> QED BY <3>1, PlanLength
  <2>4. /\ After(t) \in Commands /\ After(t).at = t.at + 1
        /\ After(t).op = t.op /\ After(t).addr = t.addr /\ After(t).given = t.given
        /\ After(t).target = t.target /\ After(t).certs = t.certs /\ After(t).quiet = t.quiet
    BY <2>1, <2>3, AfterStep
  <2>5. /\ t.op = "main" => After(t).at = 2
        /\ t.op = "InstallCertificate" => t.at = 4 /\ After(t).at = 5
        /\ t.op \in {"main", "InstallCertificate", "SaveConfig"}
    BY <2>1, <2>4 DEF Places
  <2>6. Formed(p, After(t))
    BY <2>1, <2>4, <2>5 DEF Formed
  <2>7. Carried(After(t), file', store', up', offers')
    <3>1. ~t.given => file'.kind = "empty"
      BY <1>2 DEF File, t
    <3> QED BY <2>1, <2>2, <2>4, <2>5, <3>1 DEF Carried
  <2>8. p \in UiTools => Shown(After(t), screen'[p], store')
    <3>1. p \in UiTools => Shown(t, screen'[p], store')
      BY <2>2, ScreensKept DEF t
    <3> QED BY <2>4, <2>5, <3>1 DEF Shown
  <2>9. World'
    BY <1>2, <2>2 DEF InstallInv, World, File
  <2>10. fresh' = {}
    BY <1>2, <2>3, OneTool, Proceeds DEF t
  <2> QED
    BY <1>2, <2>1, <2>2, <2>4, <2>6, <2>7, <2>8, <2>9, <2>10, ScreensKept, NothingFresh,
       ProceedStep DEF t
<1> QED BY <1>1, <1>2 DEF OpenFile

\* SaveConfig alone, and whatever is over after its last step, leaves a tool idle.
LEMMA IdleCarries ==
  ASSUME NEW p \in Tools
  PROVE  /\ Idle \in Commands /\ Formed(p, Idle)
         /\ Carried(Idle, file', store', up', offers')
         /\ Idle.op = "none"
BY IdleFormed DEF Carried

LEMMA WriteStep ==
  ASSUME InstallInv, NEW p \in Tools, WriteFile(p)
  PROVE  InstallInv'
<1>1. CASE UNCHANGED file /\ SaveFails(p)
  BY <1>1, SaveFailsStep DEF WriteFile
<1>2. CASE /\ \/ file' = IF tool[p].given THEN file ELSE File("whole", tool[p].addr)
              \/ ~tool[p].given /\ file.kind # "empty" /\ file' = File("mixed", NoAddr)
           /\ Proceed(p, tool[p], Tools \ {p})
  <2> DEFINE t == tool[p]
  <2>1. /\ t \in Commands /\ Formed(p, t) /\ Carried(t, file, store, up, offers)
        /\ Places("write", t.op, t.at)
    BY OneTool, ToolPlace DEF WriteFile
  <2>2. UNCHANGED <<up, offers, changes, store, screen>>
    BY DEF WriteFile, envVars
  <2>3. /\ Proceed(p, t, Tools \ {p})
        /\ \/ file' = IF t.given THEN file ELSE File("whole", t.addr)
           \/ ~t.given /\ file.kind # "empty" /\ file' = File("mixed", NoAddr)
        /\ p \in UiTools => Shown(t, screen'[p], store')
    BY <1>2, <2>2, ScreensKept
  <2> HIDE DEF t
  <2>4. \/ t.op = "main" /\ t.at = 2
        \/ t.op = "InstallCertificate" /\ t.at = 5
        \/ t.op = "SaveConfig" /\ t.at = 2
    BY <2>1 DEF Places
  <2>5. World'
    <3>1. t.addr \in SavedAddrs \cup {NoAddr}
      BY <2>1 DEF Commands
    <3> QED BY <2>2, <2>3, <3>1 DEF InstallInv, World, File
  <2>6. /\ After(t) \in Commands /\ Formed(p, After(t))
        /\ Carried(After(t), file', store', up', offers')
        /\ p \in UiTools => Shown(After(t), screen'[p], store')
        /\ fresh' = {}
    <3>1. CASE t.op = "main" /\ t.at = 2
      <4>1. 2 # Len(Plan[t.op]) /\ 2 \in 1 .. 6
        BY <3>1, PlanLength
      <4>2. /\ After(t) \in Commands /\ After(t).at = 3
            /\ After(t).op = t.op /\ After(t).addr = t.addr /\ After(t).given = t.given
            /\ After(t).target = t.target /\ After(t).certs = t.certs /\ After(t).quiet = t.quiet
        BY <2>1, <3>1, <4>1, AfterStep
      <4>3. Formed(p, After(t))
        BY <2>1, <3>1, <4>2 DEF Formed
      <4>4. Carried(After(t), file', store', up', offers')
        <5>1. t.quiet /\ ~t.given => file' = File("whole", t.addr)
          BY <2>1, <2>3, <3>1 DEF Carried
        <5> QED BY <3>1, <4>2, <5>1 DEF Carried
      <4>5. p \in UiTools => Shown(After(t), screen'[p], store')
        BY <2>3, <3>1, <4>2 DEF Shown
      <4>6. fresh' = {}
        BY <2>3, <3>1, <4>1, OneTool, Proceeds
      <4> QED BY <4>2, <4>3, <4>4, <4>5, <4>6
    <3>2. CASE t.op = "InstallCertificate" /\ t.at = 5
      <4>1. 5 # Len(Plan[t.op]) /\ 5 \in 1 .. 6
        BY <3>2, PlanLength
      <4>2. /\ After(t) \in Commands /\ After(t).at = 6
            /\ After(t).op = t.op /\ After(t).addr = t.addr
            /\ After(t).certs = t.certs /\ After(t).quiet = t.quiet
        BY <2>1, <3>2, <4>1, AfterStep
      <4>3. Formed(p, After(t))
        BY <2>1, <3>2, <4>2 DEF Formed
      <4>4. Carried(After(t), file', store', up', offers')
        BY <2>1, <2>2, <3>2, <4>2 DEF Carried
      <4>5. Shown(After(t), screen'[p], store')
        BY <3>2, <4>2 DEF Shown
      <4>6. fresh' = {}
        <5>1. ToolsFormed /\ t.at # Len(Plan[t.op])
          BY <3>2, <4>1, OneTool
        <5> QED BY <2>3, <5>1, Proceeds
      <4> QED BY <4>2, <4>3, <4>4, <4>5, <4>6
    <3>3. CASE t.op = "SaveConfig" /\ t.at = 2
      <4>1. After(t) = Idle
        BY <2>1, <3>3, PlanLength, AfterLast
      <4>2. fresh' = {}
        BY <2>3, <3>3, OneTool, Proceeds
      <4>3. p \in UiTools => Shown(Idle, screen'[p], store')
        BY <2>3, <3>3 DEF Shown
      <4> QED BY <4>1, <4>2, <4>3, IdleCarries
    <3> QED BY <2>4, <3>1, <3>2, <3>3
  <2> QED
    BY <2>1, <2>2, <2>3, <2>5, <2>6, ScreensKept, NothingFresh, ProceedStep
<1> QED BY <1>1, <1>2 DEF WriteFile

\* A step that changes nothing but its own command.
LEMMA QuietStep ==
  ASSUME InstallInv, NEW p \in Tools, NEW t \in Commands, Proceed(p, t, {}),
         UNCHANGED <<envVars, file, store, screen>>, t.op = tool[p].op, t.at = tool[p].at,
         NEW n \in 1 .. 6, t.at = n, n # Len(Plan[t.op]), NEW m, m = n + 1,
         NEW u, u = [t EXCEPT !.at = m], Formed(p, u), Carried(u, file, store, up, offers),
         ~(t.op = "InstallCertificate" /\ t.at \in {4, 5, 6, 7}), t.op # "UninstallCertificate"
  PROVE  InstallInv'
<1>1. After(t) \in Commands /\ After(t).op = t.op /\ After(t) = u
  BY AfterStep DEF After
<1>2. World' /\ UNCHANGED <<file, store, up, offers>>
  BY DEF InstallInv, World, envVars
<1>3. p \in UiTools => Shown(After(t), screen'[p], store')
  <2>1. p \in UiTools => Shown(tool[p], screen'[p], store')
    BY ScreensKept
  <2> QED BY <1>1, <2>1 DEF Shown
<1>4. fresh' = {}
  BY OneTool, Proceeds
<1>5. Carried(After(t), file', store', up', offers')
  BY <1>1, <1>2
<1> QED
  BY <1>1, <1>2, <1>3, <1>4, <1>5, ScreensKept, NothingFresh, ProceedStep

LEMMA ListStep ==
  ASSUME InstallInv, NEW p \in Tools, List(p)
  PROVE  InstallInv'
<1>1. /\ tool[p] \in Commands /\ Formed(p, tool[p]) /\ Carried(tool[p], file, store, up, offers)
      /\ \/ tool[p].op = "main" /\ tool[p].at = 3
         \/ tool[p].op = "InstallCertificate" /\ tool[p].at = 1
         \/ tool[p].op = "TestConnection" /\ tool[p].at = 1
  BY OneTool, ToolPlace DEF List, Places
<1>2. UNCHANGED <<envVars, file, store, screen>>
  BY DEF List
<1>3. CASE Fail(p)
  BY <1>1, <1>2, <1>3, FailStep
<1>4. CASE /\ tool[p].target \in up
           /\ Proceed(p, [tool[p] EXCEPT !.certs = IF @ = {} THEN offers ELSE @ \cap offers], {})
  <2>1. PICK cs : cs = IF tool[p].certs = {} THEN offers ELSE tool[p].certs \cap offers
    OBVIOUS
  <2>2. cs \in SUBSET Certs /\ cs \subseteq offers /\ (tool[p].certs # {} => cs \subseteq tool[p].certs)
    BY <2>1 DEF InstallInv, World
  <2>3. PICK t : t = [tool[p] EXCEPT !.certs = cs]
    OBVIOUS
  <2>4. Proceed(p, t, {})
    BY <1>4, <2>1, <2>3
  <2>5. /\ t \in Commands /\ t.certs = cs /\ t.op = tool[p].op /\ t.at = tool[p].at
        /\ t.addr = tool[p].addr /\ t.given = tool[p].given /\ t.target = tool[p].target
        /\ t.quiet = tool[p].quiet
    BY <1>1, <2>2, <2>3, CommandCerts
  <2>6. PICK n \in 1 .. 6 : n = t.at /\ n # Len(Plan[t.op])
    BY <1>1, <2>5, PlanLength
  <2>7. PICK m \in 1 .. 7 : m = n + 1
    BY <2>6
  <2>8. PICK u : u = [t EXCEPT !.at = m]
    OBVIOUS
  <2>9. /\ u \in Commands /\ u.at = m
        /\ u.op = t.op /\ u.addr = t.addr /\ u.given = t.given /\ u.target = t.target
        /\ u.certs = t.certs /\ u.quiet = t.quiet
    BY <2>5, <2>7, <2>8, CommandAt
  <2>10. /\ t.op = "main" => m = 4
         /\ t.op = "InstallCertificate" => m = 2
         /\ t.op \in {"main", "InstallCertificate", "TestConnection"}
    BY <1>1, <2>5, <2>6, <2>7
  <2>11. Formed(p, u)
    <3>1. t.op = "InstallCertificate" => \E c \in Certs : cs \subseteq {c}
      BY <1>1, <2>2, <2>5 DEF Formed, One
    <3> QED BY <1>1, <2>5, <2>9, <2>10, <3>1 DEF Formed
  <2>12. Carried(u, file, store, up, offers)
    BY <1>1, <1>4, <2>2, <2>5, <2>9, <2>10 DEF Carried
  <2>13. /\ t \in Commands /\ t.op = tool[p].op /\ t.at = tool[p].at /\ t.at = n
         /\ ~(t.op = "InstallCertificate" /\ t.at \in {4, 5, 6, 7})
         /\ t.op # "UninstallCertificate"
    BY <1>1, <2>5, <2>6
  <2> QED BY <1>2, <2>4, <2>6, <2>7, <2>8, <2>11, <2>12, <2>13, QuietStep
<1> QED BY <1>3, <1>4 DEF List

LEMMA ChooseStep ==
  ASSUME InstallInv, NEW p \in Tools, Choose(p)
  PROVE  InstallInv'
<1>1. /\ tool[p] \in Commands /\ Formed(p, tool[p]) /\ Carried(tool[p], file, store, up, offers)
      /\ tool[p].op = "main" /\ tool[p].at = 4
  BY OneTool, ToolPlace DEF Choose, Places
<1>2. UNCHANGED <<envVars, file, store, screen>>
  BY DEF Choose
<1>3. CASE Fail(p)
  BY <1>1, <1>2, <1>3, FailStep
<1>4. CASE \E c \in tool[p].certs : Proceed(p, [tool[p] EXCEPT !.certs = {c}], {})
  <2>1. PICK c \in tool[p].certs : Proceed(p, [tool[p] EXCEPT !.certs = {c}], {})
    BY <1>4
  <2>2. {c} \in SUBSET Certs /\ c \in Certs
    BY <1>1, <2>1 DEF Commands
  <2>3. PICK t : t = [tool[p] EXCEPT !.certs = {c}]
    OBVIOUS
  <2>4. /\ t \in Commands /\ t.certs = {c} /\ t.op = tool[p].op /\ t.at = tool[p].at
        /\ t.addr = tool[p].addr /\ t.given = tool[p].given /\ t.target = tool[p].target
        /\ t.quiet = tool[p].quiet
    BY <1>1, <2>2, <2>3, CommandCerts
  <2>5. 4 \in 1 .. 6 /\ 4 # Len(Plan[t.op]) /\ 4 + 1 = 5 /\ 5 \in 1 .. 7
    BY <1>1, <2>4, PlanLength
  <2>6. PICK u : u = [t EXCEPT !.at = 5]
    OBVIOUS
  <2>7. /\ u \in Commands /\ u.at = 5
        /\ u.op = t.op /\ u.addr = t.addr /\ u.given = t.given /\ u.target = t.target
        /\ u.certs = t.certs /\ u.quiet = t.quiet
    BY <2>4, <2>5, <2>6, CommandAt
  <2>8. Formed(p, u)
    BY <1>1, <2>2, <2>4, <2>7 DEF Formed, One
  <2>9. Carried(u, file, store, up, offers)
    BY <1>1, <2>1, <2>4, <2>7 DEF Carried
  <2>10. /\ t \in Commands /\ t.op = tool[p].op /\ t.at = tool[p].at /\ t.at = 4
         /\ t.op # "InstallCertificate" /\ t.op # "UninstallCertificate"
    BY <1>1, <2>4
  <2>11. Proceed(p, t, {})
    BY <2>1, <2>3
  <2> QED BY <1>2, <2>5, <2>6, <2>8, <2>9, <2>10, <2>11, QuietStep
<1> QED BY <1>3, <1>4 DEF Choose

LEMMA LookupStep ==
  ASSUME InstallInv, NEW p \in Tools, Lookup(p)
  PROVE  InstallInv'
<1>1. /\ tool[p] \in Commands /\ Formed(p, tool[p]) /\ Carried(tool[p], file, store, up, offers)
      /\ tool[p].op = "InstallCertificate" /\ tool[p].at = 2
  BY OneTool, ToolPlace DEF Lookup, Places
<1>2. UNCHANGED <<envVars, file, store, screen>>
  BY DEF Lookup
<1>3. CASE tool[p].certs = {}
  BY <1>1, <1>2, <1>3, FailStep DEF Lookup
<1>4. CASE tool[p].certs # {}
  <2>1. Proceed(p, tool[p], {})
    BY <1>4 DEF Lookup
  <2>2. 2 \in 1 .. 6 /\ 2 # Len(Plan[tool[p].op]) /\ 2 + 1 = 3 /\ 3 \in 1 .. 7
    BY <1>1, PlanLength
  <2>3. PICK u : u = [tool[p] EXCEPT !.at = 3]
    OBVIOUS
  <2>4. /\ u \in Commands /\ u.at = 3
        /\ u.op = tool[p].op /\ u.addr = tool[p].addr /\ u.certs = tool[p].certs
        /\ u.quiet = tool[p].quiet
    BY <1>1, <2>2, <2>3, CommandAt
  <2>5. Formed(p, u)
    <3>1. One(tool[p].certs)
      BY <1>1, <1>4 DEF Formed, One
    <3> QED BY <1>1, <2>4, <3>1 DEF Formed
  <2>6. Carried(u, file, store, up, offers)
    BY <1>1, <2>4 DEF Carried
  <2> QED BY <1>1, <1>2, <2>1, <2>2, <2>3, <2>5, <2>6, QuietStep
<1> QED BY <1>3, <1>4

\* A change of the store outdates the other screens, not the tool's own.
LEMMA ScreensOutdated ==
  ASSUME InstallInv, NEW p \in Tools, screen' = Outdated(p)
  PROVE  /\ ScreensFormed'
         /\ \A q \in UiTools \ {p} : ScreenLeft(q)
         /\ p \in UiTools => screen'[p] = screen[p]
<1>1. /\ screen \in [UiTools -> Screens]
      /\ \A q \in UiTools : screen[q].marked \subseteq screen[q].remote
  BY DEF InstallInv, ScreensFormed
<1>2. \A q \in UiTools \ {p} :
        /\ screen'[q] \in Screens /\ screen'[q].marked = screen[q].marked
        /\ screen'[q].remote = screen[q].remote
        /\ screen'[q].boundNow = "no" /\ screen'[q].remoteNow = "no"
  BY <1>1 DEF Outdated, Screens, Nows
<1>3. p \in UiTools => screen'[p] = screen[p]
  BY DEF Outdated
<1>4. ScreensFormed'
  <2>1. screen' \in [UiTools -> Screens]
    BY <1>1, <1>2, <1>3 DEF Outdated
  <2> QED BY <1>1, <1>2, <1>3, <2>1 DEF ScreensFormed
<1> QED BY <1>2, <1>3, <1>4 DEF ScreenLeft

LEMMA BindStep ==
  ASSUME InstallInv, NEW p \in Tools, BindCertificateToKSP(p)
  PROVE  InstallInv'
<1> DEFINE t == tool[p]
<1>1. /\ t \in Commands /\ Formed(p, t) /\ Carried(t, file, store, up, offers)
      /\ \/ t.op = "main" /\ t.at = 5
         \/ t.op = "InstallCertificate" /\ t.at = 3
  BY OneTool, ToolPlace DEF BindCertificateToKSP, Places
<1>2. UNCHANGED <<up, offers, changes, file>>
  BY DEF BindCertificateToKSP, envVars
<1>3. CASE Fail(p) /\ UNCHANGED <<store, screen>>
  BY <1>1, <1>2, <1>3, FailStep DEF envVars
<1>4. CASE /\ store' = [c \in Certs |-> IF c \in tool[p].certs THEN "ksp" ELSE store[c]]
           /\ Proceed(p, tool[p], Tools \ {p})
           /\ screen' = Outdated(p)
  <2>1. /\ Proceed(p, t, Tools \ {p}) /\ t.certs \subseteq Certs
        /\ \A c \in t.certs : store'[c] = "ksp"
    BY <1>1, <1>4 DEF Commands
  <2>2. World'
    BY <1>2, <1>4 DEF InstallInv, World
  <2>3. /\ ScreensFormed' /\ (\A q \in UiTools \ {p} : ScreenLeft(q))
        /\ p \in UiTools => screen'[p] = screen[p]
    BY <1>4, ScreensOutdated
  <2>4. p \in UiTools => Shown(t, screen[p], store)
    BY DEF InstallInv, Showing
  <2>5. ToolsFormed
    BY OneTool
  <2> HIDE DEF t
  <2>6. CASE t.op = "main" /\ t.at = 5
    <3>1. After(t) = Idle
      BY <1>1, <2>6, PlanLength, AfterLast
    <3>2. InstalledIsUsable'
      <4> SUFFICES ASSUME NEW i \in fresh'
                   PROVE  /\ i.tool \in CliTools => Signable(i.cert)'
                          /\ store'[i.cert] = "ksp" /\ i.cert \in offers'
        BY DEF InstalledIsUsable
      <4>1. PICK c \in t.certs : i = [tool |-> p, cert |-> c]
        BY <2>1, <2>5, Proceeds
      <4>2. t.quiet /\ ~t.given
        BY <2>1, <2>5, Proceeds
      <4>3. file = File("whole", t.addr) /\ t.target \in up /\ t.certs \subseteq offers
        BY <1>1, <2>6, <4>2 DEF Carried
      <4>4. t.addr = t.target /\ t.addr.port # NoPort
        BY <1>1, <2>6 DEF Formed
      <4>5. file'.kind = "whole" /\ file'.addr = t.addr /\ Dial(t.addr) \in up'
        BY <1>2, <4>3, <4>4 DEF File, Dial
      <4>6. store'[c] = "ksp" /\ c \in offers'
        BY <1>2, <2>1, <4>1, <4>3
      <4>7. Signable(c)'
        BY <4>5, <4>6 DEF Signable, LoadConfig
      <4> QED BY <4>1, <4>6, <4>7
    <3>3. p \in UiTools => Shown(Idle, screen'[p], store')
      <4>1. p \notin UiTools
        BY <1>1, <2>6, InstallAssumption DEF Formed
      <4> QED BY <4>1
    <3> QED BY <1>1, <2>1, <2>2, <2>3, <3>1, <3>2, <3>3, IdleCarries, ProceedStep
  <2>7. CASE t.op = "InstallCertificate" /\ t.at = 3
    <3>1. 3 # Len(Plan[t.op]) /\ 3 \in 1 .. 6
      BY <2>7, PlanLength
    <3>2. /\ After(t) \in Commands /\ After(t).at = 4
          /\ After(t).op = t.op /\ After(t).addr = t.addr
          /\ After(t).certs = t.certs /\ After(t).quiet = t.quiet
      BY <1>1, <2>7, <3>1, AfterStep
    <3>3. Formed(p, After(t))
      BY <1>1, <2>7, <3>2 DEF Formed
    <3>4. Carried(After(t), file', store', up', offers')
      BY <1>1, <1>2, <2>1, <2>7, <3>2 DEF Carried
    <3>5. Shown(After(t), screen'[p], store')
      BY <2>7, <3>2 DEF Shown
    <3>6. fresh' = {}
      <4>1. t.at # Len(Plan[t.op])
        BY <2>7, <3>1
      <4> QED BY <2>1, <2>5, <4>1, Proceeds
    <3> QED BY <1>1, <2>1, <2>2, <2>3, <3>2, <3>3, <3>4, <3>5, <3>6, NothingFresh, ProceedStep
  <2> QED BY <1>1, <2>6, <2>7
<1> QED BY <1>3, <1>4 DEF BindCertificateToKSP

LEMMA DeleteStep ==
  ASSUME InstallInv, NEW p \in Tools, RemoveCertificateFromStore(p)
  PROVE  InstallInv'
<1> DEFINE t == tool[p]
<1>1. /\ t \in Commands /\ Formed(p, t) /\ Carried(t, file, store, up, offers)
      /\ t.op \in {"remove", "UninstallCertificate"} /\ t.at = 1
  BY OneTool, ToolPlace DEF RemoveCertificateFromStore, Places
<1>2. UNCHANGED <<up, offers, changes, file>>
  BY DEF RemoveCertificateFromStore, envVars
<1>3. CASE Fail(p) /\ UNCHANGED <<store, screen>>
  BY <1>1, <1>2, <1>3, FailStep DEF envVars
<1>4. CASE /\ \E c \in tool[p].certs : store[c] # "none" /\ store' = [store EXCEPT ![c] = "none"]
           /\ Proceed(p, tool[p], Tools \ {p})
           /\ screen' = Outdated(p)
  <2>1. Proceed(p, t, Tools \ {p})
    BY <1>4
  <2>2. World'
    BY <1>2, <1>4 DEF InstallInv, World
  <2>3. /\ ScreensFormed' /\ (\A q \in UiTools \ {p} : ScreenLeft(q))
        /\ p \in UiTools => screen'[p] = screen[p]
    BY <1>4, ScreensOutdated
  <2>4. ToolsFormed
    BY OneTool
  <2> HIDE DEF t
  <2>5. fresh' = {}
    BY <1>1, <2>1, <2>4, Proceeds
  <2>6. CASE t.op = "remove"
    <3>1. After(t) = Idle
      BY <1>1, <2>6, PlanLength, AfterLast
    <3>2. p \notin UiTools
      BY <1>1, <2>6, InstallAssumption DEF Formed
    <3> QED BY <1>1, <2>1, <2>2, <2>3, <2>5, <3>1, <3>2, IdleCarries, NothingFresh, ProceedStep
  <2>7. CASE t.op = "UninstallCertificate"
    <3>1. 1 # Len(Plan[t.op]) /\ 1 \in 1 .. 6
      BY <2>7, PlanLength
    <3>2. After(t) \in Commands /\ After(t).at = 2 /\ After(t).op = t.op
      BY <1>1, <2>7, <3>1, AfterStep
    <3>3. Formed(p, After(t))
      BY <1>1, <2>7, <3>2 DEF Formed
    <3>4. Carried(After(t), file', store', up', offers')
      BY <2>7, <3>2 DEF Carried
    <3>5. Shown(After(t), screen'[p], store')
      BY <2>7, <3>2 DEF Shown
    <3> QED BY <1>1, <2>1, <2>2, <2>3, <2>5, <3>2, <3>3, <3>4, <3>5, NothingFresh, ProceedStep
  <2> QED BY <1>1, <2>6, <2>7
<1> QED BY <1>3, <1>4 DEF RemoveCertificateFromStore

\* The installed certificates are those bound in the store.
LEMMA InstalledBound == Installed = BoundIn(store)
BY DEF Installed, BoundIn

\* The record of a screen whose list could not be had.
LEMMA ScreenNoRemote ==
  ASSUME NEW sc \in Screens, NEW b \in Nows, NEW new, new = [sc EXCEPT !.remoteNow = b]
  PROVE  /\ new \in Screens /\ new.remoteNow = b
         /\ new.remote = sc.remote /\ new.marked = sc.marked
         /\ new.bound = sc.bound /\ new.boundNow = sc.boundNow
BY DEF Screens

LEMMA ScreenNoBound ==
  ASSUME NEW sc \in Screens, NEW b \in Nows, NEW new, new = [sc EXCEPT !.boundNow = b]
  PROVE  /\ new \in Screens /\ new.boundNow = b
         /\ new.remote = sc.remote /\ new.marked = sc.marked /\ new.remoteNow = sc.remoteNow
BY DEF Screens

\* What the store lists, whole or in part, agrees with what is bound.
LEMMA ListAgrees ==
  ASSUME InstallInv, NEW list \in StoreLists
  PROVE  /\ list \in SUBSET Certs /\ Extent(list) \in Nows
         /\ Agrees(Extent(list), list, BoundIn(store))
         /\ \A o : Agrees(Extent(list), o \cap list, o \cap BoundIn(store))
<1>1. list \subseteq BoundIn(store) /\ Extent(list) \in {"part", "all"}
  BY InstalledBound DEF StoreLists, Extent
<1>2. Extent(list) = "all" => list = BoundIn(store)
  BY InstalledBound DEF Extent
<1> QED BY <1>1, <1>2 DEF Agrees, BoundIn, Nows

\* A manager's own screen after a list was fetched, or could not be had.
LEMMA ScreenFetched ==
  ASSUME InstallInv, NEW p \in UiTools, Fetch(p)
  PROVE  /\ screen' \in [UiTools -> Screens]
         /\ screen'[p].marked \subseteq screen'[p].remote
         /\ Agrees(screen'[p].remoteNow, screen'[p].marked, screen'[p].remote \cap BoundIn(store))
         /\ screen'[p].bound = screen[p].bound /\ screen'[p].boundNow = screen[p].boundNow
         /\ \A q \in UiTools \ {p} : screen'[q] = screen[q]
<1>1. screen \in [UiTools -> Screens] /\ screen[p] \in Screens
  BY DEF InstallInv, ScreensFormed
<1>2. offers \in SUBSET Certs /\ screen[p].marked \subseteq screen[p].remote
  BY DEF InstallInv, ScreensFormed, World
<1>3. CASE \E list \in StoreLists :
             screen' = [screen EXCEPT ![p].remote = offers, ![p].marked = offers \cap list,
                                      ![p].remoteNow = Extent(list)]
  <2>1. PICK list \in StoreLists :
          screen' = [screen EXCEPT ![p].remote = offers, ![p].marked = offers \cap list,
                                   ![p].remoteNow = Extent(list)]
    BY <1>3
  <2>2. PICK b \in Nows : b = Extent(list)
    BY ListAgrees
  <2>3. PICK marks \in SUBSET Certs : marks = offers \cap list
    BY <1>2
  <2>4. screen'[p] = [bound |-> screen[p].bound, boundNow |-> screen[p].boundNow,
                      remote |-> offers, marked |-> marks, remoteNow |-> b,
                      test |-> screen[p].test]
    BY <1>1, <2>1, <2>2, <2>3 DEF Screens
  <2>5. /\ screen'[p] \in Screens /\ screen'[p].remote = offers
        /\ screen'[p].marked = marks /\ screen'[p].remoteNow = b
        /\ screen'[p].bound = screen[p].bound /\ screen'[p].boundNow = screen[p].boundNow
    <3>1. offers \in SUBSET Certs
      BY <1>2
    <3> QED BY <1>1, <2>4, <3>1 DEF Screens
  <2>6. screen' \in [UiTools -> Screens] /\ \A q \in UiTools \ {p} : screen'[q] = screen[q]
    BY <1>1, <2>1, <2>5
  <2>7. Agrees(b, marks, offers \cap BoundIn(store)) /\ marks \subseteq offers
    <3>1. Agrees(Extent(list), offers \cap list, offers \cap BoundIn(store))
      BY ListAgrees
    <3> QED BY <2>2, <2>3, <3>1
  <2> QED BY <2>5, <2>6, <2>7
<1>4. CASE screen' = [screen EXCEPT ![p].remoteNow = "no"]
  <2>1. PICK b \in Nows : b = "no"
    BY DEF Nows
  <2>2. screen'[p] = [screen[p] EXCEPT !.remoteNow = b]
    BY <1>1, <1>4, <2>1
  <2>3. /\ screen'[p] \in Screens /\ screen'[p].remoteNow = b
        /\ screen'[p].remote = screen[p].remote /\ screen'[p].marked = screen[p].marked
        /\ screen'[p].bound = screen[p].bound /\ screen'[p].boundNow = screen[p].boundNow
    BY <1>1, <2>2, ScreenNoRemote
  <2>4. screen' \in [UiTools -> Screens] /\ \A q \in UiTools \ {p} : screen'[q] = screen[q]
    BY <1>1, <1>4, <2>3
  <2> QED BY <1>2, <2>1, <2>3, <2>4 DEF Agrees
<1> QED BY <1>3, <1>4 DEF Fetch

\* The same for the list of bindings.
LEMMA ScreenShown ==
  ASSUME InstallInv, NEW p \in UiTools, Show(p)
  PROVE  /\ screen' \in [UiTools -> Screens]
         /\ screen'[p].marked = screen[p].marked /\ screen'[p].remote = screen[p].remote
         /\ screen'[p].remoteNow = screen[p].remoteNow
         /\ Agrees(screen'[p].boundNow, screen'[p].bound, BoundIn(store))
         /\ \A q \in UiTools \ {p} : screen'[q] = screen[q]
<1>1. screen \in [UiTools -> Screens] /\ screen[p] \in Screens
  BY DEF InstallInv, ScreensFormed
<1>2. CASE \E list \in StoreLists :
             screen' = [screen EXCEPT ![p].bound = list, ![p].boundNow = Extent(list)]
  <2>1. PICK list \in StoreLists :
          screen' = [screen EXCEPT ![p].bound = list, ![p].boundNow = Extent(list)]
    BY <1>2
  <2>2. PICK b \in Nows : b = Extent(list)
    BY ListAgrees
  <2>3. list \in SUBSET Certs /\ Agrees(b, list, BoundIn(store))
    BY <2>2, ListAgrees
  <2>4. screen'[p] = [bound |-> list, boundNow |-> b, remote |-> screen[p].remote,
                      marked |-> screen[p].marked, remoteNow |-> screen[p].remoteNow,
                      test |-> screen[p].test]
    BY <1>1, <2>1, <2>2 DEF Screens
  <2>5. /\ screen'[p] \in Screens /\ screen'[p].bound = list /\ screen'[p].boundNow = b
        /\ screen'[p].remote = screen[p].remote /\ screen'[p].marked = screen[p].marked
        /\ screen'[p].remoteNow = screen[p].remoteNow
    BY <1>1, <2>3, <2>4 DEF Screens
  <2>6. screen' \in [UiTools -> Screens] /\ \A q \in UiTools \ {p} : screen'[q] = screen[q]
    BY <1>1, <2>1, <2>5
  <2> QED BY <2>3, <2>5, <2>6
<1>3. CASE screen' = [screen EXCEPT ![p].boundNow = "no"]
  <2>1. PICK b \in Nows : b = "no"
    BY DEF Nows
  <2>2. screen'[p] = [screen[p] EXCEPT !.boundNow = b]
    BY <1>1, <1>3, <2>1
  <2>3. /\ screen'[p] \in Screens /\ screen'[p].boundNow = b
        /\ screen'[p].remote = screen[p].remote /\ screen'[p].marked = screen[p].marked
        /\ screen'[p].remoteNow = screen[p].remoteNow
    BY <1>1, <2>2, ScreenNoBound
  <2>4. screen' \in [UiTools -> Screens] /\ \A q \in UiTools \ {p} : screen'[q] = screen[q]
    BY <1>1, <1>3, <2>3
  <2> QED BY <2>1, <2>3, <2>4 DEF Agrees
<1> QED BY <1>2, <1>3 DEF Show

\* A manager's step that changes only its own screen and command.
LEMMA ScreenStep ==
  ASSUME InstallInv, NEW p \in UiTools, NEW t \in Commands, t = tool[p], Proceed(p, t, {}),
         UNCHANGED <<envVars, file, store>>, screen' \in [UiTools -> Screens],
         screen'[p].marked \subseteq screen'[p].remote,
         \A q \in UiTools \ {p} : screen'[q] = screen[q],
         After(t) \in Commands, Formed(p, After(t)),
         Carried(After(t), file', store', up', offers'), Shown(After(t), screen'[p], store'),
         InstalledIsUsable'
  PROVE  InstallInv'
<1>1. World' /\ UNCHANGED <<file, store, up, offers>>
  BY DEF InstallInv, World, envVars
<1>2. ScreensFormed'
  BY DEF InstallInv, ScreensFormed
<1>3. \A q \in UiTools \ {p} : ScreenLeft(q)
  BY <1>1 DEF ScreenLeft
<1>4. p \in Tools
  BY DEF Tools
<1> QED BY <1>1, <1>2, <1>3, <1>4, ProceedStep

LEMMA FetchStep ==
  ASSUME InstallInv, NEW p \in Tools, Fetch(p)
  PROVE  InstallInv'
<1> DEFINE t == tool[p]
<1>1. /\ t \in Commands /\ Formed(p, t) /\ Carried(t, file, store, up, offers) /\ ToolsFormed
      /\ \/ t.op = "InstallCertificate" /\ t.at = 6
         \/ t.op = "UninstallCertificate" /\ t.at = 3
         \/ t.op = "ListRemoteCertificates" /\ t.at = 1
         \/ t.op = "TestConnection" /\ t.at = 2
  BY OneTool, ToolPlace DEF Fetch, Places
<1>2. UNCHANGED <<envVars, file, store>> /\ Proceed(p, t, {})
  BY DEF Fetch
<1>3. p \in UiTools
  BY <1>1 DEF Formed
<1>4. /\ screen' \in [UiTools -> Screens]
      /\ screen'[p].marked \subseteq screen'[p].remote
      /\ Agrees(screen'[p].remoteNow, screen'[p].marked, screen'[p].remote \cap BoundIn(store'))
      /\ screen'[p].bound = screen[p].bound /\ screen'[p].boundNow = screen[p].boundNow
      /\ \A q \in UiTools \ {p} : screen'[q] = screen[q]
  BY <1>2, <1>3, ScreenFetched
<1>5. Shown(t, screen[p], store)
  BY <1>3 DEF InstallInv, Showing
<1> HIDE DEF t
<1>6. CASE t.op = "InstallCertificate" /\ t.at = 6
  <2>1. 6 # Len(Plan[t.op]) /\ 6 \in 1 .. 6
    BY <1>6, PlanLength
  <2>2. /\ After(t) \in Commands /\ After(t).at = 7
        /\ After(t).op = t.op /\ After(t).addr = t.addr
        /\ After(t).certs = t.certs /\ After(t).quiet = t.quiet
    BY <1>1, <1>6, <2>1, AfterStep
  <2>3. Formed(p, After(t))
    BY <1>1, <1>6, <2>2 DEF Formed
  <2>4. Carried(After(t), file', store', up', offers')
    BY <1>1, <1>2, <1>6, <2>2 DEF Carried, envVars
  <2>5. Shown(After(t), screen'[p], store')
    BY <1>4, <1>6, <2>2 DEF Shown
  <2>6. fresh' = {}
    <3>1. t.at # Len(Plan[t.op])
      BY <1>6, <2>1
    <3> QED BY <1>1, <1>2, <3>1, Proceeds
  <2> QED
    BY <1>1, <1>2, <1>3, <1>4, <2>2, <2>3, <2>4, <2>5, <2>6, NothingFresh, ScreenStep DEF t
<1>7. CASE ~(t.op = "InstallCertificate" /\ t.at = 6)
  <2>1. After(t) = Idle
    BY <1>1, <1>7, PlanLength, AfterLast
  <2>2. fresh' = {}
    BY <1>1, <1>2, <1>7, Proceeds
  <2>3. Shown(Idle, screen'[p], store')
    <3>1. Agrees(screen'[p].boundNow, screen'[p].bound, BoundIn(store'))
      BY <1>1, <1>2, <1>4, <1>5, <1>7 DEF Shown
    <3> QED BY <1>4, <3>1 DEF Shown
  <2> QED
    BY <1>1, <1>2, <1>3, <1>4, <2>1, <2>2, <2>3, IdleCarries, NothingFresh, ScreenStep DEF t
<1> QED BY <1>6, <1>7

LEMMA ShowStep ==
  ASSUME InstallInv, NEW p \in Tools, Show(p)
  PROVE  InstallInv'
<1> DEFINE t == tool[p]
<1>1. /\ t \in Commands /\ Formed(p, t) /\ Carried(t, file, store, up, offers) /\ ToolsFormed
      /\ \/ t.op = "InstallCertificate" /\ t.at = 7
         \/ t.op = "UninstallCertificate" /\ t.at = 2
         \/ t.op = "ListInstalledCertificates" /\ t.at = 1
  BY OneTool, ToolPlace DEF Show, Places
<1>2. UNCHANGED <<envVars, file, store>> /\ Proceed(p, t, {})
  BY DEF Show
<1>3. p \in UiTools
  BY <1>1 DEF Formed
<1>4. /\ screen' \in [UiTools -> Screens]
      /\ screen'[p].marked = screen[p].marked /\ screen'[p].remote = screen[p].remote
      /\ screen'[p].remoteNow = screen[p].remoteNow
      /\ Agrees(screen'[p].boundNow, screen'[p].bound, BoundIn(store'))
      /\ \A q \in UiTools \ {p} : screen'[q] = screen[q]
  BY <1>2, <1>3, ScreenShown
<1>5. Shown(t, screen[p], store) /\ screen'[p].marked \subseteq screen'[p].remote
  BY <1>3, <1>4 DEF InstallInv, Showing, ScreensFormed
<1> HIDE DEF t
<1>6. CASE t.op = "UninstallCertificate" /\ t.at = 2
  <2>1. 2 # Len(Plan[t.op]) /\ 2 \in 1 .. 6
    BY <1>6, PlanLength
  <2>2. After(t) \in Commands /\ After(t).at = 3 /\ After(t).op = t.op
    BY <1>1, <1>6, <2>1, AfterStep
  <2>3. Formed(p, After(t))
    BY <1>1, <1>6, <2>2 DEF Formed
  <2>4. Carried(After(t), file', store', up', offers')
    BY <1>6, <2>2 DEF Carried
  <2>5. Shown(After(t), screen'[p], store')
    BY <1>4, <1>6, <2>2 DEF Shown
  <2>6. fresh' = {}
    BY <1>1, <1>2, <1>6, Proceeds
  <2> QED
    BY <1>1, <1>2, <1>3, <1>4, <1>5, <2>2, <2>3, <2>4, <2>5, <2>6, NothingFresh, ScreenStep DEF t
<1>7. CASE ~(t.op = "UninstallCertificate" /\ t.at = 2)
  <2>1. After(t) = Idle
    BY <1>1, <1>7, PlanLength, AfterLast
  <2>2. Shown(Idle, screen'[p], store')
    <3>1. Agrees(screen'[p].remoteNow, screen'[p].marked, screen'[p].remote \cap BoundIn(store'))
      BY <1>1, <1>2, <1>4, <1>5, <1>7 DEF Shown
    <3> QED BY <1>4, <3>1 DEF Shown
  <2>3. InstalledIsUsable'
    <3> SUFFICES ASSUME NEW i \in fresh'
                 PROVE  /\ i.tool \notin CliTools
                        /\ store'[i.cert] = "ksp" /\ i.cert \in offers'
      BY DEF InstalledIsUsable
    <3>1. PICK c \in t.certs : i = [tool |-> p, cert |-> c]
      BY <1>1, <1>2, Proceeds
    <3>2. t.quiet /\ t.op = "InstallCertificate"
      BY <1>1, <1>2, Proceeds
    <3>3. c \in offers /\ store[c] = "ksp"
      BY <1>1, <3>1, <3>2 DEF Carried
    <3> QED BY <1>2, <1>3, <3>1, <3>3, InstallAssumption DEF envVars
  <2> QED
    BY <1>1, <1>2, <1>3, <1>4, <1>5, <2>1, <2>2, <2>3, IdleCarries, ScreenStep DEF t
<1> QED BY <1>6, <1>7

\* A test signature leaves everything but its own result alone.
LEMMA TestStep ==
  ASSUME InstallInv, NEW p \in UiTools, TestSign(p)
  PROVE  InstallInv'
<1>1. PICK r \in {"none", "invalid", "signed", "failed"} : screen' = [screen EXCEPT ![p].test = r]
  BY DEF TestSign
<1>2. screen \in [UiTools -> Screens] /\ UNCHANGED <<up, offers, changes, file, store, tool, fresh>>
  BY DEF InstallInv, ScreensFormed, TestSign, envVars
<1>3. screen[p] \in Screens /\ screen'[p] = [screen[p] EXCEPT !.test = r]
  BY <1>1, <1>2
<1>4. /\ screen'[p] \in Screens
      /\ screen'[p].bound = screen[p].bound /\ screen'[p].boundNow = screen[p].boundNow
      /\ screen'[p].remote = screen[p].remote /\ screen'[p].marked = screen[p].marked
      /\ screen'[p].remoteNow = screen[p].remoteNow
  BY <1>3, ScreenTest
<1>5. screen' \in [UiTools -> Screens] /\ \A q \in UiTools \ {p} : screen'[q] = screen[q]
  BY <1>1, <1>2, <1>4
<1>6. ScreensFormed'
  BY <1>4, <1>5 DEF InstallInv, ScreensFormed
<1>7. Showing'
  <2> SUFFICES ASSUME NEW q \in UiTools PROVE Shown(tool'[q], screen'[q], store')
    BY DEF Showing
  <2>1. Shown(tool[q], screen[q], store)
    BY DEF InstallInv, Showing
  <2> QED BY <1>2, <1>4, <1>5, <2>1 DEF Shown
<1>8. World' /\ ToolsFormed' /\ Carrying' /\ InstalledIsUsable'
  BY <1>2 DEF InstallInv, World, ToolsFormed, Carrying, InstalledIsUsable, Signable, LoadConfig
<1> QED BY <1>6, <1>7, <1>8 DEF InstallInv

LEMMA StopStep ==
  ASSUME InstallInv, NEW p \in Tools, Stop(p)
  PROVE  InstallInv'
<1>1. World' /\ UNCHANGED <<file, store, up, offers>>
  BY DEF InstallInv, World, Stop, envVars
<1>2. Blank \in Screens /\ Blank.boundNow = "no" /\ Blank.remoteNow = "no"
      /\ Blank.marked \subseteq Blank.remote
  BY DEF Blank, Screens, Nows
<1>3. screen' = [q \in UiTools |-> IF q = p THEN Blank ELSE screen[q]]
  BY DEF Stop
<1>4. ScreensFormed'
  BY <1>2, <1>3 DEF InstallInv, ScreensFormed
<1>5. \A q \in UiTools \ {p} : ScreenLeft(q)
  BY <1>1, <1>3 DEF ScreenLeft
<1>6. tool' = [q \in Tools |-> tool'[q]] /\ tool'[p] = Idle /\ \A q \in Tools \ {p} : tool'[q] = tool[q]
  BY OneTool DEF Stop, ToolsFormed
<1>7. \A q \in Tools \ {p} : LeftAlone(q)
  BY <1>1, <1>6 DEF LeftAlone
<1>8. p \in UiTools => Shown(Idle, screen'[p], store')
  BY <1>2, <1>3 DEF Shown, Agrees
<1>9. InstalledIsUsable'
  BY NothingFresh DEF Stop
<1> QED BY <1>1, <1>4, <1>5, <1>6, <1>7, <1>8, <1>9, IdleCarries, Assembled

LEMMA ChangeStep ==
  ASSUME InstallInv, Change
  PROVE  InstallInv'
<1>1. /\ tool' = [q \in Tools |-> [tool[q] EXCEPT !.quiet = FALSE]]
      /\ UNCHANGED <<file, store, screen>> /\ fresh' = {}
  BY DEF Change, Disturbed
<1>2. World'
  <2>1. changes' \in 0 .. MaxChanges
    <3>1. MaxChanges \in Nat
      BY InstallAssumption, Zenon
    <3>2. changes \in 0 .. MaxChanges /\ changes < MaxChanges /\ changes' = changes + 1
      BY DEF InstallInv, World, Change
    <3> QED BY <3>1, <3>2
  <2>2. up' \subseteq Endpoints /\ offers' \subseteq Certs
    BY DEF InstallInv, World, Change
  <2> QED BY <1>1, <2>1, <2>2 DEF InstallInv, World
<1>3. \A q \in Tools : /\ tool'[q] \in Commands /\ Formed(q, tool'[q])
                       /\ Carried(tool'[q], file', store', up', offers')
                       /\ tool'[q].op = tool[q].op /\ tool'[q].at = tool[q].at
  BY <1>1, OthersKeep DEF LeftAlone, InstallInv
<1>4. ToolsFormed' /\ Carrying'
  BY <1>1, <1>3 DEF ToolsFormed, Carrying
<1>5. ScreensFormed' /\ \A q \in UiTools : Shown(tool[q], screen'[q], store')
  BY <1>1, ScreensKept
<1>6. Showing'
  BY <1>3, <1>5 DEF Showing, Shown, Tools
<1> QED BY <1>1, <1>2, <1>4, <1>5, <1>6, NothingFresh DEF InstallInv

-----------------------------------------------------------------------------
\* The inductive invariant holds at the start and after every step.
THEOREM InstallInvariance == Spec => []InstallInv
<1>1. Init => InstallInv
  <2> SUFFICES ASSUME Init PROVE InstallInv
    OBVIOUS
  <2>1. World
    <3>1. changes \in 0 .. MaxChanges
      <4>1. MaxChanges \in Nat
        BY InstallAssumption, Zenon
      <4> QED BY <4>1 DEF Init
    <3>2. store \in [Certs -> {"none", "other", "ksp"}]
      BY DEF Init
    <3> QED BY <3>1, <3>2 DEF Init, World, File
  <2>2. ToolsFormed
    BY IdleFormed DEF Init, ToolsFormed
  <2>3. ScreensFormed
    BY DEF Init, ScreensFormed, Blank, Screens, Nows
  <2>4. Carrying
    BY IdleFormed DEF Init, Carrying, Carried
  <2>5. Showing
    BY DEF Init, Showing, Shown, Agrees, Blank
  <2>6. InstalledIsUsable
    BY DEF Init, InstalledIsUsable
  <2> QED BY <2>1, <2>2, <2>3, <2>4, <2>5, <2>6 DEF InstallInv
<1>2. ASSUME InstallInv, [Next]_vars PROVE InstallInv'
  <2>1. CASE UNCHANGED vars
    BY <1>2, <2>1 DEF vars, envVars, InstallInv, World, ToolsFormed, ScreensFormed, Carrying,
                      Showing, InstalledIsUsable, Signable, LoadConfig
  <2>2. CASE Next
    BY <1>2, <2>2, ChangeStep, TestStep, StartStep, StopStep, OpenStep, WriteStep, ListStep,
       ChooseStep, LookupStep, BindStep, DeleteStep, FetchStep, ShowStep DEF Next
  <2> QED BY <1>2, <2>1, <2>2
<1> QED BY <1>1, <1>2, PTL DEF Spec

(***************************************************************************)
(* Every variable of the install tools keeps its type; a command that      *)
(* binds or removes has exactly one certificate, and one that writes the   *)
(* configuration has an address to write.                                  *)
(***************************************************************************)
THEOREM InstallTyping == Spec => []TypeOK
<1>1. InstallInv => TypeOK
  <2> SUFFICES ASSUME InstallInv PROVE TypeOK
    OBVIOUS
  <2>1. \A p \in Tools : /\ tool[p].op \in DOMAIN Plan
                         /\ tool[p].certs \subseteq Certs
    BY PlanTable DEF InstallInv, ToolsFormed, Commands
  <2>2. ASSUME NEW p \in Tools, At(p, "bind") \/ At(p, "delete")
        PROVE  Cardinality(tool[p].certs) = 1
    <3>1. One(tool[p].certs)
      BY <2>2, OneTool, ToolPlace DEF Places, Formed
    <3> QED BY <3>1, FS_Singleton DEF One
  <2>3. ASSUME NEW p \in Tools, At(p, "write")
        PROVE  tool[p].addr # NoAddr
    <3>1. tool[p].addr \in SavedAddrs
      BY <2>3, OneTool, ToolPlace DEF Places, Formed
    <3>2. tool[p].addr.host \in Hosts /\ NoAddr.host = ""
      BY <3>1 DEF SavedAddrs, NoAddr, Address
    <3> QED BY <3>2, InstallAssumption
  <2>4. \A p \in UiTools :
          screen[p].bound \subseteq Certs /\ screen[p].marked \subseteq screen[p].remote
    BY DEF InstallInv, ScreensFormed, Screens
  <2> QED BY <2>1, <2>2, <2>3, <2>4 DEF InstallInv, World, TypeOK, SavedAddrs
<1> QED BY <1>1, InstallInvariance, PTL

(***************************************************************************)
(* After an install that succeeded undisturbed the certificate is bound to *)
(* the provider and offered, and after one of the command line tool it     *)
(* signs: config.json holds the server that offers it.  For any number of  *)
(* tools, managers, addresses and certificates (main of ksp-install-cert,  *)
(* InstallCertificate of ksp-install-ui, kspclient.SaveConfig).            *)
(***************************************************************************)
THEOREM InstalledUsable == Spec => []InstalledIsUsable
<1>1. InstallInv => InstalledIsUsable
  BY DEF InstallInv
<1> QED BY <1>1, InstallInvariance, PTL

(***************************************************************************)
(* A manager that waits for its user shows and marks nothing as installed  *)
(* that is not, and everything that is if the store was read to its end,   *)
(* unless another tool has touched the store or a list could not be had;   *)
(* for any number of managers and tools (ListRemoteCertificates,           *)
(* ListInstalledCertificates, which do not see the store's errors).        *)
(***************************************************************************)
THEOREM ScreensCurrent == Spec => []ScreenIsCurrent
<1>1. InstallInv => ScreenIsCurrent
  BY InstalledBound DEF InstallInv, Showing, Shown, ScreenIsCurrent
<1> QED BY <1>1, InstallInvariance, PTL
=============================================================================
