------------------------------- MODULE Install -------------------------------
(***************************************************************************)
(* Installing remote certificates on a Windows machine: the command line   *)
(* tool (cmd/ksp-install-cert), the certificate manager                    *)
(* (cmd/ksp-install-ui), the configuration file they leave for the key     *)
(* storage provider (internal/kspclient/config.go) and the user's          *)
(* certificate store (internal/kspinstall).                                *)
(*                                                                         *)
(* The tools are processes of their own that may run at the same time, be  *)
(* stopped between any two steps, and meet a network and a server that     *)
(* change.  Network, server, names and the Windows store are external.     *)
(***************************************************************************)
EXTENDS Integers, Sequences, FiniteSets

CONSTANTS
  CliTools, UiTools, \* processes
  Hosts,             \* addresses and names of machines
  LookupAddr,        \* [Hosts -> SUBSET Hosts], the names of an IP address
  Typed,             \* addresses users give, with or without a port
  Endpoints,         \* where the server may be reached
  Certs,             \* certificates of the server
  MaxChanges         \* bound: changes of network, server and other software

DefaultPort == "50051"
GrpcPort == "443"    \* what gRPC takes when an address has no port
NoPort == ""
Address(host, port) == [host |-> host, port |-> port]
NoAddr == Address("", NoPort)

Tools == CliTools \cup UiTools

ASSUME InstallAssumption ==
  /\ CliTools \cap UiTools = {}
  /\ "" \notin Hosts
  /\ LookupAddr \in [Hosts -> SUBSET Hosts]
  /\ Typed \subseteq [host : Hosts, port : {DefaultPort, NoPort}]
  /\ Endpoints \subseteq [host : Hosts, port : {DefaultPort, GrpcPort}]
  /\ MaxChanges \in Nat

VARIABLES
  up,        \* the endpoints that answer now
  offers,    \* the certificates the server lists now
  changes,   \* how often these were changed
  file,      \* config.json
  store,     \* [Certs -> whose key the certificate has in Current User\MY]
  tool,      \* [Tools -> the command under way]
  screen,    \* [UiTools -> what the manager shows]
  fresh      \* the last install, while no tool has done anything since, at most one

envVars == <<up, offers, changes>>
vars == <<envVars, file, store, tool, screen, fresh>>

\* The file: "absent", "empty" after it was opened for writing, "whole", or
\* "mixed" when one text lies over the rest of another.
File(kind, addr) == [kind |-> kind, addr |-> addr]

\* The steps of a command in their order: main saves the configuration
\* before it calls the server, InstallCertificate after it has bound the
\* certificate; the manager then shows what it finds (ui/app.js).
Plan ==
  [none    |-> <<>>,
   main    |-> <<"open", "write", "list", "choose", "bind">>,
   remove  |-> <<"delete">>,
   InstallCertificate     |-> <<"list", "lookup", "bind", "open", "write", "fetch", "show">>,
   UninstallCertificate   |-> <<"delete", "show", "fetch">>,
   SaveConfig             |-> <<"open", "write">>,
   ListInstalledCertificates |-> <<"show">>,
   ListRemoteCertificates |-> <<"fetch">>,
   TestConnection         |-> <<"list", "fetch">>]

\* A command: its name and step, the address to save and whether that goes
\* to config.json or to a path the user has given, the address it calls, its
\* certificates, and whether what it has met is still so.
Command(op, addr, given, target, certs) ==
  [op |-> op, at |-> 1, addr |-> addr, given |-> given, target |-> target, certs |-> certs,
   quiet |-> TRUE]
Idle == Command("none", NoAddr, FALSE, NoAddr, {})

\* What the manager shows: the bindings, the server's certificates and which
\* of these it marks as installed, whether either part comes from a list of
\* "all" or "part" of the store that nobody else has touched since ("no"
\* otherwise), and the last test signature.
Blank ==
  [bound |-> {}, boundNow |-> "no", remote |-> {}, marked |-> {}, remoteNow |-> "no",
   test |-> "none"]

Init ==
  /\ up \in SUBSET Endpoints
  /\ offers \in SUBSET Certs
  /\ changes = 0
  /\ file = File("absent", NoAddr)
  /\ store \in [Certs -> {"none", "other"}]
  /\ tool = [p \in Tools |-> Idle]
  /\ screen = [p \in UiTools |-> Blank]
  /\ fresh = {}

\* The certificates that have the provider's name.
Installed == {c \in Certs : store[c] = "ksp"}

\* What ListCertificatesByProvider may return for it, without an error: it
\* passes over a store that does not open and stops at an enumeration error.
StoreLists == SUBSET Installed
Extent(list) == IF list = Installed THEN "all" ELSE "part"

\* resolveOrTestHostname: the hinted name if it answers, else a name of the
\* address that does, else the address.
resolveOrTestHostname(host, port, hint) ==
  LET answering(names) == {n \in names : Address(n, port) \in up}
      found == IF answering(hint) # {} THEN answering(hint) ELSE answering(LookupAddr[host])
  IN  {Address(n, port) : n \in IF found # {} THEN found ELSE {host}}

\* ResolveServerAddress, and the same lines of main: the port, if there is none.
ResolveServerAddress(a, hint) ==
  resolveOrTestHostname(a.host, IF a.port = NoPort THEN DefaultPort ELSE a.port, hint)

\* kspclient.LoadConfig: no address from a file that does not parse.
LoadConfig == IF file.kind = "whole" THEN {file.addr} ELSE {}

\* kspclient.New and grpc.NewClient: the address the provider connects to.
Dial(a) == IF a.port = NoPort THEN Address(a.host, GrpcPort) ELSE a

\* A signature through the store, the provider and the server.
Signable(c) ==
  /\ store[c] = "ksp"
  /\ \E a \in LoadConfig : Dial(a) \in up
  /\ c \in offers

(***************************************************************************)
(* How a command goes on.                                                  *)
(***************************************************************************)
At(p, step) == tool[p].at <= Len(Plan[tool[p].op]) /\ Plan[tool[p].op][tool[p].at] = step

\* The other tools meet something else than before.
Disturbed(ps) ==
  [q \in Tools |-> IF q \in ps THEN [tool[q] EXCEPT !.quiet = FALSE] ELSE tool[q]]

Proceed(p, t, others) ==
  LET last == t.at = Len(Plan[t.op]) IN
  /\ tool' = [Disturbed(others) EXCEPT ![p] = IF last THEN Idle ELSE [t EXCEPT !.at = @ + 1]]
  /\ fresh' = IF last /\ t.quiet /\ ~t.given /\ t.op \in {"main", "InstallCertificate"}
              THEN {[tool |-> p, cert |-> c] : c \in t.certs} ELSE {}

Fail(p) == tool' = [tool EXCEPT ![p] = Idle] /\ fresh' = {}

\* An error of SaveConfig ends a command; InstallCertificate ignores it.
SaveFails(p) ==
  IF tool[p].op = "InstallCertificate"
  THEN Proceed(p, [tool[p] EXCEPT !.at = 5], {})
  ELSE Fail(p)

(***************************************************************************)
(* Commands                                                                *)
(***************************************************************************)
Begin(p, cmd) ==
  /\ tool[p].op = "none"
  /\ tool' = [tool EXCEPT ![p] = cmd]
  /\ fresh' = {}
  /\ screen' = [q \in UiTools |-> [screen[q] EXCEPT !.test = "none"]]
  /\ UNCHANGED <<envVars, file, store>>

\* Mutant: the address is saved as it was typed.
CliInstall_saves_typed(p) ==
  \E a \in Typed, hint \in SUBSET Hosts :
    /\ Cardinality(hint) <= 1
    /\ \E r \in ResolveServerAddress(a, hint), given \in BOOLEAN :
         Begin(p, Command("main", a, given, r, {}))

\* main with an address, typed or from a discovery that also has a name for
\* it; SaveConfig gets the address it will call.
CliInstall(p) ==
  \E a \in Typed, hint \in SUBSET Hosts :
    /\ Cardinality(hint) <= 1
    /\ \E r \in ResolveServerAddress(a, hint), given \in BOOLEAN :
         Begin(p, Command("main", r, given, r, {}))

\* The manager's calls with the address in its form: those that save it, and
\* those that do not.
UiSave(p, op, certs) ==
  \E a \in Typed, given \in BOOLEAN : \E r \in ResolveServerAddress(a, {}) :
    Begin(p, Command(op, a, given, r, certs))
UiCall(p, op, certs) ==
  \E a \in Typed : \E r \in ResolveServerAddress(a, {}) :
    Begin(p, Command(op, NoAddr, FALSE, r, certs))

Start(p) ==
  \/ p \in CliTools /\ CliInstall(p)
  \/ p \in CliTools /\ \E c \in Certs : Begin(p, Command("remove", NoAddr, FALSE, NoAddr, {c}))
  \/ p \in UiTools /\ \E c \in screen[p].remote : UiSave(p, "InstallCertificate", {c})
  \/ p \in UiTools /\ UiSave(p, "SaveConfig", {})
  \/ p \in UiTools /\ \E c \in screen[p].bound : UiCall(p, "UninstallCertificate", {c})
  \/ p \in UiTools /\ \E op \in {"ListInstalledCertificates", "ListRemoteCertificates",
                                 "TestConnection"} : UiCall(p, op, {})

\* os.WriteFile in kspclient.SaveConfig: the file is emptied ...
OpenFile(p) ==
  /\ At(p, "open")
  /\ \/ /\ file' = IF tool[p].given THEN file ELSE File("empty", NoAddr)
        /\ Proceed(p, tool[p], Tools \ {p})
     \/ UNCHANGED file /\ SaveFails(p)
  /\ UNCHANGED <<envVars, store, screen>>

\* ... and then written.  What another tool has written meanwhile shows
\* through if it is longer.
WriteFile(p) ==
  /\ At(p, "write")
  /\ \/ /\ \/ file' = IF tool[p].given THEN file ELSE File("whole", tool[p].addr)
           \/ ~tool[p].given /\ file.kind # "empty" /\ file' = File("mixed", NoAddr)
        /\ Proceed(p, tool[p], Tools \ {p})
     \/ UNCHANGED file /\ SaveFails(p)
  /\ UNCHANGED <<envVars, store, screen>>

\* ListCertificates over a new connection.
List(p) ==
  /\ At(p, "list")
  /\ \/ /\ tool[p].target \in up
        /\ Proceed(p, [tool[p] EXCEPT !.certs = IF @ = {} THEN offers ELSE @ \cap offers], {})
     \/ Fail(p)
  /\ UNCHANGED <<envVars, file, store, screen>>

\* readChoice: one of the certificates listed; there may be none.
Choose(p) ==
  /\ At(p, "choose")
  /\ \/ \E c \in tool[p].certs : Proceed(p, [tool[p] EXCEPT !.certs = {c}], {})
     \/ Fail(p)
  /\ UNCHANGED <<envVars, file, store, screen>>

\* InstallCertificate looks for the thumbprint in the new list.
Lookup(p) ==
  /\ At(p, "lookup")
  /\ IF tool[p].certs # {} THEN Proceed(p, tool[p], {}) ELSE Fail(p)
  /\ UNCHANGED <<envVars, file, store, screen>>

\* The screens of other managers are no longer up to date.
Outdated(p) ==
  [q \in UiTools |->
     IF q = p THEN screen[q]
     ELSE [screen[q] EXCEPT !.boundNow = "no", !.remoteNow = "no"]]

\* BindCertificateToKSP: the certificate replaces one with its thumbprint.
BindCertificateToKSP(p) ==
  /\ At(p, "bind")
  /\ \/ /\ store' = [c \in Certs |-> IF c \in tool[p].certs THEN "ksp" ELSE store[c]]
        /\ Proceed(p, tool[p], Tools \ {p})
        /\ screen' = Outdated(p)
     \/ Fail(p) /\ UNCHANGED <<store, screen>>
  /\ UNCHANGED <<envVars, file>>

\* RemoveCertificateFromStore: whatever has the thumbprint goes.
RemoveCertificateFromStore(p) ==
  /\ At(p, "delete")
  /\ \/ /\ \E c \in tool[p].certs : store[c] # "none" /\ store' = [store EXCEPT ![c] = "none"]
        /\ Proceed(p, tool[p], Tools \ {p})
        /\ screen' = Outdated(p)
     \/ Fail(p) /\ UNCHANGED <<store, screen>>
  /\ UNCHANGED <<envVars, file>>

\* ListRemoteCertificates, for the screen; an error of the server is only
\* reported, one of the store not even that.
Fetch(p) ==
  /\ At(p, "fetch")
  /\ \/ /\ tool[p].target \in up
        /\ \E list \in StoreLists :
             screen' = [screen EXCEPT ![p].remote = offers, ![p].marked = offers \cap list,
                                      ![p].remoteNow = Extent(list)]
     \/ screen' = [screen EXCEPT ![p].remoteNow = "no"]
  /\ Proceed(p, tool[p], {})
  /\ UNCHANGED <<envVars, file, store>>

\* Mutant: what is installed is added to what was shown.
Show_appends(p) ==
  /\ At(p, "show")
  /\ \E list \in StoreLists :
       screen' = [screen EXCEPT ![p].bound = @ \cup list, ![p].boundNow = Extent(list)]
  /\ Proceed(p, tool[p], {})
  /\ UNCHANGED <<envVars, file, store>>

\* ListInstalledCertificates, for the screen.
Show(p) ==
  /\ At(p, "show")
  /\ \/ \E list \in StoreLists :
          screen' = [screen EXCEPT ![p].bound = list, ![p].boundNow = Extent(list)]
     \/ screen' = [screen EXCEPT ![p].boundNow = "no"]
  /\ Proceed(p, tool[p], {})
  /\ UNCHANGED <<envVars, file, store>>

\* A digest that is not one, or no message, is refused; the rest is for the
\* store and the provider.
TestSign(p) ==
  /\ tool[p].op = "none"
  /\ \/ screen' = [screen EXCEPT ![p].test = "invalid"]
     \/ \E c \in screen[p].bound :
          screen' = [screen EXCEPT ![p].test = IF Signable(c) THEN "signed" ELSE "failed"]
  /\ UNCHANGED <<envVars, file, store, tool, fresh>>

(***************************************************************************)
(* Everybody else                                                          *)
(***************************************************************************)
\* A tool is stopped; the window of a manager is gone.
Stop(p) ==
  /\ tool[p].op # "none"
  /\ tool' = [tool EXCEPT ![p] = Idle]
  /\ screen' = [q \in UiTools |-> IF q = p THEN Blank ELSE screen[q]]
  /\ fresh' = {}
  /\ UNCHANGED <<envVars, file, store>>

\* The network or the server changes.
Change ==
  /\ changes < MaxChanges
  /\ changes' = changes + 1
  /\ \/ up' \in SUBSET Endpoints /\ UNCHANGED offers
     \/ offers' \in SUBSET Certs /\ UNCHANGED up
  /\ tool' = Disturbed(Tools)
  /\ fresh' = {}
  /\ UNCHANGED <<file, store, screen>>

Next ==
  \/ Change
  \/ \E p \in UiTools : TestSign(p)
  \/ \E p \in Tools :
       \/ Start(p) \/ Stop(p)
       \/ OpenFile(p) \/ WriteFile(p)
       \/ List(p) \/ Choose(p) \/ Lookup(p)
       \/ BindCertificateToKSP(p) \/ RemoveCertificateFromStore(p)
       \/ Fetch(p) \/ Show(p)

Spec == Init /\ [][Next]_vars

-----------------------------------------------------------------------------
(***************************************************************************)
(* Properties                                                              *)
(***************************************************************************)
\* Every variable keeps its type, and a command that binds or removes a
\* certificate has exactly one.
TypeOK ==
  /\ up \subseteq Endpoints
  /\ offers \subseteq Certs
  /\ changes \in 0 .. MaxChanges
  /\ file \in [kind : {"absent", "empty", "whole", "mixed"},
               addr : [host : Hosts, port : {DefaultPort, NoPort}] \cup {NoAddr}]
  /\ store \in [Certs -> {"none", "other", "ksp"}]
  /\ \A p \in Tools :
       /\ tool[p].op \in DOMAIN Plan
       /\ tool[p].certs \subseteq Certs
       /\ At(p, "bind") \/ At(p, "delete") => Cardinality(tool[p].certs) = 1
       /\ At(p, "write") => tool[p].addr # NoAddr
  /\ \A p \in UiTools :
       screen[p].bound \subseteq Certs /\ screen[p].marked \subseteq screen[p].remote

(***************************************************************************)
(* After an install that succeeded, nothing else having changed meanwhile, *)
(* the certificate signs: it is bound to the provider and the provider     *)
(* finds in config.json the server that offers it.  Whatever an earlier    *)
(* tool that was stopped has left behind does not matter.  The manager     *)
(* ignores an error of SaveConfig and saves the address as it was typed,   *)
(* so that of its installs only the binding and the offer are certain.     *)
(***************************************************************************)
InstalledIsUsable ==
  \A i \in fresh :
    /\ i.tool \in CliTools => Signable(i.cert)
    /\ store[i.cert] = "ksp" /\ i.cert \in offers

\* What a list of "all" or "part" of the store shows, against what is there.
Agrees(now, shown, there) ==
  /\ now # "no" => shown \subseteq there
  /\ now = "all" => shown = there

(***************************************************************************)
(* A manager that waits for its user shows no binding that is not there,   *)
(* and marks no remote certificate as installed that is not; it shows and  *)
(* marks them all if the store was read to its end.  This holds until      *)
(* somebody else touches the store, or a list could not be had at all.  An *)
(* incomplete list is not reported (ListCertificatesByProvider drops the   *)
(* errors of the system, ListRemoteCertificates those of the store).       *)
(***************************************************************************)
ScreenIsCurrent ==
  \A p \in UiTools : tool[p].op = "none" =>
    /\ Agrees(screen[p].boundNow, screen[p].bound, Installed)
    /\ Agrees(screen[p].remoteNow, screen[p].marked, screen[p].remote \cap Installed)
=============================================================================
