------------------------------ MODULE Discovery ------------------------------
(***************************************************************************)
(* UDP discovery (internal/server/discovery.go, discovery_client.go): a    *)
(* cert-server answers probes on port 6666 with the address of its gRPC    *)
(* listener as the prober should see it; a client broadcasts probes and    *)
(* collects the answers until its time is over.                            *)
(*                                                                         *)
(* A client of this module is one call of DiscoverServers.  Datagrams are  *)
(* lost (never handled), delayed, reordered and duplicated (MaxCopies),    *)
(* and others that are no announcements may reach a client without end     *)
(* (Noise).  Hosts, their interfaces and links are external.               *)
(***************************************************************************)
EXTENDS Integers, Sequences

CONSTANTS
  Hosts,         \* machines
  Servers,       \* cert-server processes, one per host name
  Clients,       \* calls of DiscoverServers
  Home,          \* [Servers \cup Clients -> Hosts]
  Ifaces,        \* [Hosts -> sequences of interfaces, as net.InterfaceAddrs lists them]
  Bind,          \* [Servers -> host part of the gRPC address: Wildcard or an IP]
  Service,       \* [Servers \cup Clients -> the service name configured]
  ProbeAddrs,    \* [Clients -> unicast addresses probed besides the broadcasts]
  Ports,         \* ephemeral ports of a host
  MaxIP,         \* addresses are 0 .. MaxIP, the highest is the limited broadcast
  Loopback,      \* the first loopback address; those above it are loopback too
  MaxCopies      \* bound: copies of a datagram that may arrive

IPs == 0 .. MaxIP
IPv4bcast == MaxIP
Wildcard == -1
NoPort == -1
IsLoopback(ip) == ip >= Loopback /\ ip # IPv4bcast

(***************************************************************************)
(* An interface address; the mask is given by the number of addresses in   *)
(* the subnet.                                                             *)
(***************************************************************************)
Iface(ip, mask) == [ip |-> ip, mask |-> mask]
sameSubnet(a, b, mask) == a \div mask = b \div mask
broadcastAddr(ip, mask) == (ip \div mask) * mask + mask - 1

Addrs(h) == {Ifaces[h][i] : i \in DOMAIN Ifaces[h]}
LanAddrs(h) == {a \in Addrs(h) : ~IsLoopback(a.ip)}

ASSUME DiscoveryAssumption ==
  /\ Home \in [Servers \cup Clients -> Hosts]
  /\ MaxIP \in Nat /\ Loopback \in Nat /\ MaxCopies \in Nat
  /\ Ports \subseteq Nat
  /\ Ifaces \in [Hosts -> Seq([ip : IPs, mask : Nat \ {0}])]
  /\ \A h \in Hosts : \A a \in Addrs(h) : broadcastAddr(a.ip, a.mask) \in IPs
  /\ Bind \in [Servers -> IPs \cup {Wildcard}]
  /\ ProbeAddrs \in [Clients -> SUBSET IPs]

(***************************************************************************)
(* Two hosts on one subnet agree on where it ends, and nobody's subnet     *)
(* takes in the loopback addresses.                                        *)
(***************************************************************************)
ASSUME ConsistentMasks ==
  \A g, h \in Hosts : \A a \in LanAddrs(g), b \in Addrs(h) :
    sameSubnet(a.ip, b.ip, a.mask) => ~IsLoopback(b.ip) /\ sameSubnet(b.ip, a.ip, b.mask)

VARIABLES
  srv,           \* [Servers -> where RunDiscovery is]
  pc,            \* [Clients -> where DiscoverServers is]
  reader,        \* [Clients -> where its reading goroutine is]
  expired,       \* clients whose context is done
  port,          \* [Clients -> port of the socket, NoPort before it is open]
  targets,       \* [Clients -> addresses still to be probed]
  probes,        \* probes on their way
  answers,       \* announcements on their way
  inbox,         \* [Clients -> announcements in the socket's buffer]
  noisy,         \* clients with a datagram in the socket that is no announcement
  seen,          \* [Clients -> what the reader has collected]
  intime,        \* history: [Clients -> announcements that came before the last read ended]
  silent         \* history: probes for its service that a server did not answer

serverVars == <<srv, silent>>
socketVars == <<inbox, noisy>>
clientVars == <<pc, reader, expired, port, targets, socketVars, seen, intime>>
vars == <<serverVars, clientVars, probes, answers>>

IsOpen(c) == pc[c] \in {"probing", "waiting"}

(***************************************************************************)
(* Messages.  A probe goes from an address and port of the client's host   *)
(* to a server that hears the address dst; the answer goes back to it.     *)
(***************************************************************************)
Probe(c, ip, dst, s, k) ==
  [service |-> Service[c], ip |-> ip, host |-> Home[c], port |-> port[c],
   dst |-> dst, to |-> s, copy |-> k]
Announce(s, m, addr) ==
  [service |-> Service[s], hostname |-> s, grpc |-> addr, host |-> m.host, port |-> m.port,
   dst |-> m.dst, copy |-> m.copy]

(***************************************************************************)
(* External: the source address the system picks for a datagram from h to  *)
(* dst, and the servers that receive it.                                   *)
(***************************************************************************)
Sources(h, dst) ==
  LET lan == {a.ip : a \in LanAddrs(h)}
      onLink == {a.ip : a \in {b \in Addrs(h) : sameSubnet(b.ip, dst, b.mask)}}
  IN IF dst = IPv4bcast \/ onLink = {} THEN lan ELSE onLink

Hears(s, h, ip, dst) ==
  \/ \E a \in Addrs(Home[s]) : a.ip = dst /\ (IsLoopback(dst) => h = Home[s])
  \/ \E a \in LanAddrs(Home[s]) :
       sameSubnet(a.ip, ip, a.mask) /\ dst \in {IPv4bcast, broadcastAddr(a.ip, a.mask)}

Copies(c, ip, dst) ==
  {Probe(c, ip, dst, s, k) : s \in {t \in Servers : Hears(t, Home[c], ip, dst)},
                             k \in 1 .. MaxCopies}

-----------------------------------------------------------------------------
(***************************************************************************)
(* The server.  localIPFor finds the first address on the prober's subnet, *)
(* or none; grpcAddrForClient replaces an unspecified or loopback host by  *)
(* it.  Both return the empty set for an error.                            *)
(***************************************************************************)
localIPFor_first_interface(h, remote) ==
  {Ifaces[h][i].ip : i \in {j \in DOMAIN Ifaces[h] :
     ~IsLoopback(Ifaces[h][j].ip) /\ \A k \in 1 .. j - 1 : IsLoopback(Ifaces[h][k].ip)}}

localIPFor_only_first(h, remote) ==
  {ip \in localIPFor_first_interface(h, remote) :
     \E a \in Addrs(h) : a.ip = ip /\ sameSubnet(ip, remote, a.mask)}

localIPFor(h, remote) ==
  LET hits == {i \in DOMAIN Ifaces[h] :
                 /\ ~IsLoopback(Ifaces[h][i].ip)
                 /\ sameSubnet(Ifaces[h][i].ip, remote, Ifaces[h][i].mask)}
  IN {Ifaces[h][i].ip : i \in {j \in hits : \A k \in hits : j <= k}}

grpcAddrForClient(s, remote) ==
  IF Bind[s] = Wildcard \/ (IsLoopback(Bind[s]) /\ ~IsLoopback(remote))
    THEN localIPFor(Home[s], remote)
    ELSE {Bind[s]}

\* main starts RunDiscovery; the socket may be refused.
RunDiscovery(s) ==
  /\ srv[s] = "idle"
  /\ \E r \in {"running", "failed"} : srv' = [srv EXCEPT ![s] = r]
  /\ UNCHANGED <<silent, clientVars, probes, answers>>

\* A signal makes main cancel the context; the loop goes on for the moment.
Cancel(s) ==
  /\ srv[s] = "running"
  /\ srv' = [srv EXCEPT ![s] = "cancelled"]
  /\ UNCHANGED <<silent, clientVars, probes, answers>>

HandleProbe(s, m) ==
  LET mine == m.service \in {"", Service[s]}
      reply == IF mine THEN {Announce(s, m, a) : a \in grpcAddrForClient(s, m.ip)} ELSE {}
  IN /\ srv[s] \in {"running", "cancelled"}
     /\ m.to = s
     /\ probes' = probes \ {m}
     /\ answers' = answers \cup reply
     /\ silent' = IF mine /\ reply = {} THEN silent \cup {m} ELSE silent
     /\ UNCHANGED <<srv, clientVars>>

\* The context is looked at only when a read ends without a datagram.
ServerReadTimeout(s) ==
  /\ srv[s] = "cancelled"
  /\ srv' = [srv EXCEPT ![s] = "stopped"]
  /\ UNCHANGED <<silent, clientVars, probes, answers>>

\* Any other error ends RunDiscovery; nobody starts it again.
ServerReadFails(s) ==
  /\ srv[s] \in {"running", "cancelled"}
  /\ srv' = [srv EXCEPT ![s] = IF @ = "cancelled" THEN "stopped" ELSE "failed"]
  /\ UNCHANGED <<silent, clientVars, probes, answers>>

-----------------------------------------------------------------------------
(***************************************************************************)
(* The client.                                                             *)
(***************************************************************************)
broadcastTargets(h) == {IPv4bcast} \cup {broadcastAddr(a.ip, a.mask) : a \in LanAddrs(h)}

\* A fresh socket; its port may be one an earlier call had.  Without a list
\* of interfaces only the limited broadcast is a target.
Listen(c) ==
  /\ pc[c] = "idle"
  /\ pc' = [pc EXCEPT ![c] = "probing"]
  /\ \E p \in Ports :
       /\ \A d \in Clients : IsOpen(d) /\ Home[d] = Home[c] => port[d] # p
       /\ port' = [port EXCEPT ![c] = p]
  /\ \E ts \in {broadcastTargets(Home[c]), {IPv4bcast}} :
       targets' = [targets EXCEPT ![c] = ts \cup ProbeAddrs[c]]
  /\ UNCHANGED <<serverVars, reader, expired, socketVars, seen, intime, probes, answers>>

\* No socket, or it cannot broadcast.
ListenFails(c) ==
  /\ pc[c] = "idle"
  /\ pc' = [pc EXCEPT ![c] = "failed"]
  /\ UNCHANGED <<serverVars, reader, expired, port, targets, socketVars, seen, intime,
                 probes, answers>>

SendProbe(c) ==
  /\ pc[c] = "probing"
  /\ \E dst \in targets[c] :
       /\ targets' = [targets EXCEPT ![c] = @ \ {dst}]
       /\ \E ip \in Sources(Home[c], dst) :
            probes' = probes \cup Copies(c, ip, dst)
  /\ UNCHANGED <<serverVars, pc, reader, expired, port, socketVars, seen, intime, answers>>

\* One failing write ends the call, and closes its socket.
SendFails(c) ==
  /\ pc[c] = "probing"
  /\ targets[c] # {}
  /\ pc' = [pc EXCEPT ![c] = "failed"]
  /\ noisy' = noisy \ {c}
  /\ UNCHANGED <<serverVars, reader, expired, port, targets, inbox, seen, intime, probes, answers>>

StartReading(c) ==
  /\ pc[c] = "probing"
  /\ targets[c] = {}
  /\ pc' = [pc EXCEPT ![c] = "waiting"]
  /\ reader' = [reader EXCEPT ![c] = "reading"]
  /\ UNCHANGED <<serverVars, expired, port, targets, socketVars, seen, intime, probes, answers>>

\* The timeout, or (also before the reader runs) the caller's own context.
Expire(c) ==
  /\ IsOpen(c)
  /\ c \notin expired
  /\ expired' = expired \cup {c}
  /\ UNCHANGED <<serverVars, pc, reader, port, targets, socketVars, seen, intime, probes, answers>>

\* External: a datagram reaches the socket that has the port now.
Deliver(c, m) ==
  /\ IsOpen(c)
  /\ m.host = Home[c] /\ m.port = port[c]
  /\ answers' = answers \ {m}
  /\ inbox' = [inbox EXCEPT ![c] = @ \cup {m}]
  /\ intime' = IF reader[c] \in {"none", "reading"}
               THEN [intime EXCEPT ![c] = @ \cup {m}] ELSE intime
  /\ UNCHANGED <<serverVars, pc, reader, expired, port, targets, noisy, seen, probes>>

\* External: something else reaches it, malformed or with another op.
Noise(c) ==
  /\ IsOpen(c)
  /\ c \notin noisy
  /\ noisy' = noisy \cup {c}
  /\ UNCHANGED <<serverVars, pc, reader, expired, port, targets, inbox, seen, intime,
                 probes, answers>>

\* seen[key]: the last announcement of an address replaces an earlier one.  The
\* fallback key, the source address, is for announcements without grpc_addr,
\* which RunDiscovery never sends.
Collect(found, m) ==
  {e \in found : e.grpc # m.grpc} \cup
    {[hostname |-> m.hostname, grpc |-> m.grpc, service |-> m.service]}

ReadAnnounce_any_service(c, m) ==
  /\ reader[c] = "reading"
  /\ inbox' = [inbox EXCEPT ![c] = @ \ {m}]
  /\ seen' = [seen EXCEPT ![c] = Collect(@, m)]
  /\ UNCHANGED <<serverVars, pc, reader, expired, port, targets, noisy, intime, probes, answers>>

ReadAnnounce(c, m) ==
  /\ reader[c] = "reading"
  /\ inbox' = [inbox EXCEPT ![c] = @ \ {m}]
  /\ seen' = [seen EXCEPT ![c] = IF m.service = Service[c] THEN Collect(@, m) ELSE @]
  /\ UNCHANGED <<serverVars, pc, reader, expired, port, targets, noisy, intime, probes, answers>>

\* A datagram that is no announcement: read on, without a look at the context.
ReadOther(c) ==
  /\ reader[c] = "reading"
  /\ c \in noisy
  /\ noisy' = noisy \ {c}
  /\ UNCHANGED <<serverVars, pc, reader, expired, port, targets, inbox, seen, intime,
                 probes, answers>>

\* Mutant: the read ends although there is something to read.
ReadTimeout_unread(c) ==
  /\ reader[c] = "reading"
  /\ reader' = [reader EXCEPT ![c] = "timedout"]
  /\ UNCHANGED <<serverVars, pc, expired, port, targets, socketVars, seen, intime, probes, answers>>

\* 200 ms have passed without a datagram.  (The goroutine is taken to reach
\* its read before the deadline it has just set.)
ReadTimeout(c) ==
  /\ reader[c] = "reading"
  /\ inbox[c] = {} /\ c \notin noisy
  /\ reader' = [reader EXCEPT ![c] = "timedout"]
  /\ UNCHANGED <<serverVars, pc, expired, port, targets, socketVars, seen, intime, probes, answers>>

\* Only then the context is looked at.  Datagrams may have come since, and the
\* context may have ended: they are read if the loop goes on, and are lost if
\* it ends.
LookAtContext(c) ==
  /\ reader[c] = "timedout"
  /\ IF c \in expired
     THEN reader' = [reader EXCEPT ![c] = "drained"] /\ UNCHANGED intime
     ELSE /\ reader' = [reader EXCEPT ![c] = "reading"]
          /\ intime' = [intime EXCEPT ![c] = @ \cup inbox[c]]
  /\ UNCHANGED <<serverVars, pc, expired, port, targets, socketVars, seen, probes, answers>>

ReadFails_readDone_open(c) ==
  /\ reader[c] = "reading"
  /\ reader' = [reader EXCEPT ![c] = "lost"]
  /\ UNCHANGED <<serverVars, pc, expired, port, targets, socketVars, seen, intime, probes, answers>>

\* Any other error ends the reader at once.
ReadFails(c) ==
  /\ reader[c] = "reading"
  /\ reader' = [reader EXCEPT ![c] = "broken"]
  /\ UNCHANGED <<serverVars, pc, expired, port, targets, socketVars, seen, intime, probes, answers>>

\* The context is done and readDone is closed: return seen, sorted by address
\* (no two entries share one, so the order says nothing more).
Return(c) ==
  /\ pc[c] = "waiting"
  /\ c \in expired
  /\ reader[c] \in {"drained", "broken"}
  /\ pc' = [pc EXCEPT ![c] = "returned"]
  /\ noisy' = noisy \ {c}
  /\ UNCHANGED <<serverVars, reader, expired, port, targets, inbox, seen, intime, probes, answers>>

-----------------------------------------------------------------------------
Init ==
  /\ srv = [s \in Servers |-> "idle"]
  /\ pc = [c \in Clients |-> "idle"]
  /\ reader = [c \in Clients |-> "none"]
  /\ expired = {}
  /\ port = [c \in Clients |-> NoPort]
  /\ targets = [c \in Clients |-> {}]
  /\ probes = {} /\ answers = {} /\ silent = {}
  /\ inbox = [c \in Clients |-> {}]
  /\ seen = [c \in Clients |-> {}]
  /\ intime = [c \in Clients |-> {}]
  /\ noisy = {}

ServerStep(s) ==
  \/ RunDiscovery(s) \/ Cancel(s) \/ ServerReadTimeout(s) \/ ServerReadFails(s)
  \/ \E m \in probes : HandleProbe(s, m)

\* What the two goroutines of a call do next, as against network and failures.
MainStep(c) == SendProbe(c) \/ StartReading(c) \/ Return(c)
ReaderStep(c) ==
  \/ \E m \in inbox[c] : ReadAnnounce(c, m)
  \/ ReadOther(c) \/ ReadTimeout(c) \/ LookAtContext(c)

Next ==
  \/ \E s \in Servers : ServerStep(s)
  \/ \E c \in Clients :
       \/ MainStep(c) \/ ReaderStep(c) \/ Expire(c)
       \/ Listen(c) \/ ListenFails(c) \/ SendFails(c) \/ ReadFails(c)
       \/ Noise(c)
       \/ \E m \in answers : Deliver(c, m)

(***************************************************************************)
(* Both goroutines of a call go on, and its timer fires.  Nothing is       *)
(* assumed of the servers and the network, not even that it is ever quiet. *)
(***************************************************************************)
Fairness ==
  \A c \in Clients : WF_vars(MainStep(c)) /\ WF_vars(ReaderStep(c)) /\ WF_vars(Expire(c))

Spec == Init /\ [][Next]_vars
FairSpec == Spec /\ Fairness

-----------------------------------------------------------------------------
(***************************************************************************)
(* Types.                                                                  *)
(***************************************************************************)
ProbeType ==
  [service : {Service[c] : c \in Clients}, ip : IPs, host : Hosts, port : Ports,
   dst : IPs, to : Servers, copy : 1 .. MaxCopies]
AnnounceType ==
  [service : {Service[s] : s \in Servers}, hostname : Servers, grpc : IPs, host : Hosts,
   port : Ports, dst : IPs, copy : 1 .. MaxCopies]
EntryType == [hostname : Servers, grpc : IPs, service : {Service[s] : s \in Servers}]

\* The state is well formed; in particular what is announced is an address,
\* never the unspecified host a server is configured with (grpcAddrForClient).
TypeOK ==
  /\ srv \in [Servers -> {"idle", "running", "cancelled", "stopped", "failed"}]
  /\ pc \in [Clients -> {"idle", "probing", "waiting", "returned", "failed"}]
  /\ reader \in [Clients -> {"none", "reading", "timedout", "drained", "broken"}]
  /\ expired \subseteq Clients /\ noisy \subseteq Clients
  /\ port \in [Clients -> Ports \cup {NoPort}]
  /\ targets \in [Clients -> SUBSET IPs]
  /\ probes \subseteq ProbeType /\ silent \subseteq ProbeType
  /\ answers \subseteq AnnounceType
  /\ inbox \in [Clients -> SUBSET AnnounceType]
  /\ intime \in [Clients -> SUBSET AnnounceType]
  /\ seen \in [Clients -> SUBSET EntryType]

(***************************************************************************)
(* Safety.                                                                 *)
(***************************************************************************)
\* Does the gRPC listener of s accept connections to the address?
Serves(s, addr) ==
  IF Bind[s] = Wildcard THEN \E a \in Addrs(Home[s]) : a.ip = addr ELSE Bind[s] = addr

\* Can host h send to the address without a router?
OnLink(h, addr) == \E a \in Addrs(h) : sameSubnet(a.ip, addr, a.mask)

\* Every server a call finds can be connected to at the address it is listed
\* with (grpcAddrForClient): the server it names listens there and, when the
\* server chose the address itself, it is on a subnet of the client.  A
\* server bound to a loopback address is left out: it announces its LAN
\* address to other hosts although it does not listen on it.
FoundIsReachable ==
  \A c \in Clients : \A e \in seen[c] :
    LET s == e.hostname
    IN ~IsLoopback(Bind[s]) =>
         /\ Serves(s, e.grpc)
         /\ Bind[s] = Wildcard => OnLink(Home[c], e.grpc)

\* A call lists only servers of the service it asked for, although a late
\* answer to an earlier call of another service may reach its socket when the
\* port is used again (the check of resp.Service in DiscoverServers).
OfTheService ==
  \A c \in Clients : \A e \in seen[c] : e.service = Service[c] /\ Service[e.hostname] = Service[c]

\* Every answer that reached the socket before the last read ended is in the
\* result, unless a read failed: the reader of DiscoverServers stops only at a
\* read that finds nothing.  An answer lost although it came before the
\* context was done has come after that, before the look at the context.
InTimeIsFound ==
  \A c \in Clients : reader[c] = "drained" =>
    \A m \in intime[c] : m.service = Service[c] => \E e \in seen[c] : e.grpc = m.grpc

\* A server leaves no broadcast probe for its service unanswered, whichever
\* of its interfaces it came in by (localIPFor).
BroadcastAnswered ==
  \A m \in silent : \E a \in Addrs(Home[m.to]) : m.dst = a.ip

(***************************************************************************)
(* Liveness.                                                               *)
(***************************************************************************)
Ended(c) == pc[c] \in {"returned", "failed"}

\* A call of DiscoverServers that has its socket ends, whatever is lost, late
\* or fails, unless datagrams that are no announcements keep its reader busy
\* for ever: it looks at the context only after 200 ms without any.
Returns ==
  \A c \in Clients : (pc[c] = "probing" ~> Ended(c)) \/ []<><<ReadOther(c)>>_vars

=============================================================================
