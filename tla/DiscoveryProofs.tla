--------------------------- MODULE DiscoveryProofs ---------------------------
(***************************************************************************)
(* Discovery for every number of hosts, servers and calls, every topology  *)
(* with consistent masks and every amount of duplication.                  *)
(*                                                                         *)
(* The inductive invariant follows a datagram: a probe carries an address  *)
(* of the host it came from and was heard by the server it goes to         *)
(* (ProbesHeard), an announcement is one the property allows, wherever it  *)
(* waits (AnswersGood), and what arrived before the last read ended is in  *)
(* the socket or in the table, and after that read in the table            *)
(* (InTimeKept).                                                           *)
(***************************************************************************)
EXTENDS Discovery, WellFoundedInduction, TLAPS

ProbesHeard ==
  \A m \in probes : /\ \E a \in Addrs(m.host) : a.ip = m.ip
                    /\ Hears(m.to, m.host, m.ip, m.dst)

\* May the host find server s, which it asked, at the address?
Good(h, s, addr) ==
  ~IsLoopback(Bind[s]) => Serves(s, addr) /\ (Bind[s] = Wildcard => OnLink(h, addr))

AnswerGood(m) == m.service = Service[m.hostname] /\ Good(m.host, m.hostname, m.grpc)

AnswersGood ==
  /\ \A m \in answers : AnswerGood(m)
  /\ \A c \in Clients : \A m \in inbox[c] : m.host = Home[c] /\ AnswerGood(m)

\* What is found so far, and what will be.
Found(c, m) == \E e \in seen[c] : e.grpc = m.grpc
Held(c, m) == m \in inbox[c] \/ Found(c, m)

Idle(c) == reader[c] \in {"timedout", "drained"}

InTimeKept ==
  \A c \in Clients : \A m \in intime[c] : m.service = Service[c] =>
    Held(c, m) /\ (Idle(c) => Found(c, m))

OpenHasPort == \A c \in Clients : IsOpen(c) => port[c] # NoPort

\* The inductive invariant.
Inv == /\ TypeOK /\ OpenHasPort /\ ProbesHeard /\ AnswersGood /\ InTimeKept
       /\ FoundIsReachable /\ OfTheService /\ InTimeIsFound /\ BroadcastAnswered

-----------------------------------------------------------------------------
(***************************************************************************)
(* Addresses.                                                              *)
(***************************************************************************)
\* The addresses of a host.
LEMMA AddrType ==
  ASSUME NEW h \in Hosts, NEW a \in Addrs(h)
  PROVE  a.ip \in IPs /\ a.mask \in Nat \ {0} /\ broadcastAddr(a.ip, a.mask) \in IPs
<1>1. PICK i \in DOMAIN Ifaces[h] : a = Ifaces[h][i]
  BY DEF Addrs
<1>2. Ifaces[h] \in Seq([ip : IPs, mask : Nat \ {0}])
  BY DiscoveryAssumption
<1>3. a \in [ip : IPs, mask : Nat \ {0}]
  <2> DEFINE T == [ip : IPs, mask : Nat \ {0}]
  <2> HIDE DEF T
  <2>1. Ifaces[h] \in Seq(T)
    BY <1>2 DEF T
  <2>2. a \in T
    BY <1>1, <2>1
  <2> QED
    BY <2>2 DEF T
<1> QED
  BY <1>3, DiscoveryAssumption

\* A set of positions that is not empty has a first one.
LEMMA FirstPosition ==
  ASSUME NEW S \in SUBSET Nat, S # {}
  PROVE  \E j \in S : \A k \in S : j <= k
<1> DEFINE R == OpToRel(<, Nat)
<1>1. PICK j \in S : \A k \in S : ~(<<k, j>> \in R)
  <2> HIDE DEF R
  <2>1. IsWellFoundedOn(R, Nat)
    BY NatLessThanWellFounded DEF R
  <2> QED
    BY <2>1, WFMin
<1>2. \A k \in S : ~(k < j)
  BY <1>1 DEF OpToRel
<1> QED
  BY <1>2

\* localIPFor: an address of the host outside loopback on the remote's
\* subnet, and there is one as soon as any interface is on that subnet.
LEMMA LocalIP ==
  ASSUME NEW h \in Hosts, NEW remote \in IPs
  PROVE  /\ \A ip \in localIPFor(h, remote) :
              \E a \in LanAddrs(h) : a.ip = ip /\ sameSubnet(a.ip, remote, a.mask)
         /\ \A a \in LanAddrs(h) : sameSubnet(a.ip, remote, a.mask) => localIPFor(h, remote) # {}
<1> DEFINE hits == {i \in DOMAIN Ifaces[h] :
                      /\ ~IsLoopback(Ifaces[h][i].ip)
                      /\ sameSubnet(Ifaces[h][i].ip, remote, Ifaces[h][i].mask)}
<1>1. localIPFor(h, remote) = {Ifaces[h][i].ip : i \in {j \in hits : \A k \in hits : j <= k}}
  BY DEF localIPFor
<1>2. ASSUME NEW ip \in localIPFor(h, remote)
      PROVE  \E a \in LanAddrs(h) : a.ip = ip /\ sameSubnet(a.ip, remote, a.mask)
  <2>1. PICK i \in hits : ip = Ifaces[h][i].ip
    BY <1>1
  <2>2. Ifaces[h][i] \in LanAddrs(h)
    BY DEF LanAddrs, Addrs
  <2> QED
    BY <2>1, <2>2
<1>3. ASSUME NEW a \in LanAddrs(h), sameSubnet(a.ip, remote, a.mask)
      PROVE  localIPFor(h, remote) # {}
  <2>1. PICK i \in DOMAIN Ifaces[h] : a = Ifaces[h][i]
    BY DEF LanAddrs, Addrs
  <2>2. i \in hits
    BY <1>3, <2>1 DEF LanAddrs
  <2>3. hits \in SUBSET Nat
    BY DiscoveryAssumption
  <2>4. PICK j \in hits : \A k \in hits : j <= k
    <3> HIDE DEF hits
    <3> QED BY <2>2, <2>3, FirstPosition
  <2> QED
    BY <1>1, <2>4
<1> QED
  BY <1>2, <1>3

\* The address a server announces for a probe is one the prober may use.
LEMMA AnnouncedGood ==
  ASSUME NEW s \in Servers, NEW h \in Hosts, NEW b \in Addrs(h),
         NEW addr \in grpcAddrForClient(s, b.ip)
  PROVE  addr \in IPs /\ Good(h, s, addr)
<1>1. Home[s] \in Hosts /\ b.ip \in IPs
  BY DiscoveryAssumption, AddrType
<1>2. CASE addr \in localIPFor(Home[s], b.ip)
  <2>1. PICK a \in LanAddrs(Home[s]) : a.ip = addr /\ sameSubnet(a.ip, b.ip, a.mask)
    BY <1>1, <1>2, LocalIP
  <2>2. a \in Addrs(Home[s]) /\ addr \in IPs
    BY <1>1, <2>1, AddrType DEF LanAddrs
  <2>3. OnLink(h, addr)
    BY <1>1, <2>1, ConsistentMasks DEF OnLink
  <2>4. Bind[s] = Wildcard => Serves(s, addr)
    BY <2>1, <2>2 DEF Serves
  <2>5. Bind[s] = Wildcard \/ IsLoopback(Bind[s]) \/ addr = Bind[s]
    BY DEF grpcAddrForClient
  <2> QED
    BY <2>2, <2>3, <2>4, <2>5 DEF Good, Serves
<1>3. CASE addr \notin localIPFor(Home[s], b.ip)
  <2>1. addr = Bind[s] /\ Bind[s] # Wildcard
    BY <1>3 DEF grpcAddrForClient
  <2> QED
    BY <2>1, DiscoveryAssumption DEF Good, Serves
<1> QED
  BY <1>2, <1>3

-----------------------------------------------------------------------------
(***************************************************************************)
(* Invariance.                                                             *)
(***************************************************************************)
dataVars == <<probes, answers, inbox, seen, intime, silent>>

\* A step that moves no announcement keeps the invariant if a read that ends
\* on a timeout leaves no announcement in the socket.
LEMMA ControlStep ==
  ASSUME Inv, UNCHANGED dataVars, TypeOK', OpenHasPort',
         \A c \in Clients : Idle(c)' => Idle(c) \/ inbox[c] = {}
  PROVE  Inv'
<1>1. ProbesHeard' /\ AnswersGood' /\ FoundIsReachable' /\ OfTheService' /\ BroadcastAnswered'
  BY DEF Inv, dataVars, ProbesHeard, AnswersGood, FoundIsReachable, OfTheService, BroadcastAnswered
<1>2. InTimeKept'
  BY DEF Inv, dataVars, InTimeKept, Held, Found
<1>3. InTimeIsFound'
  BY <1>2 DEF InTimeKept, InTimeIsFound, Found, Idle
<1> QED
  BY <1>1, <1>2, <1>3 DEF Inv

\* A server that starts, is cancelled or ends moves no datagram.
LEMMA ServerControl ==
  ASSUME Inv, NEW s \in Servers,
         RunDiscovery(s) \/ Cancel(s) \/ ServerReadTimeout(s) \/ ServerReadFails(s)
  PROVE  Inv'
<1>1. UNCHANGED <<silent, clientVars, probes, answers>>
  BY DEF RunDiscovery, Cancel, ServerReadTimeout, ServerReadFails
<1>2. srv' \in [Servers -> {"idle", "running", "cancelled", "stopped", "failed"}]
  BY DEF Inv, TypeOK, RunDiscovery, Cancel, ServerReadTimeout, ServerReadFails
<1>3. TypeOK' /\ OpenHasPort' /\ UNCHANGED dataVars
  BY <1>1, <1>2 DEF Inv, TypeOK, OpenHasPort, IsOpen, clientVars, socketVars, dataVars
<1> QED
  BY <1>1, <1>3, ControlStep DEF Idle, clientVars

\* The same for the client, up to the moment it returns.
LEMMA ClientControl ==
  ASSUME Inv, NEW c \in Clients,
         \/ ListenFails(c) \/ SendFails(c) \/ StartReading(c) \/ Expire(c) \/ Noise(c)
         \/ ReadOther(c) \/ ReadTimeout(c) \/ ReadFails(c) \/ Return(c)
  PROVE  Inv'
<1> USE DEF ListenFails, SendFails, StartReading, Expire, Noise, ReadOther, ReadTimeout,
            ReadFails, Return
<1>1. UNCHANGED <<serverVars, port, targets, inbox, seen, intime, probes, answers>>
  BY DEF socketVars
<1>2. /\ pc' \in [Clients -> {"idle", "probing", "waiting", "returned", "failed"}]
      /\ reader' \in [Clients -> {"none", "reading", "timedout", "drained", "broken"}]
      /\ expired' \subseteq Clients /\ noisy' \subseteq Clients
  BY DEF Inv, TypeOK, socketVars
<1>3. TypeOK' /\ UNCHANGED dataVars
  BY <1>1, <1>2 DEF Inv, TypeOK, serverVars, dataVars
<1>4. \A d \in Clients : IsOpen(d)' => IsOpen(d)
  BY DEF Inv, TypeOK, IsOpen
<1>5. OpenHasPort'
  BY <1>1, <1>4 DEF Inv, OpenHasPort
<1>6. \A d \in Clients : Idle(d)' => Idle(d) \/ inbox[d] = {}
  BY DEF Inv, TypeOK, Idle
<1> QED
  BY <1>3, <1>5, <1>6, ControlStep

\* A reader that goes on counts what has come meanwhile, and it is in the
\* socket; one that ends counts nothing.
LEMMA LookStep == ASSUME Inv, NEW c \in Clients, LookAtContext(c) PROVE Inv'
<1>1. /\ reader[c] = "timedout"
      /\ UNCHANGED <<serverVars, pc, expired, port, targets, inbox, noisy, seen, probes, answers>>
  BY DEF LookAtContext, socketVars
<1>2. \/ reader' = [reader EXCEPT ![c] = "drained"] /\ intime' = intime
      \/ /\ reader' = [reader EXCEPT ![c] = "reading"]
         /\ intime' = [intime EXCEPT ![c] = @ \cup inbox[c]]
  BY DEF LookAtContext
<1>3. TypeOK'
  BY <1>1, <1>2 DEF Inv, TypeOK, serverVars
<1>4. \A d \in Clients :
        /\ intime'[d] = intime[d] \/ (~Idle(d)' /\ intime'[d] = intime[d] \cup inbox[d])
        /\ Idle(d)' => Idle(d)
  BY <1>1, <1>2 DEF Inv, TypeOK, Idle
<1>5. InTimeKept'
  BY <1>1, <1>4 DEF Inv, InTimeKept, Held, Found
<1>6. InTimeIsFound'
  BY <1>5 DEF InTimeKept, InTimeIsFound, Found, Idle
<1>7. OpenHasPort' /\ ProbesHeard' /\ AnswersGood' /\ FoundIsReachable' /\ OfTheService'
      /\ BroadcastAnswered'
  BY <1>1 DEF Inv, OpenHasPort, IsOpen, ProbesHeard, AnswersGood, FoundIsReachable, OfTheService,
              BroadcastAnswered, serverVars
<1> QED
  BY <1>3, <1>5, <1>6, <1>7 DEF Inv

\* A new socket has a port.
LEMMA ListenStep == ASSUME Inv, NEW c \in Clients, Listen(c) PROVE Inv'
<1>1. Home[c] \in Hosts /\ ProbeAddrs[c] \subseteq IPs /\ NoPort \notin Ports /\ IPv4bcast \in IPs
  BY DiscoveryAssumption DEF NoPort, IPv4bcast, IPs
<1>2. broadcastTargets(Home[c]) \subseteq IPs
  BY <1>1, AddrType DEF broadcastTargets, LanAddrs
<1>3. PICK p \in Ports : port' = [port EXCEPT ![c] = p]
  BY DEF Listen
<1>4. PICK ts \in SUBSET IPs : targets' = [targets EXCEPT ![c] = ts]
  <2>1. PICK us \in {broadcastTargets(Home[c]), {IPv4bcast}} :
          targets' = [targets EXCEPT ![c] = us \cup ProbeAddrs[c]]
    BY DEF Listen
  <2> QED
    BY <1>1, <1>2, <2>1
<1>5. TypeOK'
  BY <1>3, <1>4 DEF Inv, TypeOK, Listen, serverVars, socketVars
<1>6. OpenHasPort'
  BY <1>1, <1>3 DEF Inv, TypeOK, OpenHasPort, IsOpen, Listen
<1>7. UNCHANGED dataVars /\ UNCHANGED <<reader, expired>>
  BY DEF Listen, serverVars, socketVars, dataVars
<1> QED
  BY <1>5, <1>6, <1>7, ControlStep DEF Idle

\* The source of a datagram is an address of the sending host.
LEMMA SourceType ==
  ASSUME NEW h \in Hosts, NEW dst, NEW ip \in Sources(h, dst)
  PROVE  \E a \in Addrs(h) : a.ip = ip
BY DEF Sources, LanAddrs

\* A probe goes to servers that hear it, from an address of its host.
LEMMA SendStep == ASSUME Inv, NEW c \in Clients, SendProbe(c) PROVE Inv'
<1>1. PICK dst \in targets[c] :
        /\ targets' = [targets EXCEPT ![c] = @ \ {dst}]
        /\ \E ip \in Sources(Home[c], dst) : probes' = probes \cup Copies(c, ip, dst)
  BY DEF SendProbe
<1>2. PICK ip \in Sources(Home[c], dst) : probes' = probes \cup Copies(c, ip, dst)
  BY <1>1
<1>3. /\ pc[c] = "probing" /\ UNCHANGED <<serverVars, pc, reader, expired, port>>
      /\ UNCHANGED <<inbox, noisy, seen, intime, answers>>
  BY DEF SendProbe, socketVars
<1>4. Home[c] \in Hosts /\ dst \in IPs /\ port[c] \in Ports /\ c \in Clients
  BY <1>3, DiscoveryAssumption DEF Inv, TypeOK, OpenHasPort, IsOpen
<1>5. PICK a \in Addrs(Home[c]) : a.ip = ip
  BY <1>4, SourceType
<1>6. ip \in IPs
  BY <1>4, <1>5, AddrType
<1>7. ASSUME NEW m \in probes', m \notin probes
      PROVE  /\ m \in ProbeType /\ m.host = Home[c] /\ m.ip = ip
             /\ Hears(m.to, m.host, m.ip, m.dst)
  <2>1. PICK s \in Servers, k \in 1 .. MaxCopies :
          m = Probe(c, ip, dst, s, k) /\ Hears(s, Home[c], ip, dst)
    BY <1>2, <1>7 DEF Copies
  <2> QED
    BY <1>4, <1>6, <2>1 DEF Probe, ProbeType
<1>8. TypeOK'
  BY <1>1, <1>3, <1>7 DEF Inv, TypeOK, serverVars
<1>9. ProbesHeard'
  BY <1>5, <1>7 DEF Inv, ProbesHeard
<1>10. OpenHasPort' /\ AnswersGood' /\ InTimeKept' /\ FoundIsReachable' /\ OfTheService'
       /\ InTimeIsFound' /\ BroadcastAnswered'
  BY <1>3 DEF Inv, OpenHasPort, IsOpen, AnswersGood, InTimeKept, Held, Found, Idle, FoundIsReachable,
              OfTheService, InTimeIsFound, BroadcastAnswered, serverVars
<1> QED
  BY <1>8, <1>9, <1>10 DEF Inv

\* A server announces good addresses, and is silent only to unicast probes.
LEMMA HandleStep ==
  ASSUME Inv, NEW s \in Servers, NEW m \in probes, HandleProbe(s, m)
  PROVE  Inv'
<1> DEFINE mine == m.service \in {"", Service[s]}
           reply == IF mine THEN {Announce(s, m, a) : a \in grpcAddrForClient(s, m.ip)} ELSE {}
<1>1. /\ m.to = s /\ probes' = probes \ {m} /\ answers' = answers \cup reply
      /\ silent' = IF mine /\ reply = {} THEN silent \cup {m} ELSE silent
      /\ UNCHANGED <<srv, clientVars>>
  BY DEF HandleProbe
<1>2. m \in ProbeType /\ Hears(s, m.host, m.ip, m.dst)
  BY <1>1 DEF Inv, TypeOK, ProbesHeard
<1>3. m.host \in Hosts /\ m.port \in Ports /\ m.dst \in IPs /\ m.ip \in IPs
      /\ m.copy \in 1 .. MaxCopies /\ Home[s] \in Hosts
  BY <1>2, DiscoveryAssumption DEF ProbeType
<1>4. PICK b \in Addrs(m.host) : b.ip = m.ip
  BY DEF Inv, ProbesHeard
<1>5. ASSUME NEW r \in reply PROVE r \in AnnounceType /\ AnswerGood(r)
  <2>1. PICK a \in grpcAddrForClient(s, m.ip) : r = Announce(s, m, a)
    BY <1>5
  <2>2. a \in IPs /\ Good(m.host, s, a)
    BY <1>3, <1>4, AnnouncedGood
  <2> QED
    BY <1>3, <2>1, <2>2 DEF Announce, AnnounceType, AnswerGood
<1>6. TypeOK'
  BY <1>1, <1>2, <1>5 DEF Inv, TypeOK, clientVars, socketVars
<1>7. AnswersGood'
  BY <1>1, <1>5 DEF Inv, AnswersGood, clientVars, socketVars
<1>8. BroadcastAnswered'
  <2>1. SUFFICES ASSUME mine, reply = {}
                 PROVE  \E a \in Addrs(Home[s]) : m.dst = a.ip
    BY <1>1 DEF Inv, BroadcastAnswered
  <2>2. grpcAddrForClient(s, m.ip) = {}
    BY <2>1
  <2>3. localIPFor(Home[s], m.ip) = {}
    BY <2>2 DEF grpcAddrForClient
  <2>4. \A a \in LanAddrs(Home[s]) : ~sameSubnet(a.ip, m.ip, a.mask)
    BY <1>3, <2>3, LocalIP
  <2> QED
    BY <1>2, <2>4 DEF Hears
<1>9. OpenHasPort' /\ ProbesHeard' /\ InTimeKept' /\ FoundIsReachable' /\ OfTheService'
      /\ InTimeIsFound'
  BY <1>1 DEF Inv, OpenHasPort, IsOpen, ProbesHeard, InTimeKept, Held, Found, Idle,
              FoundIsReachable, OfTheService, InTimeIsFound, clientVars, socketVars
<1> QED
  BY <1>6, <1>7, <1>8, <1>9 DEF Inv

\* An announcement that arrives waits in the socket.
LEMMA DeliverStep ==
  ASSUME Inv, NEW c \in Clients, NEW m \in answers, Deliver(c, m)
  PROVE  Inv'
<1>1. /\ m.host = Home[c] /\ answers' = answers \ {m}
      /\ inbox' = [inbox EXCEPT ![c] = @ \cup {m}]
      /\ intime' = IF reader[c] \in {"none", "reading"}
                   THEN [intime EXCEPT ![c] = @ \cup {m}] ELSE intime
      /\ UNCHANGED <<serverVars, pc, reader, expired, port, targets, noisy, seen, probes>>
  BY DEF Deliver
<1>2. m \in AnnounceType /\ AnswerGood(m)
  BY DEF Inv, TypeOK, AnswersGood
<1>3. TypeOK'
  BY <1>1, <1>2 DEF Inv, TypeOK, serverVars
<1>4. AnswersGood'
  BY <1>1, <1>2 DEF Inv, TypeOK, AnswersGood
<1>5. \A d \in Clients : \A n \in intime'[d] : n \in intime[d] \/ (d = c /\ n = m /\ ~Idle(d))
  BY <1>1 DEF Inv, TypeOK, Idle
<1>6. \A d \in Clients : /\ inbox[d] \subseteq inbox'[d] /\ m \in inbox'[c]
  BY <1>1 DEF Inv, TypeOK
<1>7. InTimeKept'
  BY <1>1, <1>5, <1>6 DEF Inv, InTimeKept, Held, Found, Idle
<1>8. InTimeIsFound'
  BY <1>7 DEF InTimeKept, InTimeIsFound, Found, Idle
<1>9. OpenHasPort' /\ ProbesHeard' /\ FoundIsReachable' /\ OfTheService' /\ BroadcastAnswered'
  BY <1>1 DEF Inv, OpenHasPort, IsOpen, ProbesHeard, FoundIsReachable, OfTheService,
              BroadcastAnswered, serverVars
<1> QED
  BY <1>3, <1>4, <1>7, <1>8, <1>9 DEF Inv

\* What the reader takes from the socket for its service, it keeps.
LEMMA ReadStep ==
  ASSUME Inv, NEW c \in Clients, NEW m \in inbox[c], ReadAnnounce(c, m)
  PROVE  Inv'
<1> DEFINE new == [hostname |-> m.hostname, grpc |-> m.grpc, service |-> m.service]
<1>1. /\ reader[c] = "reading" /\ inbox' = [inbox EXCEPT ![c] = @ \ {m}]
      /\ seen' = [seen EXCEPT ![c] = IF m.service = Service[c] THEN Collect(@, m) ELSE @]
      /\ UNCHANGED <<serverVars, pc, reader, expired, port, targets, noisy, intime, probes, answers>>
  BY DEF ReadAnnounce
<1>2. m \in AnnounceType /\ AnswerGood(m) /\ m.host = Home[c]
  BY DEF Inv, TypeOK, AnswersGood
<1>3. new \in EntryType
  BY <1>2 DEF AnnounceType, EntryType
<1>4. \A d \in Clients : \A e \in seen'[d] :
        e \in seen[d] \/ (d = c /\ e = new /\ m.service = Service[c])
  BY <1>1 DEF Inv, TypeOK, Collect
<1>5. \A d \in Clients : \A e \in seen[d] : \E f \in seen'[d] : f.grpc = e.grpc
  <2>1. \A d \in Clients : d # c => seen'[d] = seen[d]
    BY <1>1 DEF Inv, TypeOK
  <2>2. ASSUME NEW e \in seen[c] PROVE \E f \in seen'[c] : f.grpc = e.grpc
    <3>1. seen'[c] = seen[c] \/ seen'[c] = Collect(seen[c], m)
      BY <1>1 DEF Inv, TypeOK
    <3>2. e \in Collect(seen[c], m) \/ (new \in Collect(seen[c], m) /\ new.grpc = e.grpc)
      BY DEF Collect
    <3> QED
      BY <3>1, <3>2
  <2> QED
    BY <2>1, <2>2
<1>6. m.service = Service[c] => \E f \in seen'[c] : f.grpc = m.grpc
  <2>1. m.service = Service[c] => seen'[c] = Collect(seen[c], m)
    BY <1>1 DEF Inv, TypeOK
  <2>2. new \in Collect(seen[c], m) /\ new.grpc = m.grpc
    BY DEF Collect
  <2> QED
    BY <2>1, <2>2
<1>7. TypeOK'
  <2>1. seen' \in [Clients -> SUBSET EntryType]
    BY <1>1, <1>3 DEF Inv, TypeOK, Collect
  <2> QED
    BY <1>1, <2>1 DEF Inv, TypeOK, serverVars
<1>8. FoundIsReachable'
  BY <1>2, <1>4 DEF Inv, FoundIsReachable, AnswerGood, Good
<1>9. OfTheService'
  BY <1>2, <1>4 DEF Inv, OfTheService, AnswerGood
<1>10. \A d \in Clients : \A n \in inbox[d] : n \in inbox'[d] \/ (d = c /\ n = m)
  BY <1>1 DEF Inv, TypeOK
<1>11. InTimeKept'
  <2>1. \A d \in Clients, n \in AnnounceType : Found(d, n) => Found(d, n)'
    BY <1>5 DEF Found
  <2>2. \A d \in Clients : intime[d] \subseteq AnnounceType
    BY DEF Inv, TypeOK
  <2>3. m.service = Service[c] => Found(c, m)'
    BY <1>6 DEF Found
  <2> QED
    BY <1>1, <1>10, <2>1, <2>2, <2>3 DEF Inv, InTimeKept, Held, Idle
<1>12. InTimeIsFound'
  BY <1>11 DEF InTimeKept, InTimeIsFound, Found, Idle
<1>13. AnswersGood'
  BY <1>1 DEF Inv, TypeOK, AnswersGood
<1>14. OpenHasPort' /\ ProbesHeard' /\ BroadcastAnswered'
  BY <1>1 DEF Inv, OpenHasPort, IsOpen, ProbesHeard, BroadcastAnswered, serverVars
<1> QED
  BY <1>7, <1>8, <1>9, <1>11, <1>12, <1>13, <1>14 DEF Inv

\* The inductive invariant holds at the start and after every step.
THEOREM Invariance == Spec => []Inv
<1>1. Init => Inv
  BY DEF Init, Inv, TypeOK, OpenHasPort, IsOpen, ProbesHeard, AnswersGood, InTimeKept, Held, Found, Idle,
         FoundIsReachable, OfTheService, InTimeIsFound, BroadcastAnswered
<1>2. ASSUME Inv, [Next]_vars PROVE Inv'
  <2>1. CASE UNCHANGED vars
    <3>1. TypeOK' /\ OpenHasPort' /\ UNCHANGED dataVars /\ UNCHANGED <<reader, expired>>
      BY <1>2, <2>1 DEF Inv, TypeOK, OpenHasPort, IsOpen, vars, serverVars, clientVars,
                         socketVars, dataVars
    <3> QED
      BY <1>2, <3>1, ControlStep DEF Idle
  <2>2. ASSUME NEW s \in Servers, ServerStep(s) PROVE Inv'
    BY <1>2, <2>2, ServerControl, HandleStep DEF ServerStep
  <2>3. ASSUME NEW c \in Clients, MainStep(c) \/ ReaderStep(c) \/ Expire(c) PROVE Inv'
    BY <1>2, <2>3, ClientControl, LookStep, SendStep, ReadStep DEF MainStep, ReaderStep
  <2>4. ASSUME NEW c \in Clients,
               \/ Listen(c) \/ ListenFails(c) \/ SendFails(c) \/ ReadFails(c)
               \/ Noise(c) \/ \E m \in answers : Deliver(c, m)
        PROVE  Inv'
    BY <1>2, <2>4, ClientControl, ListenStep, DeliverStep
  <2> QED
    BY <1>2, <2>1, <2>2, <2>3, <2>4 DEF Next
<1> QED
  BY <1>1, <1>2, PTL DEF Spec

\* Servers, calls and datagrams keep their types, for every topology.
THEOREM Typing == Spec => []TypeOK
<1>1. Inv => TypeOK
  BY DEF Inv
<1> QED BY <1>1, Invariance, PTL

\* Whatever the topology, a server a call finds listens at the address listed
\* (grpcAddrForClient).
THEOREM FoundServersReachable == Spec => []FoundIsReachable
<1>1. Inv => FoundIsReachable
  BY DEF Inv
<1> QED
  BY <1>1, Invariance, PTL

\* No server of another service is ever listed, ports reused or not.
THEOREM OnlyTheService == Spec => []OfTheService
<1>1. Inv => OfTheService
  BY DEF Inv
<1> QED
  BY <1>1, Invariance, PTL

\* No answer that was in the socket before the last read ended is dropped, in
\* whatever order reads, timeouts, looks at the context and arrivals come (the
\* reader of DiscoverServers).
THEOREM NothingInTimeLost == Spec => []InTimeIsFound
<1>1. Inv => InTimeIsFound
  BY DEF Inv
<1> QED
  BY <1>1, Invariance, PTL

\* Every broadcast probe for its service that a server reads is answered
\* (localIPFor finds an address whenever the probe was heard by broadcast).
THEOREM BroadcastsAnswered == Spec => []BroadcastAnswered
<1>1. Inv => BroadcastAnswered
  BY DEF Inv
<1> QED
  BY <1>1, Invariance, PTL

=============================================================================
