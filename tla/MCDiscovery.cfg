SPECIFICATION FairSpec
CONSTANTS
  gateway = gateway
  desk = desk
  srv1 = srv1
  call1 = call1
  call2 = call2
  Servers = {srv1}
  Clients = {call1, call2}
  Hosts <- MCHosts
  Ifaces <- MCIfaces
  Service <- MCService
  Home <- MCHome
  Bind <- MCBind
  ProbeAddrs <- MCProbeAddrs
  Ports = {1}
  MaxIP = 15
  Loopback = 12
  MaxCopies = 1
INVARIANTS
  FoundIsReachable
  InTimeIsFound
  BroadcastAnswered
  OfTheService
PROPERTY Returns
CHECK_DEADLOCK FALSE
