SPECIFICATION Spec
CONSTANTS
  t1 = t1
  t2 = t2
  cert = cert
  Threads = {t1, t2}
  Certs = {cert}
  Ops <- BridgeOps
  StoreAnswers <- AnyStore
  PingOnInit = TRUE
  TTL = 1
  RpcTimeout = 1
  CallTimeout = 2
  PingTimeout = 1
  MaxTime = 2
  MaxClients = 2
INVARIANTS
  OneConnection
  MutexHeld
  ListIsFresh
PROPERTIES
  NeverAnOlderList
  EveryCallReturns
