SPECIFICATION Spec
CONSTANTS
  t1 = t1
  t2 = t2
  cert = cert
  Threads = {t1, t2}
  Certs = {cert}
  Ops <- WindowsOps
  StoreAnswers <- WindowsStore
  PingOnInit = FALSE
  TTL = 2
  RpcTimeout = 1
  CallTimeout = 2
  PingTimeout = 1
  MaxTime = 1
  MaxClients = 1
INVARIANTS
  FallsBackToRemote
