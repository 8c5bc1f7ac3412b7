SPECIFICATION Spec
CONSTANTS
  rsa = rsa
  ec = ec
  Keys <- MCKeys
  CertKind <- MCCertKind
  Subject <- MCSubject
  SigLen <- MCSigLen
  Enumerations <- MCEnumerations
  Caps = {1, 2}
  ObjHandles = {1, 2}
  MaxSessions = 2
  MaxHandle = 3
  MaxParts = 2
  MaxFind = 2
  Mechs <- MCMechs
  Params <- MCParams
  Parts <- MCParts
  Templates <- MCTemplates
CONSTRAINT OneThingAtATime
INVARIANTS
  TypeOK
  HandlesUnique
  NothingLeftBehind
  SignOnChosenKey
  FindWithinTable
  FinalizeSafe
  OperationAsAsked
  DeliveredAsPermitted
  SizeQueryBinding
PROPERTY ClosedHandleStaysClosed
CHECK_DEADLOCK FALSE
