SPECIFICATION PathSpec
CONSTANTS
  Lens <- MCLens
  Kinds <- MCKinds
  Outers <- MCOuters
INVARIANTS
  SignedAsPermitted
  ConformingIsSigned
CHECK_DEADLOCK FALSE
