SPECIFICATION PathSpec
CONSTANTS
  Lens <- MCLens
  Kinds <- MCKinds
  Outers <- MCOuters
INVARIANT DigestInfoIsSigned
CHECK_DEADLOCK FALSE
