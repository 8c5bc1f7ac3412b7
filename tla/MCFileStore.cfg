\* A directory of two certificate files that is rewritten once while
\* it is loaded and served.
CONSTANTS
  Dirs = {"d1"}
  Providers <- mcProviders
  NameContains <- mcNameContains
  NFiles = 2
  Certs <- mcCerts
  Keys <- mcKeys
  KeyOf <- mcKeyOf
  Texts <- mcTexts
  NormalizeThumbprint <- mcNormalizeThumbprint
  Thumbprints <- mcThumbprints
  Prefixes <- mcPrefixes
  Threads = {t1}
  Stems = {"s"}
  Stem <- mcStem
  Contents <- mcContents
  MaxEdits = 1
SPECIFICATION Spec
INVARIANTS
  SignedByItsKey
PROPERTIES
  IsAtomicStore
  LoadsWhatIsThere
CHECK_DEADLOCK FALSE
