\* Three certificates, two with a key and two of the provider.
CONSTANTS
  Threads = {t1}
  Certs = {c1, c2, c3}
  HasKey = {c1, c2}
  OfProvider = {c2, c3}
  MaxChanges = 1
SPECIFICATION NativeSpec
INVARIANTS
  ReleasedWhenDone
  NoMisuse
  CompleteOrError
CHECK_DEADLOCK FALSE
