\* Two threads; two keys, so that a list can shrink, grow and be reordered
\* while it is enumerated.
CONSTANTS
  Threads = {t1, t2}
  Keys = {k1, k2}
  Hosts = {"ksp", "ksp11", "token", "app"}
  MaxChanges = 1
SPECIFICATION Spec
SYMMETRY Symmetry
INVARIANTS
  ListsTheKeys
  InfosFreed
  ReadyHasClient
  SignsInstalledKeys
CHECK_DEADLOCK FALSE
