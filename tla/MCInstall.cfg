\* A command line tool and a manager side by side; one certificate; the
\* network or the server changes once.
CONSTANTS
  CliTools = {"cli"}
  UiTools = {"ui"}
  Hosts <- mcHosts
  LookupAddr <- mcLookupAddr
  Typed <- mcTyped
  Endpoints <- mcEndpoints
  Certs = {"c1"}
  MaxChanges = 1
SPECIFICATION Spec
INVARIANTS
  InstalledIsUsable
  ScreenIsCurrent
CHECK_DEADLOCK FALSE
