\* Log files up to twice the bound; two requests at the same time.
CONSTANTS
  MaxLogSize = 3
  MaxOldLog = 6
  MaxRequests = 2
SPECIFICATION Spec
INVARIANTS
  AnnouncedIsBound
  NoAnswerLost
  LogIsBounded
PROPERTY SignalEnds
CHECK_DEADLOCK FALSE
