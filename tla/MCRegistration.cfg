\* Up to three failed calls or stopped runs, in any number of runs.
CONSTANT MaxFaults = 3
SPECIFICATION RegSpec
INVARIANTS
  ReportIsTrue
PROPERTY RegisterRepairs
CHECK_DEADLOCK FALSE
