SPECIFICATION FairSpec
CONSTANTS
  d1 = d1
  v1 = v1
  moved = moved
  web = web
  Primary = primary
  NoRebind = none
  Targets = {moved}
  Streams = {v1}
  Data = {d1}
  Kinds = {"tcp", "upgrade"}
  MaxSessions = 2
  MinSessions = 1
  InitialSessions = 2
  MaxBurst = 1
  Modes = {"service", "ui"}
  Names = {web}
  MaxAttempts = 2
  MaxWait = 1
PROPERTIES
  RebindHonoured
  ComesBack
\* The process may end.
CHECK_DEADLOCK FALSE
