SPECIFICATION FairSpec
CONSTANTS
  d1 = d1
  v1 = v1
  moved = moved
  web = web
  Primary = primary
  NoRebind = none
  Targets = {moved}
  Streams = {v1}
  Data = {}
  Kinds = {"upgrade"}
  MaxSessions = 1
  MinSessions = 1
  InitialSessions = 1
  MaxBurst = 1
  Modes = {"service"}
  Names = {web}
  MaxAttempts = 2
  MaxWait = 1
PROPERTIES
  KeptConnected
\* The process may end.
CHECK_DEADLOCK FALSE
