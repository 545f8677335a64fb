SPECIFICATION GroupSpec
CONSTANTS
  d1 = d1
  Data = {d1}
  Primary = primary
  None = None
  MaxFailures = 2
PROPERTIES OnePing RemovedForCause WedgedGoes GroupGoes
CHECK_DEADLOCK FALSE
