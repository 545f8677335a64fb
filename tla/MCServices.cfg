SPECIFICATION Spec
CONSTANTS
  \* ClientPool: the warm-up adds two sessions at once, the scaler one at a time
  Data = {"d1", "d2"}
  Primary = "primary"
  Streams = {}
  Kinds = {"tcp"}
  MaxSessions = 3
  MinSessions = 1
  InitialSessions = 3
  MaxBurst = 1
  Targets = {"moved"}
  NoRebind = "none"
  \* FrameWriter
  Frames = {"a", "b", "c", "k"}
  ControlFrames = {"k"}
  None = "none"
  QueueSize = 2
  ControlSize = 1
  MaxBatch = 2
  LowDepth = 0
  \* ChallengeZone
  Orders = {"a", "b"}
  Foreign = {"old"}
  MinTTL = 2
  MaxTTL = 9
  RequestTTL = 0
  PropagationDelay = 3
  MaxClock = 7
  \* LoginLimiter
  Attempts = {"a1", "a2"}
  Addresses = {"i1"}
  Users = {"u1", "u2"}
  MaxFails = 2
  Window = 1
  \* AdminSetup
  Setups = {"b1", "b2"}
  Usernames = {"u1", "u2"}
  Tokens = {"t1"}
  Nobody = "nobody"
  \* Intake
  Peers = {"c1", "c2", "c3"}
  Sockets = {"w1"}
  MaxConns = 2
  Workers = 1
  QueueLength = 1
  HTTPQueue = 1
  \* Provisioning
  Operators = {"o1", "o2"}
  Clients = {"c1", "c2"}
  Accounts = {"a1", "a2"}
  Names = {"web"}
  NoClient = "none"
  NoRow = NoRow
  MaxRows = 1
  \* VisitorAccess
  Visitors = {"v1", "v2"}
  VisitorAddresses = {"i1"}
  Tunnels = {"t1", "t2"}
  NoTunnel = "none"
  AuthMax = 1
  LockoutThreshold = 2
  AuthWindow = 1
  Lockout = 2
  MaxAuthSessions = 1
  \* Daemons
  PIDs = {"p1", "p2"}
  Forwards = {"http 3000"}
  Commands = {"k1", "k2"}
  NoFile = "no file"
  NoTarget = "none"
  \* ServerProcess
  Goroutines = {"g1", "g2", "g3"}
INVARIANTS
  SlotsExact
  NothingLeftOpen
  BacklogExact
  ZoneKept
  FreshAnswer
  GuessesBounded
  OneSetup
  IntakeExact
  OneOwner
  StaleWritesHarmless
  ToldApart
  VisitorStreams
  Tracked
  StoreOutlives
PROPERTIES
  NoOvertaking
  FramesEnd
  LimitLifts
CHECK_DEADLOCK FALSE
