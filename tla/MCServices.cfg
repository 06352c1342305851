\* Bounds: two users, one service; three deliveries of two password requests
\* over three instants; three overlapping rotations; two gMSA hosts; five SMB
\* calls of a client and two of a peer; two ACME tasks and four requests; three
\* directory servers, five writes of one value.
CONSTANTS
  c1 = c1
  p1 = p1
  f1 = f1
  VersionMax = 8
  \* the KDC
  User = {alice, bob}
  Service = {http}
  Unknown = nobody
  Drift = {0, 2}
  Spelling = {"UPPER"}
  RegisteredSpelling = "lower"
  Offer = {{17, 18, 23}, {23}}
  NoPa = NoPa
  CLOCK_SKEW_TOLERANCE = 1
  TicketLifetime = 2
  MaxClock = 1
  MaxKeyChanges = 1
  MaxMessages <- MessageBounds
  \* the password service and the krbtgt key
  Rotator = {r1, r2, r3}
  NoHandle = NoHandle
  MaxRotations = 3
  Task = {t1, t2}
  Dn <- Accounts
  Ask <- Asks
  REPLAY_CACHE_TTL = 1
  MIN_PASSWORD_LEN = 2
  MAX_PASSWORD_LEN = 3
  NONCE_AND_TAG = 1
  NoPassword = NoPassword
  MaxRequests = 2
  MaxHandled = 3
  MaxInstant = 2
  \* gMSA
  Host = {h1, h2}
  Account = {g1, g2}
  Interval = {0, 1, 2, 91}
  NoManager = NoManager
  MaxDay = 1
  MaxRootRotations = 1
  MaxDerived = 2
  \* SMB
  Client = {c1}
  Peer = {p1}
  Registered <- ShareNames
  Path = {f1}
  UncPath <- UncPaths
  PeerRequest <- Strange
  Offset = {0, 1}
  Datum <- OneByte
  MaxSent <- SmbBounds
  NoShare = NoShare
  NoFile = NoFile
  NoReply = NoReply
  Idle = Idle
  \* the CA and the ACME server
  CaKey = "ca"
  NoName = ""
  BadName = "\""
  BadOid = "1.x"
  ProfileFile <- ProfileFiles
  SerialBytes <- Serials
  MaxSerial = 2
  Worker = {t1, t2}
  Key = {k1}
  Csr <- Csrs
  MaxNonces = 2
  MaxSigned = 4
  MaxOrders = 1
  Free = Free
  NoCsr = NoCsr
  NoCert = NoCert
  \* replication
  Node = {1, 2, 3}
  Writes <- Metadata
  MaxWrites = 4
  MaxPulled = 7
  None = None
INIT Init
NEXT Next
SYMMETRY Symmetry
INVARIANTS
  TicketsEarned
  SessionKeysConfined
  ReplayWindow
  PasswordsAsked
  NewestKeyHeld
  GmsaAgreement
  HandlesAgreed
  CertificatesTraced
  PullsInOrder
  ReplicasConverge
\* The bounds end every behaviour.
CHECK_DEADLOCK FALSE
