SPECIFICATION ServicesSpec
CONSTANTS
  AuthRequest = {"r1", "r2", "r3", "r4"}
  AuthMix <- MCAuthMix
  Email = {"e1"}
  EmailOf <- MCEmailOf
  Identity = {"g"}
  IdentityOf <- MCIdentityOf
  NoEmail = "no email"
  Nobody = "nobody"
  ChildKind <- MCChildKind
  MaxLines = 3
  Execution = {x1, x2, x3}
  Local = {x1}
  HostedRunner = TRUE
  Recording = {c1, c2}
  DashCall = {"c1", "c2", "c3", "c4"}
  ActivityOf <- MCActivityOf
  Clearing = "clear"
  ActivityLimit = 1
  Connection = {c1, c2}
  PlainRequest = {g1, g2}
  MaxConnections = 1
  MaxRequests = 2
  MaxBytes = 2
  Upload = {u1, u2}
  MaxRestarts = 1
  Host = {h1}
  DnsAnswer = {p, q, r}
  Blocked = {q}
  MAX_HEALTH_CHECKS = 2
  TableJob = {"t1", "t2"}
  Instance = {i1, i2}
  TaskOwner = {"o1", "o2"}
  TaskOwnerOf <- MCTaskOwnerOf
  MaxStamp = 2
  MAX_REDIRECTS = 1
  AllowPrivate = {TRUE, FALSE}
  Selector = {s1}
  MaxSteps = 2
  Journey = {j1, j2}
  BrowserScan = {s1}
  Request = {"a", "b"}
  Stamps <- MCStamps
  Skew = 2
  MaxTime = 5
  MaxRemembered = 2
  MaxConcurrency = 1
  MaxDeliveries = 2
  PublicEgress = {TRUE, FALSE}
  Address = {u0, u1}
  Unknown = u0
  MaxFindings = 3
  Scan = {a, b}
  RegressionsOnly = {a}
  AcceptBaseline = {b}
  Place = {"map", "more", "page", "home", "other"}
  Origin = {"map", "more", "page", "home"}
  Private = {"other"}
  Fickle = {"more"}
  FirstSitemap = "map"
  Location = {"map", "more", "page", "page#", "home", "other"}
  PlaceOf <- MCPlaceOf
  Sites <- MCSites
  MAX_SITEMAP_FILES = 3
  MAX_SITEMAP_HOPS = 1
  MaxPages = 2
  SuiteIssue = {i1}
  Row = {1, 2, 3}
  Stored <- MCStored
  PageLimit = 1
  EntryLimit = 2
  FailureLimit = 1
  CurrentSince = 2
  PreviousSince = 1
  Bin = {b1, b2, b3}
  Webhook = {w1, w2}
  Client = {c1, c2}
  MaxBins = 2
  MaxRequestsPerBin = 1
  BinTtl = 2
  RateLimit = 1
  RateWindow = 2
  PruneAbove = 0
  LastInstant = 4
  Person = {p1, p2}
  Application = {a1, a2}
  Collection = {d1, d2}
  Label = {l1, l2}
  ApiCall = {r1, r2, r3}
  MaxCollections = 1
  MaxRuns = 1
  Setting = {s1, s2}
  SettingValue = {v1}
INVARIANTS
  ServicesTypeOK
  LocalRunsAreSound
  RunsOnce
  SandboxKeepsItsLimits
  NothingLeftRunning
  AccountsAreSound
  EvidenceIsSound
  ScanVerdictIsSound
  
PROPERTIES
  WorkspaceIsSound
  ToolboxServicesAreSound
CHECK_DEADLOCK FALSE
