SPECIFICATION PagesSpec
CONSTANTS
  Algorithms = {"pairwise", "boundary values", "json diff", "json schema", "openapi diff", "yaml", "curl"}
  Pages = {"scanner", "account pages", "applications page", "journey page", "dashboard page", "api tests page", "settings page", "entry page", "webhook page"}
  MaxParameters = 4
  MaxValues = 4
  MaxTyped = 5
  Bounds <- MCBounds
  Steps = {0, 2, 4}
  Grain = 2
  FirstDate <- MCFirstDate
  LastDate = 4
  EarlyText = early
  LateText = late
  ExactInteger = 3
  LongestText = 4
  Documents <- MCDocuments
  Rules <- MCRules
  Cases <- MCCases
  FORMATS = {"email"}
  Readable = {"word"}
  MAX_DEPTH = 2
  Contracts <- MCContracts
  MAX_SCHEMA_DEPTH = 3
  MaxReferences = 2
  Files <- MCFiles
  SecondFiles <- MCSecondFiles
  Layouts <- MCLayouts
  Tokens <- MCTokens
  CurlOptions <- MCCurlOptions
  MaxOptions = 4
  PageScan = {n1, n2}
  Reopened = r
  AccountPage <- MCAccountPage
  PageFilter = {f1, f2}
  LastPage = 3
  MaxLoads = 5
  AppId = {a1, a2}
  Registered = {a1}
  MaxAppCalls = 2
  PageExecution = {x1, x2}
  MaxStepReads = 2
  DashScan = {a1, a2}
  MaxRecords = 2
  MaxPageLoads = 2
  ApiApp = {a1, a2}
  RequestName = {n1, n2}
  MaxSaved = 2
  MaxPushes = 2
  MaxSends = 3
  ApiHistoryLimit = 2
  SettingValue = {v1}
  MaxPatches = 2
  MaxEntries = 3
  Box = {b1, b2}
  NoBox = none
  MaxCalls = 1
  MaxReads = 2
INVARIANTS
  CasesAreDesigned
  ComparisonsAreSound
  TextsAreReadAsWritten
  PagesFollowTheServer
  FormsKeepTheirWord

  
CHECK_DEADLOCK FALSE
