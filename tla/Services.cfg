SPECIFICATION SvSpec
CONSTANTS
  c1 = c1
  c2 = c2
  SbCalls = {c1, c2}
  MaxFiles = 2
  SbMaxCrashes = 1
  SbFaults = {"provider", "write", "stage", "remove"}
  SmEpisodes = {1, 2}
  SmReleases = {"short", "range", "second"}
  Title <- MCTitle
  Contains <- MCContains
  SmMaxBlocklistFailures = 1
  SmMaxRows = 3
  SmMaxEvents = 2
  NumOutcomes = 3
  MaxDetails = 2
  RpMaxAdded = 4
  RpMaxChanges = 1
  RcReleases = {"hungarian", "untagged", "dual", "multi", "cam"}
  Parsed <- MCParsed
  RcProfiles <- MCProfiles
  RcKeywords = {"flux"}
  RcMaxResults = 3
  ApCalls = {c1, c2}
  ApWriters = {"w1", "w2"}
  ApKeys <- MCApKeys
  ApBuffer = 1
  ApMaxExpiries = 2
  ApFaults = {"login"}
  MsItems = {"one", "two"}
  MsLibraries = {"series"}
  LibraryOf <- MCLibraryOf
  MsMaxChanges = 3
  MsMaxSwitches = 1
  MsMaxRetries = 1
  UpVersions = {1, 2, 3}
  MigrationsOf <- MCMigrationsOf
  UpCalls = {c1, c2}
  UpMaxBackups = 2
  UpMaxCrashes = 2
  UpFaults = {"install", "exec", "script"}
INVARIANTS
  SubtitlesMatchRecords
  NothingUntried
  ReportTrue
  BestPicked
  ClientsServe
  ChangesReachServer
  UpgradesComplete
PROPERTIES
  QueuedIfMissing
SYMMETRY SvSymmetry
CHECK_DEADLOCK FALSE
