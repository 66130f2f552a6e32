SPECIFICATION FairSpec
CONSTANTS
  d1 = d1
  d2 = d2
  d3 = d3
  h1 = h1
  h2 = h2
  i1 = i1
  r1 = r1
  r2 = r2
  u1 = u1
  u2 = u2
  v1 = v1
  None = None
  Downloads = {d1}
  Items = {i1}
  Urls = {u1}
  Hashes = {h1}
  Videos = {v1}
  HashOf <- OneHash
  VideosOf <- OneVideo
  MaxCopies = 2
  Faults = {"fetch", "import", "path", "outage"}
  MaxRetries = 1
  MaxImportRetries = 1
  UserStatuses = {"pending"}
  Requests = {r1}
  Movies = {}
  Series = {i1}
  MaxBlocklistFailures = 1
  ManualUrls = {u1}
  MaxRestarts = 0
  MaxStatusUpdates = 0
  MaxSettings = 0
  MaxEvents = 1
PROPERTIES
  PendingIsSent
  ImportSettles
  CancelledRowsRemoved
