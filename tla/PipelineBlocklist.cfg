SPECIFICATION Spec
CONSTANTS
  d1 = d1
  d2 = d2
  d3 = d3
  h1 = h1
  h2 = h2
  i1 = i1
  r1 = r1
  r2 = r2
  u1 = u1
  u2 = u2
  v1 = v1
  None = None
  Downloads = {d1, d2, d3}
  Items = {i1}
  Urls = {u1}
  Hashes = {h1}
  Videos = {v1}
  HashOf <- OneHash
  VideosOf <- NoVideo
  MaxCopies = 2
  Faults = {"fetch", "add", "delete"}
  MaxRetries = 0
  MaxImportRetries = 0
  UserStatuses = {"pending"}
  Requests = {r1}
  Movies = {i1}
  Series = {}
  MaxBlocklistFailures = 2
  ManualUrls = {}
  MaxRestarts = 0
  MaxStatusUpdates = 0
  MaxSettings = 0
  MaxEvents = 1
INVARIANTS
  BlocklistStopsRegrabs
