SPECIFICATION UserSpec
CONSTANTS
  a = a
  b = b
  c1 = c1
  c2 = c2
  i1 = i1
  i2 = i2
  Nobody = Nobody
  Users = {a, b}
  DefaultUser = a
  Calls = {c1, c2}
  MaxTokens = 2
  MaxChanges = 1
  MaxBoots = 1
  AcFaults = {"revoke"}
  MoSeasons = {1, 2}
  MoEpisodes <- MCMoEpisodes
  IxIndexers = {i1, i2}
  IxCalls = {"s1"}
  IxFetches = {"f1"}
  IxUpdates = {"u1"}
  IxSlots = 1
  IxMaxRefreshes = 1
  IxMaxAddresses = 1
  WtUsers = {a, b}
  WtItems = {c1, c2}
  WtIdentities = {"film"}
  WtPageSize = 1
  WtMaxEntries = 4
  WtNone = Nobody
INVARIANTS
  AccountsSafe
  SearchesServe
  HistoryTrue
PROPERTIES
  RequestsAttributed
SYMMETRY AccountsSymmetry
CHECK_DEADLOCK FALSE
