SPECIFICATION CaSpec
CONSTANTS
  p1 = p1
  p2 = p2
  x = x
  y = y
  c1 = c1
  c2 = c2
  none = none
  Paths <- MCPaths
  FolderOf <- MCFolderOf
  EpisodeOf <- MCEpisodeOf
  TitleOf <- MCTitleOf
  Providers = {x, y}
  NoProvider = none
  Aired <- MCAired
  CaCalls = {c1, c2}
  MaxItems = 2
  MaxEvents = 3
  CaFaults = {"scan", "provider"}
INVARIANTS
  UnmatchedIsNew
SYMMETRY CaSymmetry
CHECK_DEADLOCK FALSE
