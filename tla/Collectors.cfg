SPECIFICATION FairSpec
CONSTANTS
  Platforms = {"linux", "windows", "darwin"}
  Conns <- MCConns
  Names <- MCNames
  Lower <- MCLower
  Catalog <- MCCatalog
  DefaultPorts = {1}
  Configs <- MCConfigs
  Capacity = 1
  TTL = 2
  MaxStall = 1
INVARIANTS EucInv OnlyWatched NoEarlyRepeat
PROPERTIES StaysReported CloseReleases
CHECK_DEADLOCK FALSE
