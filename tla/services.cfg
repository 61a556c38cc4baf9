SPECIFICATION ServicesSpec
CONSTANTS
  GateCalls = {g1, g2, g3, g4}
  MaxConcurrent = 2
  MaxQueue = 2
  Streams <- Sessions
  MaxFrame = 5
  MaxHeader = 4
  Decompiles = {d1, d2}
  NoCall = NoCall
  Profiles = 3
  MaxStale = 2
  Artifacts = {a}
  Remapped = {a}
  Workers = {x, y}
  Operations = {"resolve", "index"}
  ContentSizes = {1}
  JarSize = 1
  MaxArtifacts = 1
  MaxCacheBytes = 2
  Nobody = Nobody
  Unused = Unused
  MaxTampers = 0
  MayRestart = FALSE
  Finders = {f1, f2}
  MaxGraphs = 1
  NoBuild = NoBuild
  FileCalls = {c1, c2}
  Versions = {v, w}
  Hashed = {v, "server jar"}
  AskedFor = {{v, w}, {"registry"}, {"merged"}}
  MaxJvms = 1
  Batches <- BatchWorlds
INVARIANTS
  ServicesTypeOK
  CallsRight
  FramesRight
  LoadsRight
PROPERTY EverythingEnds
CHECK_DEADLOCK FALSE
