SPECIFICATION ResolutionSpec
CONSTANTS
  Artifacts = {a, b}
  Remapped = {a}
  Workers = {x, y}
  Operations = {"resolve"}
  ContentSizes = {2}
  JarSize = 2
  MaxArtifacts = 2
  MaxCacheBytes = 3
  Nobody = Nobody
  Unused = Unused
  MaxTampers = 1
  MayRestart = TRUE
  Targets <- CascadeWorlds
  Mappings <- MappingWorlds
  Machines <- MachineWorlds
  Asked <- CallWorlds
  MaxCalls = 2
  Searches <- SearchWorlds
  Indexes <- IndexWorlds
  PageLimits = {1, 2}
  Cap = 3
  Budget = 4
  MaxPages = 4
  Documents <- DocumentWorlds
  PatchOps <- PatchWorlds
  MaxPatch = 2
  Mixins <- MixinWorlds
  Classes <- TargetClasses
  Filters <- FilterWorlds
  Subjects <- ClassSubjects
  Windows <- ClassWindows
  MemberPages = {1, 2}
  MaxReads = 4
  Servers = {s1, s2}
  MaxDatabases = 2
  MaxRequests = 2
  Lookups = {l1, l2}
  MaxEditions = 3
  Resolvers = {r1, r2}
  Builds = 2
  Shelves <- CacheShelves
  ManageOrders <- CacheOrders
  MaxWrites = 1
  Projects <- ProjectWorlds
  Questions <- QuestionWorlds
  MixinLanes = 2
  MaxEdits = 1
  Homes <- RuntimeHomes
  AccessFiles <- FileWorlds
  Demands <- DemandWorlds
  MaxBuilds = 1
  Loads = {{"mojang"}, {"tiny"}, {"mojang", "tiny"}}
  RowLimits = {1}
  Manifests <- ReleaseWorlds
  Traces <- TraceWorlds
  Diffs <- DiffWorlds
  NestedCalls = {n1, n2}
  ShellJars <- ShellWorlds
  MaxSets = 1
  MaxMishaps = 1
  BuildTrees <- BuildWorlds
  Runtimes <- RuntimeWorlds
  SymbolQuestions <- InquiryWorlds
  MaxScriptEdits = 1
SYMMETRY CallsAlike
INVARIANTS
  ResolutionTypeOK
  ArtifactsRight
  SourcesRight
  NamesRight
  SearchRight
  NbtRight
  MixinRight
  StoredRight
  WorkspaceRight
PROPERTY EvictionRight
\* A computation is over with its answer.
CHECK_DEADLOCK FALSE
