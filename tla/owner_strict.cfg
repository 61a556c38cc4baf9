\* The lookups alone; the cache of artifacts is as small as it can be.
SPECIFICATION ResolutionSpec
CONSTANTS
  Artifacts = {a}
  Remapped = {}
  Workers = {x}
  Operations = {"resolve"}
  ContentSizes = {1}
  JarSize = 1
  MaxArtifacts = 1
  MaxCacheBytes = 1
  Nobody = Nobody
  Unused = Unused
  MaxTampers = 0
  MayRestart = FALSE
  Targets <- CascadeWorlds
  Mappings <- MappingWorlds
  Machines = {}
  Asked = {}
  MaxCalls = 2
  Searches = {}
  Indexes <- IndexWorlds
  PageLimits = {1, 2}
  Cap = 3
  Budget = 4
  MaxPages = 4
  Documents = {}
  PatchOps = {}
  MaxPatch = 2
  Mixins = {}
  Classes <- TargetClasses
  Filters = {}
  Subjects = {}
  Windows = {}
  MemberPages = {1, 2}
  MaxReads = 4
  Servers = {}
  MaxDatabases = 1
  MaxRequests = 0
  Lookups = {}
  MaxEditions = 1
  Resolvers = {}
  Builds = 1
  Shelves = {}
  ManageOrders = {}
  MaxWrites = 0
  Projects = {}
  Questions = {}
  MixinLanes = 1
  MaxEdits = 0
  Homes = {}
  AccessFiles = {}
  Demands = {}
  MaxBuilds = 0
  Loads = {}
  RowLimits = {}
  Manifests = {}
  Traces = {}
  Diffs = {}
  NestedCalls = {}
  ShellJars = {}
  MaxSets = 1
  MaxMishaps = 0
  BuildTrees = {}
  Runtimes = {}
  SymbolQuestions = {}
  MaxScriptEdits = 0
INVARIANT OwnerStrict
CHECK_DEADLOCK FALSE
