CONSTANTS
    Operations = {A, B}
    Executions = {e1, e2}
    Keys = {k, NoKey}
    NoKey = NoKey
    Parts = {"trace"}
    Submissions <- SubmissionsHere
    KeyRows <- KeyRowsHere
    KeyIds = {"sub", "plat"}
    Secrets = {"s1", "s2"}
    Catalogs <- CatalogsHere
    Profiles = {"p"}
    Bytes = {"good", "bad"}
    Convincing = {"good"}
    MaxChanges = 2
    FirstKeys <- FirstKeysHere
    FirstCatalog <- FirstCatalogHere
    Nodes <- NodesHere
    Edges <- EdgesHere
    MaxNodes = 3
    MaxEdges = 3
    Manifests <- ManifestsHere
    Reaches <- ReachesHere
    Controls <- ControlsHere
    Invariants = {"i", "j"}
    MaxEdits = 2
    Repairs = {"p", "q"}
    Elements <- ElementsHere
    Snapshots <- SnapshotsHere
    Scopes <- ScopesHere
    MaxCandidates = 2
    Base <- BaseHere
    Pushes <- PushesHere
    EventIds = {"e1", "e2"}
    Objects = {"a", "b"}
    Sources = {"s", "t"}
    Domains = {"c", "d"}
    Observer <- ObserverHere
    Events = 3
    MaxRecords = 3
    MaxTroubles = 1
    Policies <- PoliciesHere
    MaxEvents = 4
    Adapters <- AdaptersHere
    MaxAttempts = 3
    MaxObservations = 3
SPECIFICATION Spec
INVARIANT CompleteHasItsHead
CHECK_DEADLOCK FALSE
