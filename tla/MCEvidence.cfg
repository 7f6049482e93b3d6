CONSTANTS
    Publishers = {p1, p2, p3}
    Forced = {p3}
    Nobody = Nobody
    Parts = {"publication", "rpc", "hydration", "packs", "engagement", "bridge"}
    MaxHeight = 3
    MaxBlocks = 5
    MaxRuns = 2
    States = {"created", "funded", "released"}
    Initial = "created"
    Operations = {"fund", "release"}
    Allowed <- AllowedHere
    AuthorityOps = {"release"}
    TimeOps = {"fund"}
    Slots = {"payout"}
    RaceModels <- RacesHere
    MaxTransactions = 2
    MaxReports = 2
    Builders = {"b1", "b2"}
    Inputs = {"sound", "forked", "paidTwice"}
    Evaluate <- EvaluateHere
    MaxEdits = 1
    Runs = {"a", "b"}
    Manifests <- ManifestsHere
    Reports <- ReportsHere
    MaxSources = 2
    MaxChanges = 2
    Attempts = {"a1", "a2", "b1"}
    RequestOf <- RequestsHere
    Binding <- BindingHere
    Txs = {"t1", "t2"}
    Receipts <- ReceiptsHere
    Observations <- ObservationsHere
    MaxReceipts = 2
    MaxCaptures = 2
    MaxTraces = 1
    MaxObservations = 1
SPECIFICATION MCSpec
INVARIANTS PublishedEvidenceIsKept AssessmentRestsOnTheChain VerdictIsEarned VerifiedIsReplayed EvidenceIsFreshAndWhole OutcomeIsWitnessed
CHECK_DEADLOCK FALSE
