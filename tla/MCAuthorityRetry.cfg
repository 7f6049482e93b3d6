CONSTANTS
    Workers = {w1, w2, w3}
    Cases = {"confirmed", "unknown", "mismatch", "not_executed"}
    Parts = {"trajectory"}
    Targets = {"A", "B"}
    Intents = {"i"}
    MaxPermits = 4
    MaxReadbacks = 2
    Segments = {"s", "t"}
    MaxExecutions = 3
    Subjects = {"f1", "f2"}
    MaxRuns = 3
    Envelopes <- EnvelopesHere
    Proposals <- ProposalsHere
    Witnesses <- WitnessesHere
    Monitor <- MonitorHere
    Deciders <- DecidersHere
    Canaries <- CanariesHere
    MaxTime = 2
    MaxActions = 2
    MaxSessions = 2
    Events <- EventsHere
    Models <- ModelsHere
    Declarations <- DeclarationsHere
    Requirements <- RequirementsHere
    CounterIds = {"c"}
    Conditions = {"c", "d"}
    Start = 1
    End = 1
    Sources = {"s", "t"}
    MaxStep = 2
    MaxGeneration = 2
    MaxEvidence = 1
    Hashes = {"h", "i"}
SPECIFICATION MCSpec
INVARIANT RetryFollowsReconciliation
CHECK_DEADLOCK FALSE
