CONSTANTS
    Rejected = Rejected
    Invariants = {"a", "b"}
    Small <- SmallSetting
    Capped <- CappedSetting
    Whole <- WholeSetting
    Cut <- CutSetting
    Parts = {"dedup", "edgy", "multi", "limited", "enum", "edge"}
SPECIFICATION Spec
INVARIANTS DedupIsSound ReportIsSound
PROPERTIES DedupIsFaithful EnumerationIsFaithful SearchesEnd
CHECK_DEADLOCK FALSE
