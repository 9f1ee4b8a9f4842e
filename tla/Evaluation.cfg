SPECIFICATION FairSpec
CONSTANTS
    NumEnvs = 2
    EpisodeDecisions = 2
    NumCastings = 2
    ReuseEpisodes = 0
    BuildsFail = FALSE
    NoSeed = NoSeed
    Episodes = 3
    SeedBase = 7
    Baseline = "scripted"
    Opponents = {"scripted", "typo"}
    KnownPolicies = {"scripted"}
    PerEpisode = 1
    MaxLost = 1
INVARIANTS
    TypeOK
    SeedsScored
    SeedPlaysItsPair
    TrainsOnItsOwn
    ReplaysAreThisLearners
    ActAnswersTheStep
PROPERTY
    Promise
