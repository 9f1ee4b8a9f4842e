SPECIFICATION Spec
CONSTANTS
    NumEnvs = 2
    EpisodeDecisions = 2
    NumCastings = 2
    ReuseEpisodes = 0
    BuildsFail = TRUE
    NoSeed = NoSeed
    Episodes = 3
    SeedBase = 7
    Baseline = "scripted"
    Opponents = {"scripted"}
    KnownPolicies = {"scripted"}
    PerEpisode = 1
    MaxLost = 1
INVARIANT SeedPlaysItsPair
