\* Two cronjobs.
SPECIFICATION Spec
CONSTANTS
    Keys = {"pods", "nodes"}
    Clusters = {"local", "far"}
    Local = "local"
    Environments <- CronEnvironments
    Controllers <- AllControllers
    Objects = {"pod1"}
    Home <- Nearby
    NoMapping = {"nodes"}
    MaxTriggers = 2
    MaxTime = 3
    MaxBacklog = 1
    MaxBoots = 2
INVARIANTS EverySourceRuns
