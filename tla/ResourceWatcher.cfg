\* Two keys and two clusters and one object; a restart.
SPECIFICATION FairSpec
CONSTANTS
    Keys = {"pods", "nodes"}
    Clusters = {"local", "far"}
    Local = "local"
    Environments <- AllEnvironments
    Controllers <- AllControllers
    Objects = {"pod1"}
    Home <- Nearby
    NoMapping = {"nodes"}
    MaxTriggers = 2
    MaxTime = 3
    MaxBacklog = 1
    MaxBoots = 2
INVARIANTS TypeOK SetUpAsAsked NoStaleCreate CreateHandledOnce
PROPERTIES EventsInOrder NewObjectsReported
CHECK_DEADLOCK FALSE
