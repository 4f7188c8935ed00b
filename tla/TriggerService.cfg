SPECIFICATION FairSpec
CONSTANTS
    s1 = s1
    home = home
    Services = {s1}
    Names = {s1}
    Namespaces = {home}
    Name <- OneName
    Namespace <- AllAtHome
    Installed = Installed
    Nobody = Nobody
    MaxGeneration = 2
    MaxFaults = 1
INVARIANTS UnboundOnlyAfterInterruption
PROPERTIES ConfigNeverGoesBack Served
CHECK_DEADLOCK FALSE
