\* Two replicas of one version and one of another.
SPECIFICATION FairSpec
CONSTANTS
    r1 = r1
    r2 = r2
    r3 = r3
    v1 = v1
    v2 = v2
    Replicas = {r1, r2, r3}
    Versions = {v1, v2}
    Version <- Upgrade
    LeaseDuration = 4
    RenewDeadline = 2
    Nobody = Nobody
    Gone = Gone
    MaxFaults = 3
INVARIANTS OneActive
PROPERTIES WorkResumes
